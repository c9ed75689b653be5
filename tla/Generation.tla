---------------------------------- MODULE Generation ----------------------------------
(* One `multicodex generate`: Generate and streamGeneration                         *)
(* (internal/codexappserver/generate.go) on the connection of AppServerClient, with *)
(* the catalog they prepare (catalog.go, config.go) and a child that answers,       *)
(* refuses, announces events and dies as it likes.                                  *)
(*                                                                                  *)
(* The main goroutine prepares, starts the child and goes through the handshake;    *)
(* then one goroutine asks for the turn and one reads the events, and main waits    *)
(* for both. What main deferred runs in reverse: cancel the stream, close the       *)
(* connection, remove the temporary directory. Text is counted in pieces.           *)
EXTENDS AppServerClient

CONSTANTS WebSearch,    \* --search: the model may search the web
          MaxEvents     \* bound on the events the child announces

Handshake == <<"initialize", "initialized", "config", "account", "thread">>
GenerationRequests == {"initialize", "config", "account", "thread", "turn"}
GenerationNotices == {"initialized"}
Main == "main"
Turner == "turner"
GenerationCallers == {Main, Turner}

ASSUME GenerationAssumption ==
  /\ MaxEvents \in Nat /\ WebSearch \in BOOLEAN
  /\ Callers = GenerationCallers
  /\ Requests = GenerationRequests /\ Notices = GenerationNotices

VARIABLES
  at,        \* where Generate is
  step,      \* the call of the handshake it is in
  dir,       \* its temporary directory exists
  cancelled, \* a signal has cancelled the command's context
  streamer,  \* "off", "reading", "good", "failed"
  searched,  \* what the stream has seen of searches: "no", "activity", "item"
  text,      \* pieces written to the stream's output, in order
  outcome,   \* what Generate returns: "none", "ok", "failed"
  count,     \* events the child has announced
  said,      \* how many of them are text, up to anything that stops a generation
  verdict    \* the first thing that does: "none", "asked", "acted", "completed", "aborted"

generationVars == <<at, step, dir, cancelled, streamer, searched, text, outcome,
                    count, said, verdict>>
vars == <<clientVars, generationVars>>

-------------------------------------------------------------------------------------
(* What is acceptable.                                                              *)

(* The settings generationConfigIsSafe looks at. The child reports a set of them    *)
(* that are not as the command line asked; inherited search settings matter only    *)
(* when searching.                                                                  *)
Settings == {"model_provider", "model_catalog_json", "base_url", "web_search",
             "web_search_settings", "config_lockfile", "notify", "mcp_servers"}
ConfigIsSafe(differing) ==
  differing \cap (Settings \ (IF WebSearch THEN {} ELSE {"web_search_settings"})) = {}

(* A model of the catalog can be used when it has a name and the effort asked for,  *)
(* can do without the tools of an agent, and can search if that is asked for.       *)
ModelFaults == {"name", "effort", "agent_tools", "search_metadata"}
ModelIsUsable(faults) == faults = {}

(* An item or an event of a tool ends the generation, unless it is a search that    *)
(* was asked for; so does a request of the child.                                   *)
Searching == {"search", "searching"}
Forbidden(kind) == kind \in {"tool", "ask"} \/ (kind \in Searching /\ ~WebSearch)

Kinds == {"text", "note", "tool", "ask", "completed", "aborted"} \cup Searching
Ending == {"completed", "aborted"}

-------------------------------------------------------------------------------------
(* The main goroutine.                                                              *)

Init ==
  /\ New
  /\ at = "preparing" /\ step = 1 /\ dir = FALSE /\ cancelled = FALSE
  /\ streamer = "off" /\ searched = "no" /\ text = <<>>
  /\ outcome = "none" /\ count = 0 /\ said = 0 /\ verdict = "none"

(* The last of what was deferred is the removal of the directory.                   *)
Return == at' = "returned" /\ dir' = FALSE

(* The configuration of the home is inspected before anything is made.              *)
Inspect ==
  /\ at = "preparing"
  /\ \/ at' = "cataloging" /\ dir' = TRUE /\ UNCHANGED outcome
     \/ Return /\ outcome' = "failed"
  /\ UNCHANGED <<clientVars, step, cancelled, streamer, searched, text, count, said, verdict>>

(* PrepareGenerationCatalog: two short runs of codex, which a signal ends, one model *)
(* and one file. Its error leaves the directory to the deferred removal.            *)
Prepare ==
  /\ at = "cataloging"
  /\ \/ /\ \E faults \in {{}} \cup {{f} : f \in ModelFaults} :
             IF ModelIsUsable(faults)
               THEN at' = "starting" /\ UNCHANGED <<dir, outcome>>
               ELSE Return /\ outcome' = "failed"
     \/ Return /\ outcome' = "failed"      \* a command, its output or the file fails
  /\ UNCHANGED <<clientVars, step, cancelled, streamer, searched, text, count, said, verdict>>

StartRuns ==
  /\ at = "starting"
  /\ \/ Start /\ at' = "handshake" /\ UNCHANGED <<dir, outcome>>
     \/ Return /\ outcome' = "failed" /\ UNCHANGED clientVars
  /\ UNCHANGED <<step, cancelled, streamer, searched, text, count, said, verdict>>

Asks ==
  /\ at = "handshake" /\ call[Main].at = "idle"
  /\ Begin(Main, Handshake[step])
  /\ UNCHANGED generationVars

(* The next call of the handshake, or the two goroutines of the turn: the context of *)
(* the handshake is cancelled then.                                                 *)
Asked ==
  /\ at = "handshake" /\ call[Main].at = "returned"
  /\ LET good == call[Main].result = "good"
         last == good /\ step = Len(Handshake)
     IN /\ at' = CASE ~good -> "closing" [] last -> "waiting" [] OTHER -> at
        /\ outcome' = IF good THEN outcome ELSE "failed"
        /\ step' = IF good /\ ~last THEN step + 1 ELSE step
        /\ streamer' = IF last THEN "reading" ELSE streamer
        /\ expired' = IF last THEN expired \cup {Main} ELSE expired
        /\ call' = IF good /\ ~last THEN [call EXCEPT ![Main] = NoCall] ELSE call
  /\ UNCHANGED <<proc, pipes, inbox, heard, running, stopping, done, pending, answer,
                 writes, written, writer, events, reader, held, dir, cancelled,
                 searched, text, count, said, verdict>>

Turns ==
  /\ at # "handshake" /\ streamer # "off" /\ call[Turner].at = "idle"
  /\ Begin(Turner, "turn")
  /\ UNCHANGED generationVars

(* The loop over both results, in the order they come. A refused turn cancels the   *)
(* stream and waits for it; a stream that failed does not wait for the turn.        *)
TurnFailed ==
  /\ at = "waiting"
  /\ call[Turner].at = "returned" /\ call[Turner].result # "good"
  /\ at' = "draining" /\ outcome' = "failed"
  /\ UNCHANGED <<clientVars, step, dir, cancelled, streamer, searched, text, count, said, verdict>>

Drained ==
  /\ at = "draining" /\ streamer \in {"good", "failed"}
  /\ at' = "closing"
  /\ UNCHANGED <<clientVars, step, dir, cancelled, streamer, searched, text,
                 outcome, count, said, verdict>>

StreamFailed ==
  /\ at = "waiting" /\ streamer = "failed"
  /\ at' = "closing" /\ outcome' = "failed"
  /\ UNCHANGED <<clientVars, step, dir, cancelled, streamer, searched, text, count, said, verdict>>

(* Both are in. With --json the text was held back and is written now, or fails to. *)
BothDone ==
  /\ at = "waiting" /\ streamer = "good"
  /\ call[Turner].at = "returned" /\ call[Turner].result = "good"
  /\ at' = "closing"
  /\ outcome' \in {"ok", "failed"}
  /\ UNCHANGED <<clientVars, step, dir, cancelled, streamer, searched, text, count, said, verdict>>

(* Close: fail, then wait for the reader to release the connection.                 *)
Closes ==
  /\ at = "closing"
  /\ Fail
  /\ at' = "closed"
  /\ UNCHANGED <<inbox, heard, running, done, pending, answer, writes, written, writer,
                 events, reader, held, call, expired, step, dir, cancelled, streamer, searched,
                 text, outcome, count, said, verdict>>

Closed ==
  /\ at = "closed" /\ done
  /\ Return
  /\ UNCHANGED <<clientVars, step, cancelled, streamer, searched, text, outcome,
                 count, said, verdict>>

(* The wait has a timer of two seconds. Nothing may need it: it is not among the    *)
(* steps that have to happen.                                                       *)
CloseTimesOut ==
  /\ at = "closed"
  /\ Return
  /\ UNCHANGED <<clientVars, step, cancelled, streamer, searched, text, outcome,
                 count, said, verdict>>

-------------------------------------------------------------------------------------
(* The goroutine of the stream.                                                     *)

StreamStops ==
  /\ streamer = "reading"
  /\ at = "draining" \/ cancelled \/ done
  /\ streamer' = "failed" /\ searched' = "no"
  /\ UNCHANGED <<clientVars, at, step, dir, cancelled, text, outcome,
                 count, said, verdict>>

Reads ==
  /\ streamer = "reading" /\ events # <<>>
  /\ events' = Tail(events)
  /\ UNCHANGED <<proc, pipes, inbox, heard, running, stopping, done, pending, answer,
                 writes, written, writer, reader, held, call, expired>>
  /\ UNCHANGED <<at, step, dir, cancelled, outcome, count, said, verdict>>

StreamForbidden ==
  /\ Reads /\ Forbidden(Head(events).kind)
  /\ streamer' = "failed" /\ searched' = "no"
  /\ UNCHANGED text

(* Text goes to the output, which may refuse it (or be over its limit).             *)
StreamText ==
  /\ Reads /\ Head(events).kind = "text"
  /\ \/ text' = Append(text, Head(events).piece) /\ UNCHANGED <<streamer, searched>>
     \/ streamer' = "failed" /\ searched' = "no" /\ UNCHANGED text

(* An item of a search carries an identifier that has to be valid.                  *)
StreamSearch ==
  /\ Reads /\ Head(events).kind \in Searching /\ WebSearch
  /\ \/ /\ searched' = IF Head(events).kind = "search" \/ searched = "item"
                         THEN "item" ELSE "activity"
        /\ UNCHANGED streamer
     \/ /\ Head(events).kind = "search"
        /\ streamer' = "failed" /\ searched' = "no"
  /\ UNCHANGED text

StreamNote ==
  /\ Reads /\ Head(events).kind = "note"
  /\ UNCHANGED <<streamer, searched, text>>

(* A turn that completed is good unless its searches had no item.                   *)
StreamEnds ==
  /\ Reads /\ Head(events).kind \in Ending
  /\ streamer' = IF Head(events).kind = "completed" /\ searched # "activity"
                   THEN "good" ELSE "failed"
  /\ searched' = "no" /\ UNCHANGED text

streamGeneration == \/ StreamStops \/ StreamForbidden \/ StreamText \/ StreamSearch
                    \/ StreamNote \/ StreamEnds

-------------------------------------------------------------------------------------
(* The child, the signal and the timer.                                             *)

Outside == UNCHANGED <<at, step, dir, cancelled, streamer, searched, text, outcome>>

(* The child answers each request once; "refused" stands for an RPC error and for a *)
(* result that does not decode or that Generate does not accept.                    *)
ChildAnswers ==
  /\ \E m \in GenerationRequests :
       \/ m # "config" /\ Respond(m, "good")
       \/ m # "config" /\ Respond(m, "refused")
       \/ m = "config" /\ \E differing \in {{}} \cup {{s} : s \in Settings} :
                            Respond(m, IF ConfigIsSafe(differing) THEN "good" ELSE "refused")
  /\ Outside /\ UNCHANGED <<count, said, verdict>>

(* Events without effect come before the child has the turn, a request of its own at *)
(* any time, the rest once it has the turn. A turn ends once, after it was answered, *)
(* and nothing follows its end or a request, to which the child awaits the answer.  *)
ChildAnnounces ==
  /\ count < MaxEvents /\ verdict \notin Ending \cup {"asked"}
  /\ \E k \in Kinds :
       /\ IF heard["turn"] = "no" THEN k \in {"note", "ask"} ELSE k # "note"
       /\ verdict = "acted" => k = "text"
       /\ k \in Ending => heard["turn"] = "answered"
       /\ count' = count + 1
       /\ LET first == verdict = "none"
          IN /\ verdict' = CASE first /\ Forbidden(k) -> IF k = "ask" THEN "asked" ELSE "acted"
                            [] first /\ k \in Ending -> k
                            [] OTHER -> verdict
             /\ said' = IF first /\ k = "text" THEN said + 1 ELSE said
             /\ Says([kind |-> k, piece |-> IF first /\ k = "text" THEN said + 1 ELSE 0])
  /\ Outside /\ UNCHANGED heard

ChildDies == Dies /\ UNCHANGED generationVars

(* A signal during the commands of the catalog is a way for them to fail, and        *)
(* nothing looks at one that comes while the connection is closed.                  *)
Signal ==
  /\ ~cancelled /\ at \in {"starting", "handshake", "waiting", "draining"}
  /\ cancelled' = TRUE
  /\ Expire(Callers)
  /\ UNCHANGED <<at, step, dir, streamer, searched, text, outcome, count, said, verdict>>

(* The handshake has thirty seconds.                                                *)
HandshakeExpires ==
  /\ at = "handshake" /\ Main \notin expired
  /\ Expire({Main})
  /\ UNCHANGED generationVars

ConnectionRuns == (WriteLoop \/ ReadLoop) /\ UNCHANGED generationVars
CallRuns(c) == Calls(c) /\ UNCHANGED generationVars
MainRuns == \/ Inspect \/ Prepare \/ StartRuns \/ Asks \/ Asked \/ TurnFailed \/ Drained
            \/ StreamFailed \/ BothDone \/ Closes \/ Closed
ChildWrites == WriteEnds /\ UNCHANGED generationVars

(* When Generate has returned the command ends, with every goroutine of it.         *)
Next ==
  /\ at # "returned"
  /\ \/ MainRuns \/ Turns \/ (\E c \in Callers : CallRuns(c))
     \/ streamGeneration \/ ConnectionRuns
     \/ ChildWrites \/ ChildAnswers \/ ChildAnnounces \/ ChildDies
     \/ Signal \/ HandshakeExpires \/ CloseTimesOut

(* The goroutines of the command are scheduled and its timer fires; the child need  *)
(* not read, answer, announce or end, and no signal need come.                      *)
Fairness ==
  /\ WF_vars(MainRuns) /\ WF_vars(Turns) /\ WF_vars(streamGeneration)
  /\ \A c \in Callers : WF_vars(CallRuns(c))
  /\ WF_vars(WriteLoop /\ UNCHANGED generationVars)
  /\ WF_vars(ReadLoop /\ UNCHANGED generationVars)
  /\ WF_vars(HandshakeExpires)

Spec == Init /\ [][Next]_vars /\ Fairness

-------------------------------------------------------------------------------------
(* Properties.                                                                      *)

TypeOK ==
  /\ ClientTypeOK
  /\ step \in 1..Len(Handshake) /\ {dir, cancelled} \subseteq BOOLEAN
  /\ count \in 0..MaxEvents /\ said \in 0..count
  /\ verdict \in {"none", "asked", "acted", "completed", "aborted"}
  /\ streamer \in {"off", "reading", "good", "failed"}
  /\ searched \in {"no", "activity", "item"} /\ outcome \in {"none", "ok", "failed"}

(* The text written is the beginning of what the child said, in its order and with  *)
(* nothing missing in between, however requests, events and the child's end         *)
(* interleave; and when generate reports success the turn was accepted and          *)
(* completed, nothing forbidden came before its end, and all of the text is there   *)
(* (emit, client.go:430; streamGeneration, generate.go:304).                        *)
AnswerIsWhole ==
  /\ text = [i \in 1..Len(text) |-> i] /\ Len(text) =< said
  /\ outcome = "ok" => answer["turn"] = "good" /\ verdict = "completed" /\ Len(text) = said

(* When generate returns, on whichever of its ways out, the child and its group are *)
(* gone and the temporary directory is removed (generate.go:152, client.go:450).    *)
NothingLeftBehind == at = "returned" => proc # "up" /\ ~dir

(* A generation that was cancelled, whose child ended, or whose child announced the *)
(* end of the turn or something forbidden returns, and Close finds the connection   *)
(* released without its timer: nobody stays behind a full channel, a full queue, a  *)
(* child that does not read or an answer that never comes (client.go:201, 408, 478). *)
Over == cancelled \/ proc = "dead" \/ verdict # "none"
Ends == Over ~> at = "returned"
======================================================================================
