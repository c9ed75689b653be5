------------------------------ MODULE AppServerClient ------------------------------
(* The client of one codex app-server child (internal/codexappserver/client.go):   *)
(* callers that send requests, one writer goroutine that drains a bounded queue     *)
(* into the child's input, one reader goroutine that hands answers to callers and   *)
(* events to a bounded channel, and the teardown they share.                        *)
(*                                                                                  *)
(* A module that EXTENDS this one says what is asked and what the child answers. A  *)
(* request's identifier is its method: every method is asked at most once.          *)
EXTENDS Integers, Sequences, FiniteSets

CONSTANTS Callers,    \* goroutines that call Request or Notify
          Requests,   \* methods that are answered
          Notices,    \* methods of notifications, which are not
          QueueSize,  \* writeQueueSize, 8 in the code
          EventSize   \* defaultNotificationSize, 256 in the code

ASSUME ClientAssumption == /\ QueueSize \in Nat \ {0}
                           /\ EventSize \in Nat \ {0}
                           /\ Requests \cap Notices = {}

Methods == Requests \cup Notices
NoMethod == "no method"
Denial == "denial"     \* the fixed answer to a request of the child

VARIABLES
  proc,     \* the child's process group: "none", "up", "dead"
  pipes,    \* the client's ends of the child's pipes are open
  inbox,    \* lines the child has written and the reader has not scanned
  heard,    \* what the child has got and answered
  running,  \* cmd is set
  stopping, \* the stopping channel is closed
  done,     \* the done channel is closed
  pending,  \* requests whose answer is awaited
  answer,   \* what is in the response channel of a request
  writes,   \* the queue of the writer
  written,  \* what is in the result channel of an outbound message
  writer,   \* "off", "idle", "ended", or the message it is writing
  events,   \* the channel of events
  reader,   \* "off", "scanning", "denying", "emitting", "releasing", "waiting", "ended"
  held,     \* the event the reader has in hand
  call,     \* the call each caller is in
  expired   \* callers whose context is done

clientVars == <<proc, pipes, inbox, heard, running, stopping, done, pending, answer,
                writes, written, writer, events, reader, held, call, expired>>

NoCall == [at |-> "idle", method |-> NoMethod, result |-> "none"]
NoEvent == [kind |-> "none", piece |-> 0]

New ==
  /\ proc = "none" /\ pipes = FALSE /\ inbox = <<>> /\ heard = [m \in Methods |-> "no"]
  /\ running = FALSE /\ stopping = FALSE /\ done = FALSE
  /\ pending = {} /\ answer = [m \in Requests |-> "none"]
  /\ writes = <<>> /\ written = [m \in Methods |-> "none"] /\ writer = "off"
  /\ events = <<>> /\ reader = "off" /\ held = NoEvent
  /\ call = [c \in Callers |-> NoCall] /\ expired = {}

(* Start runs the child in a process group of its own, with both loops.            *)
Start ==
  /\ ~running
  /\ proc' = "up" /\ pipes' = TRUE /\ running' = TRUE
  /\ writer' = "idle" /\ reader' = "scanning"
  /\ UNCHANGED <<inbox, heard, stopping, done, pending, answer, writes, written, events,
                 held, call, expired>>

(* Mutant: closing the pipes is thought to be enough *)
FailSparesChild ==
  /\ stopping' = TRUE /\ pipes' = FALSE /\ proc' = proc

(* fail and stop: the first error stops delivery, closes both pipes and kills the   *)
(* group. It runs to its end between two steps of the others: what they can see of  *)
(* its middle is a channel or a pipe they would find closed a moment later.         *)
Fail ==
  /\ stopping' = TRUE
  /\ pipes' = FALSE
  /\ proc' = IF running THEN "dead" ELSE proc

-------------------------------------------------------------------------------------
(* Callers: Request, Notify and send.                                               *)

Ended(c, result) == call' = [call EXCEPT ![c].at = "returned", ![c].result = result]
Drops(c) == pending' = pending \ {call[c].method}

(* A request takes its place among the pending ones while the connection runs.      *)
Begin(c, m) ==
  /\ call[c].at = "idle"
  /\ call' = [call EXCEPT ![c] = [at |-> IF running THEN "queueing" ELSE "returned",
                                  method |-> m,
                                  result |-> IF running THEN "none" ELSE "failed"]]
  /\ pending' = IF running /\ m \in Requests THEN pending \cup {m} ELSE pending
  /\ UNCHANGED <<proc, pipes, inbox, heard, running, stopping, done, answer, writes,
                 written, writer, events, reader, held, expired>>

(* The message is queued: the select may take this case even when its context or    *)
(* the connection ended after the checks before it.                                 *)
Queue(c) ==
  /\ call[c].at = "queueing"
  /\ Len(writes) < QueueSize
  /\ writes' = Append(writes, call[c].method)
  /\ call' = [call EXCEPT ![c].at = "writing"]
  /\ UNCHANGED <<proc, pipes, inbox, heard, running, stopping, done, pending, answer,
                 written, writer, events, reader, held, expired>>

(* Nothing was queued: the call ends and the connection stays as it is.             *)
Refuse(c) ==
  /\ call[c].at = "queueing"
  /\ ~running \/ stopping \/ c \in expired
  /\ Ended(c, "failed") /\ Drops(c)
  /\ UNCHANGED <<proc, pipes, inbox, heard, running, stopping, done, answer, writes,
                 written, writer, events, reader, held, expired>>

(* A request waits for its answer once it is written; a notification is over.       *)
Wrote(c) ==
  /\ call[c].at = "writing"
  /\ written[call[c].method] = "ok"
  /\ IF call[c].method \in Requests
       THEN call' = [call EXCEPT ![c].at = "waiting"]
       ELSE Ended(c, "good")
  /\ UNCHANGED <<proc, pipes, inbox, heard, running, stopping, done, pending, answer,
                 writes, written, writer, events, reader, held, expired>>

NotWritten(c) ==
  /\ call[c].at = "writing"
  /\ written[call[c].method] = "failed" \/ stopping
  /\ Ended(c, "failed") /\ Drops(c)
  /\ UNCHANGED <<proc, pipes, inbox, heard, running, stopping, done, answer, writes,
                 written, writer, events, reader, held, expired>>

(* Cancelling after the message was queued ends the connection: part of it may be   *)
(* on its way.                                                                      *)
CancelWrite(c) ==
  /\ call[c].at = "writing" /\ c \in expired
  /\ Fail
  /\ Ended(c, "failed") /\ Drops(c)
  /\ UNCHANGED <<inbox, heard, running, done, answer, writes, written, writer, events,
                 reader, held, expired>>

(* The answer, or the closed channel that stands for a connection that ended.       *)
Await(c) ==
  /\ call[c].at = "waiting"
  /\ answer[call[c].method] # "none"
  /\ Ended(c, IF answer[call[c].method] = "closed" THEN "failed" ELSE answer[call[c].method])
  /\ UNCHANGED <<proc, pipes, inbox, heard, running, stopping, done, pending, answer,
                 writes, written, writer, events, reader, held, expired>>

GiveUp(c) ==
  /\ call[c].at = "waiting"
  /\ done \/ c \in expired
  /\ Ended(c, "failed") /\ Drops(c)
  /\ UNCHANGED <<proc, pipes, inbox, heard, running, stopping, done, answer, writes,
                 written, writer, events, reader, held, expired>>

Calls(c) == \/ Queue(c) \/ Refuse(c) \/ Wrote(c) \/ NotWritten(c) \/ CancelWrite(c)
            \/ Await(c) \/ GiveUp(c)

-------------------------------------------------------------------------------------
(* The writer goroutine: writeLoop.                                                 *)

Take ==
  /\ writer = "idle" /\ writes # <<>>
  /\ writer' = Head(writes) /\ writes' = Tail(writes)
  /\ UNCHANGED <<proc, pipes, inbox, heard, running, stopping, done, pending, answer,
                 written, events, reader, held, call, expired>>

Result(item, r) == written' = IF item = Denial THEN written ELSE [written EXCEPT ![item] = r]

(* The child has taken all of the message. A child that does not read keeps the     *)
(* writer here for as long as the pipe is open.                                     *)
WriteEnds ==
  /\ writer \in Methods \cup {Denial}
  /\ pipes /\ proc = "up"
  /\ heard' = IF writer = Denial THEN heard ELSE [heard EXCEPT ![writer] = "yes"]
  /\ Result(writer, "ok") /\ writer' = "idle"
  /\ UNCHANGED <<proc, pipes, inbox, running, stopping, done, pending, answer, writes,
                 events, reader, held, call, expired>>

WriteFails ==
  /\ writer \in Methods \cup {Denial}
  /\ ~pipes \/ proc = "dead"
  /\ Result(writer, "failed") /\ writer' = "ended"
  /\ Fail
  /\ UNCHANGED <<inbox, heard, running, done, pending, answer, writes, events, reader,
                 held, call, expired>>

StopWriter ==
  /\ writer = "idle" /\ stopping
  /\ writer' = "ended"
  /\ UNCHANGED <<proc, pipes, inbox, heard, running, stopping, done, pending, answer,
                 writes, written, events, reader, held, call, expired>>

-------------------------------------------------------------------------------------
(* The reader goroutine: readLoop, denyServerRequest, emit, terminate and finish.   *)

(* An answer to a request that is still pending goes to its channel; one that comes *)
(* after its caller gave up is dropped.                                             *)
ScanAnswer ==
  /\ reader = "scanning" /\ inbox # <<>> /\ Head(inbox).kind = "answer"
  /\ LET m == Head(inbox).method
     IN IF m \in pending
          THEN /\ pending' = pending \ {m}
               /\ answer' = [answer EXCEPT ![m] = Head(inbox).value]
          ELSE UNCHANGED <<pending, answer>>
  /\ inbox' = Tail(inbox)
  /\ UNCHANGED <<proc, pipes, heard, running, stopping, done, writes, written, writer,
                 events, reader, held, call, expired>>

ScanEvent ==
  /\ reader = "scanning" /\ inbox # <<>> /\ Head(inbox).kind # "answer"
  /\ held' = Head(inbox)
  /\ reader' = IF Head(inbox).kind = "ask" THEN "denying" ELSE "emitting"
  /\ inbox' = Tail(inbox)
  /\ UNCHANGED <<proc, pipes, heard, running, stopping, done, pending, answer, writes,
                 written, writer, events, call, expired>>

Deny ==
  /\ reader = "denying" /\ Len(writes) < QueueSize
  /\ writes' = Append(writes, Denial)
  /\ reader' = "emitting"
  /\ UNCHANGED <<proc, pipes, inbox, heard, running, stopping, done, pending, answer,
                 written, writer, events, held, call, expired>>

(* Mutant: a full channel drops the event *)
EmitDropping ==
  /\ reader = "emitting"
  /\ events' = IF Len(events) < EventSize THEN Append(events, held) ELSE events
  /\ held' = NoEvent /\ reader' = "scanning"
  /\ UNCHANGED <<proc, pipes, inbox, heard, running, stopping, done, pending, answer,
                 writes, written, writer, call, expired>>

Emit ==
  /\ reader = "emitting" /\ Len(events) < EventSize
  /\ events' = Append(events, held) /\ held' = NoEvent
  /\ reader' = "scanning"
  /\ UNCHANGED <<proc, pipes, inbox, heard, running, stopping, done, pending, answer,
                 writes, written, writer, call, expired>>

(* Mutant: delivery does not look at stopping *)
TerminatesUndelivered ==
  \/ reader = "scanning" /\ (~pipes \/ (proc = "dead" /\ inbox = <<>>))
  \/ reader = "denying" /\ (stopping \/ Len(writes) = QueueSize)

(* Why the reader ends: the stream does (one that the client closed may still hold  *)
(* scanned lines), delivery stops, or a full queue keeps a denial for two seconds.  *)
Terminates ==
  \/ reader = "scanning" /\ (~pipes \/ (proc = "dead" /\ inbox = <<>>))
  \/ reader = "emitting" /\ stopping
  \/ reader = "denying" /\ (stopping \/ Len(writes) = QueueSize)

Terminate ==
  /\ Terminates
  /\ Fail
  /\ reader' = "releasing" /\ held' = NoEvent /\ inbox' = <<>>
  /\ UNCHANGED <<heard, running, done, pending, answer, writes, written, writer,
                 events, call, expired>>

(* finish, up to the unlock: the requests still pending find their channel closed.  *)
Release ==
  /\ reader = "releasing"
  /\ answer' = [m \in Requests |-> IF m \in pending THEN "closed" ELSE answer[m]]
  /\ pending' = {} /\ running' = FALSE
  /\ reader' = "waiting"
  /\ UNCHANGED <<proc, pipes, inbox, heard, stopping, done, writes, written, writer,
                 events, held, call, expired>>

(* finish, after the child and the writer have ended.                               *)
Finish ==
  /\ reader = "waiting" /\ proc = "dead" /\ writer = "ended"
  /\ done' = TRUE /\ reader' = "ended"
  /\ UNCHANGED <<proc, pipes, inbox, heard, running, stopping, pending, answer, writes,
                 written, writer, events, held, call, expired>>

(* What the connection's own goroutines can do without the child.                   *)
WriteLoop == Take \/ WriteFails \/ StopWriter
ReadLoop == ScanAnswer \/ ScanEvent \/ Deny \/ Emit \/ Terminate \/ Release \/ Finish

-------------------------------------------------------------------------------------
(* The child, and the callers' contexts.                                            *)

Says(line) ==
  /\ proc = "up"
  /\ inbox' = Append(inbox, line)
  /\ UNCHANGED <<proc, pipes, running, stopping, done, pending, answer, writes,
                 written, writer, events, reader, held, call, expired>>

(* The child answers a request once.                                                *)
Respond(m, value) ==
  /\ m \in Requests /\ heard[m] = "yes"
  /\ heard' = [heard EXCEPT ![m] = "answered"]
  /\ Says([kind |-> "answer", method |-> m, value |-> value])

Dies ==
  /\ proc = "up"
  /\ proc' = "dead"
  /\ UNCHANGED <<pipes, inbox, heard, running, stopping, done, pending, answer, writes,
                 written, writer, events, reader, held, call, expired>>

Expire(cs) ==
  /\ expired' = expired \cup cs
  /\ UNCHANGED <<proc, pipes, inbox, heard, running, stopping, done, pending, answer,
                 writes, written, writer, events, reader, held, call>>

(* Every request waits in one place, and a connection that is released has nothing  *)
(* left to hand out.                                                                *)
ClientTypeOK ==
  /\ proc \in {"none", "up", "dead"}
  /\ {pipes, running, stopping, done} \subseteq BOOLEAN
  /\ pending \subseteq Requests /\ heard \in [Methods -> {"no", "yes", "answered"}]
  /\ answer \in [Requests -> {"none", "good", "refused", "closed"}]
  /\ written \in [Methods -> {"none", "ok", "failed"}]
  /\ writes \in Seq(Methods \cup {Denial}) /\ Len(writes) =< QueueSize
  /\ writer \in {"off", "idle", "ended", Denial} \cup Methods
  /\ Len(events) =< EventSize
  /\ reader \in {"off", "scanning", "denying", "emitting", "releasing", "waiting", "ended"}
  /\ \A c \in Callers : /\ call[c].at \in {"idle", "queueing", "writing", "waiting", "returned"}
                        /\ call[c].method \in Methods \cup {NoMethod}
                        /\ call[c].result \in {"none", "good", "refused", "failed"}
  /\ expired \subseteq Callers
=====================================================================================
