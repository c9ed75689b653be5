-------------------------- MODULE GenerationProofs --------------------------
(* The answer of a generation and what is left behind it, for any number of events, *)
(* with channels of any size. The text written is whole because one order runs      *)
(* through the whole way of an event: what the child wrote and the reader has not   *)
(* scanned, the event in the reader's hand, and the channel of the stream. Whatever *)
(* the teardown drops is the end of it.                                             *)
EXTENDS Generation, TLAPS

-------------------------------------------------------------------------------------
(* The inductive invariant.                                                         *)

Events == [kind : Kinds, piece : Nat]
AnswerLines == [kind : {"answer"}, method : Requests, value : {"good", "refused"}]
CallStates == [at : {"idle", "queueing", "writing", "waiting", "returned"},
               method : Methods \cup {NoMethod},
               result : {"none", "good", "refused", "failed"}]

Typed ==
  /\ call \in [Callers -> CallStates]
  /\ \A c \in Callers : call[c].at = "waiting" => call[c].method \in Requests
  /\ answer \in [Requests -> {"none", "good", "refused", "closed"}]
  /\ inbox \in Seq(Events \cup AnswerLines)
  /\ held \in Events \cup {NoEvent}
  /\ reader \in {"denying", "emitting"} => held \in Events
  /\ events \in Seq(Events)
  /\ text \in Seq(Nat) /\ said \in Nat
  /\ step \in 1..Len(Handshake)
  /\ streamer \in {"off", "reading", "good", "failed"}
  /\ verdict \in {"none", "asked", "acted", "completed", "aborted"}

(* The child runs between the start of the connection and its end, which comes      *)
(* before the return.                                                               *)
Early == at \in {"preparing", "cataloging", "starting"}

ChildOK ==
  /\ Early => proc = "none" /\ reader = "off" /\ ~running
  /\ proc = "up" => running
  /\ reader \in {"scanning", "denying", "emitting"} => running
  /\ reader \in {"releasing", "waiting", "ended"} => proc = "dead"
  /\ at = "closed" => proc # "up"
  /\ NothingLeftBehind

(* The turn is asked for once, and its answer is handed out once.                   *)
TurnOK ==
  /\ call[Turner].at # "idle" => call[Turner].method = "turn"
  /\ call[Main].at # "idle" => call[Main].method # "turn"
  /\ call[Turner].at = "idle" =>
       "turn" \notin pending /\ answer["turn"] = "none" /\ call[Turner].result = "none"
  /\ answer["turn"] # "none" => "turn" \notin pending
  /\ call[Turner].result = "good" => call[Turner].at = "returned" /\ answer["turn"] = "good"

(* An event that the child announced before another one.                            *)
Cut(e) == e.kind = "text" /\ e.piece = 0
Piece(e) == e.kind = "text" /\ e.piece > 0
Before(e, f) ==
  e.kind \in Kinds /\ f.kind \in Kinds =>
    /\ e.kind \notin Ending
    /\ Forbidden(e.kind) \/ Cut(e) => Cut(f)
    /\ Piece(e) /\ Piece(f) => e.piece < f.piece

Ordered ==
  /\ \A i, j \in 1..Len(events) : i < j => Before(events[i], events[j])
  /\ \A i \in 1..Len(events) : Before(events[i], held)
  /\ \A i \in 1..Len(events), j \in 1..Len(inbox) : Before(events[i], inbox[j])
  /\ \A j \in 1..Len(inbox) : Before(held, inbox[j])
  /\ \A i, j \in 1..Len(inbox) : i < j => Before(inbox[i], inbox[j])

(* What is on its way from the child to the stream.                                 *)
Line == {events[i] : i \in 1..Len(events)} \cup {held} \cup {inbox[j] : j \in 1..Len(inbox)}

Upcoming(n) == \E f \in Line : f.kind = "text" /\ f.piece = n

(* Each of these follows from what came before it.                                  *)
Sound(e) ==
  /\ e.kind \in Ending => verdict = e.kind
  /\ Forbidden(e.kind) => verdict \in {"acted", "asked"}
  /\ Cut(e) => verdict = "acted" /\ \E f \in Line : Forbidden(f.kind)
  /\ Piece(e) => e.piece > Len(text) /\ e.piece =< said
  /\ Piece(e) => \A n \in Len(text) + 1 .. e.piece : Upcoming(n)
  /\ e.kind \in Ending => \A n \in Len(text) + 1 .. said : Upcoming(n)

(* As long as the child lives nothing of what it said is lost: neither a piece of   *)
(* text nor what it did that makes the rest of its text worthless.                  *)
Kept ==
  /\ \A n \in Len(text) + 1 .. said : Upcoming(n)
  /\ verdict = "acted" => \E f \in Line : Forbidden(f.kind)

LineOK ==
  /\ Ordered
  /\ \A e \in Line : Sound(e)
  /\ proc = "up" => Kept

(* Nothing is said or read before the connection, and the reader's hand is empty    *)
(* between two lines.                                                               *)
PlacesOK ==
  /\ Early => said = 0 /\ verdict = "none"
  /\ Early \/ at = "handshake" => streamer = "off"
  /\ reader \in {"off", "scanning"} => held = NoEvent

(* What is written, and what the stream makes of the end.                           *)
TextOK ==
  /\ text = [i \in 1..Len(text) |-> i] /\ Len(text) =< said
  /\ streamer = "good" => verdict = "completed" /\ Len(text) = said

OutcomeOK == outcome = "ok" => streamer = "good" /\ call[Turner].result = "good"

StreamOK ==
  /\ PlacesOK /\ TextOK /\ OutcomeOK
  /\ streamer \in {"off", "reading"} => LineOK

IInv == Typed /\ ChildOK /\ TurnOK /\ StreamOK

-------------------------------------------------------------------------------------
(* The handshake asks for five things and never for the turn. *)
LEMMA HandshakeSteps ==
  /\ Len(Handshake) = 5
  /\ \A s \in 1..5 : Handshake[s] \in Methods /\ Handshake[s] # "turn"
  /\ Main \in Callers /\ Turner \in Callers /\ Main # Turner /\ Callers = {Main, Turner}
  /\ "turn" \in Requests /\ "turn" \in Methods /\ NoMethod \notin Methods
<1>1. \A s \in 1..5 : s = 1 \/ s = 2 \/ s = 3 \/ s = 4 \/ s = 5
  OBVIOUS
<1> QED
  BY <1>1, GenerationAssumption, ClientAssumption
  DEF Handshake, Methods, Main, Turner, GenerationCallers, GenerationRequests,
      GenerationNotices, NoMethod

(* What taking the first item of a queue leaves.                            *)
LEMMA HeadAndTail ==
  ASSUME NEW S, NEW s \in Seq(S), s # <<>>
  PROVE  /\ Head(s) \in S /\ Tail(s) \in Seq(S) /\ Head(s) = s[1]
         /\ Len(s) \in Nat \ {0} /\ Len(Tail(s)) = Len(s) - 1
         /\ \A i \in 1..Len(Tail(s)) : Tail(s)[i] = s[i + 1]
  OBVIOUS

(* What adding an item to a queue makes of it.                              *)
LEMMA Appended ==
  ASSUME NEW S, NEW s \in Seq(S), NEW e \in S
  PROVE  /\ Append(s, e) \in Seq(S) /\ Len(s) \in Nat /\ Len(Append(s, e)) = Len(s) + 1
         /\ \A i \in 1..Len(s) : Append(s, e)[i] = s[i]
         /\ Append(s, e)[Len(s) + 1] = e
  OBVIOUS

(* What a step of a call leaves alone, and how it may end the child. *)
LEMMA CallKeeps ==
  ASSUME NEW c \in Callers, CallRuns(c)
  PROVE  /\ UNCHANGED <<at, step, dir, cancelled, streamer, searched, text, outcome, count,
                        said, verdict, inbox, heard, running, done, answer, events,
                        reader, held, expired>>
         /\ proc' = proc \/ (running /\ proc' = "dead")
         /\ pending' \subseteq pending
         /\ call[c].at \in {"queueing", "writing", "waiting"}
  BY DEF CallRuns, Calls, Queue, Refuse, Wrote, NotWritten, CancelWrite, Await, GiveUp,
         Fail, Ended, Drops, generationVars

(* The call after it: it goes on, or it returns with what was handed out. *)
LEMMA CallMoves ==
  ASSUME NEW c \in Callers, CallRuns(c), Typed
  PROVE  \E r \in CallStates :
           /\ call' = [call EXCEPT ![c] = r]
           /\ r.method = call[c].method /\ r.at \in {"writing", "waiting", "returned"}
           /\ r.at = "waiting" => r.method \in Requests
           /\ \/ r.result = call[c].result
              \/ r.result = "failed"
              \/ r.at = "returned" /\ r.method \notin Requests
              \/ /\ r.at = "returned" /\ r.result \in {"good", "refused"}
                 /\ r.method \in Requests /\ answer[r.method] = r.result
<1> DEFINE Moves(r) ==
           /\ call' = [call EXCEPT ![c] = r]
           /\ r.method = call[c].method /\ r.at \in {"writing", "waiting", "returned"}
           /\ r.at = "waiting" => r.method \in Requests
           /\ \/ r.result = call[c].result
              \/ r.result = "failed"
              \/ r.at = "returned" /\ r.method \notin Requests
              \/ /\ r.at = "returned" /\ r.result \in {"good", "refused"}
                 /\ r.method \in Requests /\ answer[r.method] = r.result
<1>1. PICK d \in CallStates : d = call[c]
  BY DEF Typed
<1>2. CASE Queue(c) \/ (Wrote(c) /\ call[c].method \in Requests)
  <2>1. \E w \in {"writing", "waiting"} : /\ call' = [call EXCEPT ![c].at = w]
                                          /\ w = "waiting" => d.method \in Requests
    BY <1>1, <1>2 DEF Queue, Wrote
  <2>2. PICK w \in {"writing", "waiting"} : /\ call' = [call EXCEPT ![c].at = w]
                                            /\ w = "waiting" => d.method \in Requests
    BY <2>1
  <2> DEFINE r == [d EXCEPT !.at = w]
  <2>3. [call EXCEPT ![c].at = w] = [call EXCEPT ![c] = r]
    BY <1>1 DEF Typed
  <2>4. r \in CallStates /\ r.at = w /\ r.method = d.method /\ r.result = d.result
    BY <1>1 DEF CallStates
  <2>5. call' = [call EXCEPT ![c] = r]
    BY <2>2, <2>3
  <2> HIDE DEF r
  <2>6. /\ r.method = call[c].method /\ r.at \in {"writing", "waiting", "returned"}
        /\ r.at = "waiting" => r.method \in Requests
        /\ r.result = call[c].result
    BY <1>1, <2>2, <2>4
  <2>7. Moves(r)
    BY <2>5, <2>6
  <2> QED
    BY <2>4, <2>7
<1>3. ASSUME NEW result \in {"good", "refused", "failed"}, Ended(c, result),
             \/ result = "failed"
             \/ call[c].method \notin Requests
             \/ call[c].method \in Requests /\ answer[call[c].method] = result
      PROVE  \E r \in CallStates : Moves(r)
  <2> DEFINE r == [d EXCEPT !.at = "returned", !.result = result]
  <2>1. [call EXCEPT ![c].at = "returned", ![c].result = result] = [call EXCEPT ![c] = r]
    BY <1>1 DEF Typed
  <2>2. /\ r \in CallStates /\ r.at = "returned"
        /\ r.method = d.method /\ r.result = result
    BY <1>1 DEF CallStates
  <2>3. call' = [call EXCEPT ![c] = r]
    BY <1>3, <2>1 DEF Ended
  <2> HIDE DEF r
  <2>4. Moves(r)
    BY <1>1, <1>3, <2>2, <2>3
  <2> QED
    BY <2>2, <2>4
<1>4. CASE Refuse(c) \/ NotWritten(c) \/ CancelWrite(c) \/ GiveUp(c)
  BY <1>3, <1>4 DEF Refuse, NotWritten, CancelWrite, GiveUp
<1>5. CASE Wrote(c) /\ call[c].method \notin Requests
  BY <1>3, <1>5 DEF Wrote
<1>6. CASE Await(c)
  <2>1. call[c].method \in Requests
    BY <1>6 DEF Await, Typed
  <2> QED
    BY <1>3, <1>6, <2>1 DEF Await, Typed
<1> QED
  BY <1>2, <1>4, <1>5, <1>6 DEF CallRuns, Calls

(* A call that begins is queueing, or returned with a failure.              *)
LEMMA BeginMoves ==
  ASSUME NEW c \in Callers, NEW m \in Methods, Begin(c, m), Typed
  PROVE  \E r \in CallStates :
           /\ call' = [call EXCEPT ![c] = r]
           /\ r.method = m /\ r.at \in {"queueing", "returned"}
           /\ r.result \in {"none", "failed"}
<1> DEFINE r == [at |-> IF running THEN "queueing" ELSE "returned", method |-> m,
                 result |-> IF running THEN "none" ELSE "failed"]
<1>1. /\ r \in CallStates /\ r.method = m /\ r.at \in {"queueing", "returned"}
      /\ r.result \in {"none", "failed"}
  BY DEF CallStates
<1>2. call' = [call EXCEPT ![c] = r]
  BY DEF Begin
<1> HIDE DEF r
<1> QED
  BY <1>1, <1>2

(* A call that is replaced by one of a call's shapes.                       *)
LEMMA CallsTyped ==
  ASSUME Typed, NEW c \in Callers, NEW r \in CallStates, call' = [call EXCEPT ![c] = r],
         r.at = "waiting" => r.method \in Requests
  PROVE  /\ call' \in [Callers -> CallStates]
         /\ \A d \in Callers : call'[d].at = "waiting" => call'[d].method \in Requests
         /\ call'[c] = r /\ \A d \in Callers \ {c} : call'[d] = call[d]
  BY DEF Typed

(* What the child announces, with what it says of what came before. *)
Announces(k, e) ==
  /\ proc = "up" /\ inbox' = Append(inbox, e) /\ e.kind = k
  /\ UNCHANGED <<call, answer, held, reader, events, text, step, streamer, at, proc, running,
                 dir, outcome, pending>>
  /\ \/ /\ verdict = "none"
        /\ said' = (IF k = "text" THEN said + 1 ELSE said)
        /\ e.piece = (IF k = "text" THEN said + 1 ELSE 0)
        /\ \/ Forbidden(k) /\ verdict' \in {"acted", "asked"}
           \/ k \in Ending /\ verdict' = k
           \/ ~Forbidden(k) /\ k \notin Ending /\ verdict' = verdict
     \/ /\ verdict = "acted" /\ verdict' = verdict
        /\ k = "text" /\ e.piece = 0 /\ said' = said

(* An announcement of the child is one of these.                            *)
LEMMA AnnounceEffect ==
  ASSUME ChildAnnounces, Typed
  PROVE  \E k \in Kinds, e \in Events : Announces(k, e)
<1>1. PICK k \in Kinds :
        LET first == verdict = "none"
        IN /\ verdict = "acted" => k = "text"
           /\ verdict' = CASE first /\ Forbidden(k) -> IF k = "ask" THEN "asked" ELSE "acted"
                            [] first /\ k \in Ending -> k
                            [] OTHER -> verdict
           /\ said' = IF first /\ k = "text" THEN said + 1 ELSE said
           /\ Says([kind |-> k, piece |-> IF first /\ k = "text" THEN said + 1 ELSE 0])
  BY DEF ChildAnnounces
<1> DEFINE e == [kind |-> k, piece |-> IF verdict = "none" /\ k = "text" THEN said + 1 ELSE 0]
<1>2. e \in Events /\ e.kind = k
  BY DEF Events, Typed
<1>3. e.piece = (IF verdict = "none" /\ k = "text" THEN said + 1 ELSE 0)
  OBVIOUS
<1>4. Says(e)
  BY <1>1
<1> HIDE DEF e
<1>5. UNCHANGED <<call, answer, held, reader, events, text, step, streamer, at, proc, running,
                  dir, outcome, pending>>
  BY <1>4 DEF ChildAnnounces, Says, Outside
<1>6. verdict \in {"none", "acted"}
  BY DEF ChildAnnounces, Typed, Ending
<1>7. ~(Forbidden(k) /\ k \in Ending) /\ ~(Forbidden("text")) /\ "text" \notin Ending
  BY DEF Forbidden, Ending, Searching
<1>8. CASE verdict = "none"
  <2>1. said' = (IF k = "text" THEN said + 1 ELSE said)
    BY <1>1, <1>8
  <2>2. \/ Forbidden(k) /\ verdict' \in {"acted", "asked"}
        \/ k \in Ending /\ verdict' = k
        \/ ~Forbidden(k) /\ k \notin Ending /\ verdict' = verdict
    BY <1>1, <1>7, <1>8
  <2> QED
    BY <1>2, <1>3, <1>4, <1>5, <1>8, <2>1, <2>2 DEF Announces, Says
<1>9. CASE verdict = "acted"
  <2>1. k = "text" /\ said' = said /\ verdict' = verdict /\ e.piece = 0
    BY <1>1, <1>3, <1>9
  <2> QED
    BY <1>2, <1>4, <1>5, <1>9, <2>1 DEF Announces, Says
<1> QED
  BY <1>6, <1>8, <1>9

(* Every step keeps the shapes of the calls, the answers and the lines.     *)
LEMMA TypedNext ==
  ASSUME IInv, Next
  PROVE  Typed'

<1>1. CASE Inspect
  BY <1>1, HandshakeSteps DEF IInv, Typed, Inspect, Return, clientVars
<1>2. CASE Prepare
  BY <1>2, HandshakeSteps DEF IInv, Typed, Prepare, Return, clientVars
<1>3. CASE StartRuns
  BY <1>3, HandshakeSteps DEF IInv, Typed, StartRuns, Start, Return, clientVars
<1>4. CASE Asks
  <2>1. PICK m \in Methods : m = Handshake[step]
    BY HandshakeSteps DEF IInv, Typed
  <2>2. Begin(Main, m) /\ UNCHANGED generationVars
    BY <1>4, <2>1 DEF Asks
  <2>3. PICK r \in CallStates : /\ call' = [call EXCEPT ![Main] = r]
                                /\ r.at \in {"queueing", "returned"}
    BY <2>2, BeginMoves, HandshakeSteps DEF IInv
  <2>4. /\ call' \in [Callers -> CallStates]
        /\ \A d \in Callers : call'[d].at = "waiting" => call'[d].method \in Requests
    BY <2>3, CallsTyped, HandshakeSteps DEF IInv
  <2> QED
    BY <2>2, <2>4 DEF IInv, Typed, Begin, generationVars
<1>5. CASE Asked
  <2>1. PICK r \in CallStates : r = NoCall
    BY DEF CallStates, NoCall
  <2>2. call' = call \/ call' = [call EXCEPT ![Main] = r]
    BY <1>5, <2>1 DEF Asked
  <2>3. r.at = "idle"
    BY <2>1 DEF NoCall
  <2>4. /\ call' \in [Callers -> CallStates]
        /\ \A d \in Callers : call'[d].at = "waiting" => call'[d].method \in Requests
    BY <2>2, <2>3, CallsTyped, HandshakeSteps DEF IInv, Typed
  <2>5. /\ step' \in 1..Len(Handshake) /\ streamer' \in {"off", "reading", "good", "failed"}
    BY <1>5, HandshakeSteps DEF Asked, IInv, Typed
  <2>6. UNCHANGED <<answer, inbox, held, reader, events, text, said, verdict>>
    BY <1>5 DEF Asked
  <2> QED
    BY <2>4, <2>5, <2>6 DEF IInv, Typed
<1>6. CASE TurnFailed
  BY <1>6, HandshakeSteps DEF IInv, Typed, TurnFailed, clientVars
<1>7. CASE Drained
  BY <1>7, HandshakeSteps DEF IInv, Typed, Drained, clientVars
<1>8. CASE StreamFailed
  BY <1>8, HandshakeSteps DEF IInv, Typed, StreamFailed, clientVars
<1>9. CASE BothDone
  BY <1>9, HandshakeSteps DEF IInv, Typed, BothDone, clientVars
<1>10. CASE Closes
  BY <1>10, HandshakeSteps DEF IInv, Typed, Closes, Fail
<1>11. CASE Closed
  BY <1>11, HandshakeSteps DEF IInv, Typed, Closed, Return, clientVars
<1>12. CASE CloseTimesOut
  BY <1>12, HandshakeSteps DEF IInv, Typed, CloseTimesOut, Return, clientVars
<1>13. CASE Turns
  <2>1. PICK m \in Methods : m = "turn"
    BY HandshakeSteps
  <2>2. Begin(Turner, m) /\ UNCHANGED generationVars
    BY <1>13, <2>1 DEF Turns
  <2>3. PICK r \in CallStates : /\ call' = [call EXCEPT ![Turner] = r]
                                /\ r.at \in {"queueing", "returned"}
    BY <2>2, BeginMoves, HandshakeSteps DEF IInv
  <2>4. /\ call' \in [Callers -> CallStates]
        /\ \A d \in Callers : call'[d].at = "waiting" => call'[d].method \in Requests
    BY <2>3, CallsTyped, HandshakeSteps DEF IInv
  <2> QED
    BY <2>2, <2>4 DEF IInv, Typed, Begin, generationVars
<1>14. ASSUME NEW c \in Callers, CallRuns(c)
      PROVE  Typed'
  <2>1. PICK r \in CallStates :
          call' = [call EXCEPT ![c] = r] /\ (r.at = "waiting" => r.method \in Requests)
    <3>1. Typed
      BY DEF IInv
    <3> QED
      BY <1>14, <3>1, CallMoves
  <2>2. Typed /\ (r.at = "waiting" => r.method \in Requests)
    BY <2>1 DEF IInv
  <2>3. /\ call' \in [Callers -> CallStates]
        /\ \A d \in Callers : call'[d].at = "waiting" => call'[d].method \in Requests
    BY <2>1, <2>2, CallsTyped
  <2>4. UNCHANGED <<answer, inbox, held, reader, events, text, said, step, streamer, verdict>>
    BY <1>14, CallKeeps
  <2> QED
    BY <2>3, <2>4 DEF IInv, Typed
<1>15. CASE StreamStops
  BY <1>15, HandshakeSteps DEF IInv, Typed, StreamStops, clientVars
<1>16. CASE StreamForbidden
  BY <1>16, HandshakeSteps DEF IInv, Typed, StreamForbidden, Reads
<1>17. CASE StreamText
  <2>1. /\ Head(events) \in Events /\ events' \in Seq(Events)
    BY <1>17, HeadAndTail DEF StreamText, Reads, IInv, Typed
  <2>2. PICK h \in Events : h = Head(events)
    BY <2>1
  <2>3. PICK n \in Nat : n = h.piece
    BY DEF Events
  <2>4. text' = text \/ text' = Append(text, n)
    BY <1>17, <2>2, <2>3 DEF StreamText
  <2>5. text' \in Seq(Nat)
    <3>1. text \in Seq(Nat)
      BY DEF IInv, Typed
    <3>2. Append(text, n) \in Seq(Nat)
      BY <3>1
    <3> QED
      BY <2>4, <3>1, <3>2
  <2> QED
    BY <1>17, <2>1, <2>5 DEF StreamText, Reads, IInv, Typed
<1>18. CASE StreamSearch
  BY <1>18, HandshakeSteps DEF IInv, Typed, StreamSearch, Reads
<1>19. CASE StreamNote
  BY <1>19, HandshakeSteps DEF IInv, Typed, StreamNote, Reads
<1>20. CASE StreamEnds
  BY <1>20, HandshakeSteps DEF IInv, Typed, StreamEnds, Reads
<1>21. CASE Take /\ UNCHANGED generationVars
  BY <1>21, HandshakeSteps DEF IInv, Typed, Take, generationVars
<1>22. CASE WriteFails /\ UNCHANGED generationVars
  BY <1>22, HandshakeSteps DEF IInv, Typed, WriteFails, Fail, generationVars
<1>23. CASE StopWriter /\ UNCHANGED generationVars
  BY <1>23, HandshakeSteps DEF IInv, Typed, StopWriter, generationVars
<1>24. CASE ScanAnswer /\ UNCHANGED generationVars
  <2>1. /\ Head(inbox) \in AnswerLines /\ inbox' \in Seq(Events \cup AnswerLines)
    <3>1. Head(inbox) \in Events \cup AnswerLines /\ Tail(inbox) \in Seq(Events \cup AnswerLines)
      BY <1>24, HeadAndTail DEF ScanAnswer, IInv, Typed
    <3>2. \A e \in Events : e.kind # "answer"
      BY DEF Events, Kinds, Searching
    <3> QED
      BY <1>24, <3>1, <3>2 DEF ScanAnswer
  <2>2. PICK h \in AnswerLines : h = Head(inbox)
    BY <2>1
  <2>3. answer' = answer \/ answer' = [answer EXCEPT ![h.method] = h.value]
    BY <1>24, <2>2 DEF ScanAnswer
  <2>4. answer' \in [Requests -> {"none", "good", "refused", "closed"}]
    BY <2>3 DEF AnswerLines, IInv, Typed
  <2> QED
    BY <1>24, <2>1, <2>4 DEF ScanAnswer, generationVars, IInv, Typed
<1>25. CASE ScanEvent /\ UNCHANGED generationVars
  <2>1. /\ Head(inbox) \in Events /\ inbox' \in Seq(Events \cup AnswerLines)
    <3>1. Head(inbox) \in Events \cup AnswerLines /\ Tail(inbox) \in Seq(Events \cup AnswerLines)
      BY <1>25, HeadAndTail DEF ScanEvent, IInv, Typed
    <3>2. \A e \in AnswerLines : e.kind = "answer"
      BY DEF AnswerLines
    <3> QED
      BY <1>25, <3>1, <3>2 DEF ScanEvent
  <2> QED
    BY <1>25, <2>1 DEF ScanEvent, generationVars, IInv, Typed
<1>26. CASE Deny /\ UNCHANGED generationVars
  BY <1>26, HandshakeSteps DEF IInv, Typed, Deny, generationVars
<1>27. CASE Emit /\ UNCHANGED generationVars
  BY <1>27, HandshakeSteps DEF IInv, Typed, Emit, generationVars
<1>28. CASE Terminate /\ UNCHANGED generationVars
  BY <1>28, HandshakeSteps DEF IInv, Typed, Terminate, Terminates, Fail,
     generationVars
<1>29. CASE Release /\ UNCHANGED generationVars
  BY <1>29, HandshakeSteps DEF IInv, Typed, Release, generationVars
<1>30. CASE Finish /\ UNCHANGED generationVars
  BY <1>30, HandshakeSteps DEF IInv, Typed, Finish, generationVars
<1>31. CASE ChildWrites
  BY <1>31, HandshakeSteps DEF IInv, Typed, ChildWrites, WriteEnds, generationVars
<1>32. CASE ChildAnswers
  <2>1. PICK m \in Requests, value \in {"good", "refused"} : Respond(m, value)
    BY <1>32 DEF ChildAnswers, Respond
  <2>2. [kind |-> "answer", method |-> m, value |-> value] \in AnswerLines
    BY DEF AnswerLines
  <2>3. inbox' \in Seq(Events \cup AnswerLines)
    BY <2>1, <2>2, Appended DEF Respond, Says, IInv, Typed
  <2>4. UNCHANGED <<answer, call, held, reader, events, text, said, step, streamer, verdict>>
    BY <1>32, <2>1 DEF ChildAnswers, Respond, Says, Outside
  <2> QED
    BY <2>3, <2>4 DEF IInv, Typed
<1>33. CASE ChildAnnounces
  <2>1. PICK k \in Kinds, e \in Events : Announces(k, e)
    BY <1>33, AnnounceEffect DEF IInv
  <2>2. inbox' \in Seq(Events \cup AnswerLines)
    BY <2>1, Appended DEF Announces, IInv, Typed
  <2>3. said' \in Nat /\ verdict' \in {"none", "asked", "acted", "completed", "aborted"}
    BY <2>1 DEF Announces, Ending, IInv, Typed
  <2>4. UNCHANGED <<answer, call, held, reader, events, text, step, streamer>>
    BY <2>1 DEF Announces
  <2> QED
    BY <2>2, <2>3, <2>4 DEF IInv, Typed
<1>34. CASE ChildDies
  BY <1>34, HandshakeSteps DEF IInv, Typed, ChildDies, Dies, generationVars
<1>35. CASE Signal
  BY <1>35, HandshakeSteps DEF IInv, Typed, Signal, Expire
<1>36. CASE HandshakeExpires
  BY <1>36, HandshakeSteps DEF IInv, Typed, HandshakeExpires, Expire,
     generationVars
<1> QED
  BY <1>1, <1>2, <1>3, <1>4, <1>5, <1>6, <1>7, <1>8, <1>9, <1>10, <1>11, <1>12,
     <1>13, <1>14, <1>15, <1>16, <1>17, <1>18, <1>19, <1>20, <1>21, <1>22, <1>23,
     <1>24, <1>25, <1>26, <1>27, <1>28, <1>29, <1>30, <1>31, <1>32, <1>33, <1>34,
     <1>35, <1>36 DEF Next, MainRuns, streamGeneration, ConnectionRuns, WriteLoop,
     ReadLoop

(* Every step keeps the child between the start of the connection and its   *)
(* end: only Start makes it run, fail ends it while the connection runs,    *)
(* and Close is the one way on to the return.                               *)
LEMMA ChildNext ==
  ASSUME IInv, Next
  PROVE  ChildOK'

<1>1. CASE Inspect
  BY <1>1, HandshakeSteps DEF IInv, ChildOK, Early, NothingLeftBehind, Inspect,
     Return, clientVars
<1>2. CASE Prepare
  BY <1>2, HandshakeSteps DEF IInv, ChildOK, Early, NothingLeftBehind, Prepare,
     Return, clientVars
<1>3. CASE StartRuns
  BY <1>3, HandshakeSteps DEF IInv, ChildOK, Early, NothingLeftBehind, StartRuns,
     Start, Return, clientVars
<1>4. CASE Asks
  BY <1>4, HandshakeSteps DEF IInv, ChildOK, Early, NothingLeftBehind, Asks,
     Begin, generationVars
<1>5. CASE Asked
  BY <1>5, HandshakeSteps DEF IInv, ChildOK, Early, NothingLeftBehind, Asked
<1>6. CASE TurnFailed
  BY <1>6, HandshakeSteps DEF IInv, ChildOK, Early, NothingLeftBehind, TurnFailed,
     clientVars
<1>7. CASE Drained
  BY <1>7, HandshakeSteps DEF IInv, ChildOK, Early, NothingLeftBehind, Drained,
     clientVars
<1>8. CASE StreamFailed
  BY <1>8, HandshakeSteps DEF IInv, ChildOK, Early, NothingLeftBehind,
     StreamFailed, clientVars
<1>9. CASE BothDone
  BY <1>9, HandshakeSteps DEF IInv, ChildOK, Early, NothingLeftBehind, BothDone,
     clientVars
<1>10. CASE Closes
  BY <1>10, HandshakeSteps DEF IInv, ChildOK, Early, NothingLeftBehind, Closes,
     Fail
<1>11. CASE Closed
  BY <1>11, HandshakeSteps DEF IInv, ChildOK, Early, NothingLeftBehind, Closed,
     Return, clientVars
<1>12. CASE CloseTimesOut
  BY <1>12, HandshakeSteps DEF IInv, ChildOK, Early, NothingLeftBehind,
     CloseTimesOut, Return, clientVars
<1>13. CASE Turns
  BY <1>13, HandshakeSteps DEF IInv, ChildOK, Early, NothingLeftBehind, Turns,
     Begin, generationVars
<1>14. ASSUME NEW c \in Callers, CallRuns(c)
      PROVE  ChildOK'
  BY <1>14, CallKeeps DEF IInv, ChildOK, Early, NothingLeftBehind
<1>15. CASE StreamStops
  BY <1>15, HandshakeSteps DEF IInv, ChildOK, Early, NothingLeftBehind,
     StreamStops, clientVars
<1>16. CASE StreamForbidden
  BY <1>16, HandshakeSteps DEF IInv, ChildOK, Early, NothingLeftBehind,
     StreamForbidden, Reads
<1>17. CASE StreamText
  BY <1>17, HandshakeSteps DEF IInv, ChildOK, Early, NothingLeftBehind,
     StreamText, Reads
<1>18. CASE StreamSearch
  BY <1>18, HandshakeSteps DEF IInv, ChildOK, Early, NothingLeftBehind,
     StreamSearch, Reads
<1>19. CASE StreamNote
  BY <1>19, HandshakeSteps DEF IInv, ChildOK, Early, NothingLeftBehind,
     StreamNote, Reads
<1>20. CASE StreamEnds
  BY <1>20, HandshakeSteps DEF IInv, ChildOK, Early, NothingLeftBehind,
     StreamEnds, Reads
<1>21. CASE Take /\ UNCHANGED generationVars
  BY <1>21, HandshakeSteps DEF IInv, ChildOK, Early, NothingLeftBehind, Take,
     generationVars
<1>22. CASE WriteFails /\ UNCHANGED generationVars
  BY <1>22, HandshakeSteps DEF IInv, ChildOK, Early, NothingLeftBehind,
     WriteFails, Fail, generationVars
<1>23. CASE StopWriter /\ UNCHANGED generationVars
  BY <1>23, HandshakeSteps DEF IInv, ChildOK, Early, NothingLeftBehind,
     StopWriter, generationVars
<1>24. CASE ScanAnswer /\ UNCHANGED generationVars
  BY <1>24, HandshakeSteps DEF IInv, ChildOK, Early, NothingLeftBehind,
     ScanAnswer, generationVars
<1>25. CASE ScanEvent /\ UNCHANGED generationVars
  BY <1>25, HandshakeSteps DEF IInv, ChildOK, Early, NothingLeftBehind, ScanEvent,
     generationVars
<1>26. CASE Deny /\ UNCHANGED generationVars
  BY <1>26, HandshakeSteps DEF IInv, ChildOK, Early, NothingLeftBehind, Deny,
     generationVars
<1>27. CASE Emit /\ UNCHANGED generationVars
  BY <1>27, HandshakeSteps DEF IInv, ChildOK, Early, NothingLeftBehind, Emit,
     generationVars
<1>28. CASE Terminate /\ UNCHANGED generationVars
  BY <1>28, HandshakeSteps DEF IInv, ChildOK, Early, NothingLeftBehind, Terminate,
     Terminates, Fail, generationVars
<1>29. CASE Release /\ UNCHANGED generationVars
  BY <1>29, HandshakeSteps DEF IInv, ChildOK, Early, NothingLeftBehind, Release,
     generationVars
<1>30. CASE Finish /\ UNCHANGED generationVars
  BY <1>30, HandshakeSteps DEF IInv, ChildOK, Early, NothingLeftBehind, Finish,
     generationVars
<1>31. CASE ChildWrites
  BY <1>31, HandshakeSteps DEF IInv, ChildOK, Early, NothingLeftBehind,
     ChildWrites, WriteEnds, generationVars
<1>32. CASE ChildAnswers
  BY <1>32, HandshakeSteps DEF IInv, ChildOK, Early, NothingLeftBehind,
     ChildAnswers, Respond, Says, Outside
<1>33. CASE ChildAnnounces
  BY <1>33, HandshakeSteps DEF IInv, ChildOK, Early, NothingLeftBehind,
     ChildAnnounces, Says, Outside
<1>34. CASE ChildDies
  BY <1>34, HandshakeSteps DEF IInv, ChildOK, Early, NothingLeftBehind, ChildDies,
     Dies, generationVars
<1>35. CASE Signal
  BY <1>35, HandshakeSteps DEF IInv, ChildOK, Early, NothingLeftBehind, Signal,
     Expire
<1>36. CASE HandshakeExpires
  BY <1>36, HandshakeSteps DEF IInv, ChildOK, Early, NothingLeftBehind,
     HandshakeExpires, Expire, generationVars
<1> QED
  BY <1>1, <1>2, <1>3, <1>4, <1>5, <1>6, <1>7, <1>8, <1>9, <1>10, <1>11, <1>12,
     <1>13, <1>14, <1>15, <1>16, <1>17, <1>18, <1>19, <1>20, <1>21, <1>22, <1>23,
     <1>24, <1>25, <1>26, <1>27, <1>28, <1>29, <1>30, <1>31, <1>32, <1>33, <1>34,
     <1>35, <1>36 DEF Next, MainRuns, streamGeneration, ConnectionRuns, WriteLoop,
     ReadLoop

(* Every step keeps the turn asked for once and its answer handed out once: *)
(* an answer leaves the pending ones, and its caller is past asking again.  *)
LEMMA TurnNext ==
  ASSUME IInv, Next
  PROVE  TurnOK'

<1>1. CASE Inspect
  BY <1>1 DEF IInv, TurnOK, Inspect, Return, clientVars
<1>2. CASE Prepare
  BY <1>2 DEF IInv, TurnOK, Prepare, Return, clientVars
<1>3. CASE StartRuns
  BY <1>3 DEF IInv, TurnOK, StartRuns, Start, Return, clientVars
<1>4. CASE Asks
  <2>1. PICK m \in Methods : m = Handshake[step] /\ m # "turn"
    BY HandshakeSteps DEF IInv, Typed
  <2>2. Begin(Main, m) /\ UNCHANGED generationVars
    BY <1>4, <2>1 DEF Asks
  <2>3. PICK r \in CallStates : call' = [call EXCEPT ![Main] = r] /\ r.method = m
    BY <2>2, BeginMoves, HandshakeSteps DEF IInv
  <2>4. call'[Main] = r /\ call'[Turner] = call[Turner]
    BY <2>3, HandshakeSteps DEF IInv, Typed
  <2>5. answer' = answer /\ ("turn" \in pending' => "turn" \in pending)
    BY <2>1, <2>2 DEF Begin
  <2> QED
    BY <2>1, <2>3, <2>4, <2>5 DEF IInv, TurnOK
<1>5. CASE Asked
  <2>1. call' = call \/ call' = [call EXCEPT ![Main] = NoCall]
    BY <1>5 DEF Asked
  <2>2. call'[Turner] = call[Turner] /\ (call'[Main] = call[Main] \/ call'[Main].at = "idle")
    BY <2>1, HandshakeSteps DEF IInv, Typed, NoCall
  <2>3. UNCHANGED <<answer, pending>>
    BY <1>5 DEF Asked
  <2> QED
    BY <2>2, <2>3 DEF IInv, TurnOK
<1>6. CASE TurnFailed
  BY <1>6 DEF IInv, TurnOK, TurnFailed, clientVars
<1>7. CASE Drained
  BY <1>7 DEF IInv, TurnOK, Drained, clientVars
<1>8. CASE StreamFailed
  BY <1>8 DEF IInv, TurnOK, StreamFailed, clientVars
<1>9. CASE BothDone
  BY <1>9 DEF IInv, TurnOK, BothDone, clientVars
<1>10. CASE Closes
  BY <1>10 DEF IInv, TurnOK, Closes, Fail
<1>11. CASE Closed
  BY <1>11 DEF IInv, TurnOK, Closed, Return, clientVars
<1>12. CASE CloseTimesOut
  BY <1>12 DEF IInv, TurnOK, CloseTimesOut, Return, clientVars
<1>13. CASE Turns
  <2>1. PICK m \in Methods : m = "turn"
    BY HandshakeSteps
  <2>2. Begin(Turner, m) /\ UNCHANGED generationVars /\ call[Turner].at = "idle"
    BY <1>13, <2>1 DEF Turns
  <2>3. PICK r \in CallStates : /\ call' = [call EXCEPT ![Turner] = r]
                                /\ r.method = m /\ r.at \in {"queueing", "returned"}
                                /\ r.result \in {"none", "failed"}
    BY <2>2, BeginMoves, HandshakeSteps DEF IInv
  <2>4. call'[Turner] = r /\ call'[Main] = call[Main]
    BY <2>3, HandshakeSteps DEF IInv, Typed
  <2>5. answer' = answer
    BY <2>2 DEF Begin
  <2> QED
    BY <2>1, <2>2, <2>3, <2>4, <2>5 DEF IInv, TurnOK
<1>14. ASSUME NEW c \in Callers, CallRuns(c)
      PROVE  TurnOK'
  <2>1. Typed /\ TurnOK
    BY DEF IInv
  <2>2. PICK r \in CallStates :
          /\ call' = [call EXCEPT ![c] = r]
          /\ r.method = call[c].method /\ r.at \in {"writing", "waiting", "returned"}
          /\ \/ r.result = call[c].result
             \/ r.result = "failed"
             \/ r.at = "returned" /\ r.method \notin Requests
             \/ /\ r.at = "returned" /\ r.result \in {"good", "refused"}
                /\ r.method \in Requests /\ answer[r.method] = r.result
    BY <1>14, <2>1, CallMoves
  <2>3. /\ answer' = answer /\ pending' \subseteq pending
        /\ call[c].at \in {"queueing", "writing", "waiting"}
    BY <1>14, CallKeeps
  <2>4. CASE c = Main
    <3>1. call'[Main] = r /\ call'[Turner] = call[Turner]
      BY <2>2, <2>4, HandshakeSteps DEF IInv, Typed
    <3> QED
      BY <2>2, <2>3, <2>4, <3>1 DEF IInv, TurnOK
  <2>5. CASE c = Turner
    <3>1. call'[Turner] = r /\ call'[Main] = call[Main]
      BY <2>2, <2>5, HandshakeSteps DEF IInv, Typed
    <3>2. r.method = "turn"
      BY <2>2, <2>3, <2>5 DEF IInv, TurnOK
    <3> QED
      BY <2>2, <2>3, <2>5, <3>1, <3>2, HandshakeSteps DEF IInv, TurnOK
  <2> QED
    BY <2>4, <2>5, HandshakeSteps
<1>15. CASE StreamStops
  BY <1>15 DEF IInv, TurnOK, StreamStops, clientVars
<1>16. CASE StreamForbidden
  BY <1>16 DEF IInv, TurnOK, StreamForbidden, Reads
<1>17. CASE StreamText
  BY <1>17 DEF IInv, TurnOK, StreamText, Reads
<1>18. CASE StreamSearch
  BY <1>18 DEF IInv, TurnOK, StreamSearch, Reads
<1>19. CASE StreamNote
  BY <1>19 DEF IInv, TurnOK, StreamNote, Reads
<1>20. CASE StreamEnds
  BY <1>20 DEF IInv, TurnOK, StreamEnds, Reads
<1>21. CASE Take /\ UNCHANGED generationVars
  BY <1>21 DEF IInv, TurnOK, Take, generationVars
<1>22. CASE WriteFails /\ UNCHANGED generationVars
  BY <1>22 DEF IInv, TurnOK, WriteFails, Fail, generationVars
<1>23. CASE StopWriter /\ UNCHANGED generationVars
  BY <1>23 DEF IInv, TurnOK, StopWriter, generationVars
<1>24. CASE ScanAnswer /\ UNCHANGED generationVars
  <2>1. PICK m : m = Head(inbox).method
    OBVIOUS
  <2>2. CASE m \in pending
    <3>1. /\ pending' = pending \ {m} /\ call' = call
          /\ answer' = [answer EXCEPT ![m] = Head(inbox).value]
      BY <1>24, <2>1, <2>2 DEF ScanAnswer
    <3>2. m = "turn" \/ answer'["turn"] = answer["turn"]
      BY <3>1, HandshakeSteps DEF IInv, Typed
    <3> QED
      BY <2>2, <3>1, <3>2 DEF IInv, TurnOK
  <2>3. CASE m \notin pending
    BY <1>24, <2>1, <2>3 DEF ScanAnswer, IInv, TurnOK
  <2> QED
    BY <2>2, <2>3
<1>25. CASE ScanEvent /\ UNCHANGED generationVars
  BY <1>25 DEF IInv, TurnOK, ScanEvent, generationVars
<1>26. CASE Deny /\ UNCHANGED generationVars
  BY <1>26 DEF IInv, TurnOK, Deny, generationVars
<1>27. CASE Emit /\ UNCHANGED generationVars
  BY <1>27 DEF IInv, TurnOK, Emit, generationVars
<1>28. CASE Terminate /\ UNCHANGED generationVars
  BY <1>28 DEF IInv, TurnOK, Terminate, Terminates, Fail, generationVars
<1>29. CASE Release /\ UNCHANGED generationVars
  <2>1. call' = call /\ pending' = {} /\ ("turn" \notin pending => answer'["turn"] = answer["turn"])
    BY <1>29, HandshakeSteps DEF Release
  <2> QED
    BY <2>1 DEF IInv, TurnOK
<1>30. CASE Finish /\ UNCHANGED generationVars
  BY <1>30 DEF IInv, TurnOK, Finish, generationVars
<1>31. CASE ChildWrites
  BY <1>31 DEF IInv, TurnOK, ChildWrites, WriteEnds, generationVars
<1>32. CASE ChildAnswers
  BY <1>32 DEF IInv, TurnOK, ChildAnswers, Respond, Says, Outside
<1>33. CASE ChildAnnounces
  BY <1>33 DEF IInv, TurnOK, ChildAnnounces, Says
<1>34. CASE ChildDies
  BY <1>34 DEF IInv, TurnOK, ChildDies, Dies, generationVars
<1>35. CASE Signal
  BY <1>35 DEF IInv, TurnOK, Signal, Expire
<1>36. CASE HandshakeExpires
  BY <1>36 DEF IInv, TurnOK, HandshakeExpires, Expire, generationVars
<1> QED
  BY <1>1, <1>2, <1>3, <1>4, <1>5, <1>6, <1>7, <1>8, <1>9, <1>10, <1>11, <1>12,
     <1>13, <1>14, <1>15, <1>16, <1>17, <1>18, <1>19, <1>20, <1>21, <1>22, <1>23,
     <1>24, <1>25, <1>26, <1>27, <1>28, <1>29, <1>30, <1>31, <1>32, <1>33, <1>34,
     <1>35, <1>36 DEF Next, MainRuns, streamGeneration, ConnectionRuns, WriteLoop,
     ReadLoop

-------------------------------------------------------------------------------------
(* The way of an event.                                                             *)

(* Marked are the items on which others rest. *)
Marked(f) == Forbidden(f.kind) \/ f.kind = "text"

(* Which of the kinds of an event exclude each other.                       *)
LEMMA NotKinds ==
  /\ "none" \notin Kinds /\ "answer" \notin Kinds /\ NoEvent.kind = "none"
  /\ \A k : Forbidden(k) => k \in Kinds /\ k # "text" /\ k \notin Ending
  /\ \A k \in Ending : k \in Kinds /\ k # "text" /\ ~Forbidden(k)
  /\ "text" \in Kinds /\ ~Forbidden("text") /\ ~Forbidden("note") /\ "note" \notin Ending
  /\ \A k \in Searching : WebSearch => ~Forbidden(k) /\ k # "text"
  BY DEF Kinds, Ending, Searching, Forbidden, NoEvent

(* What is not an event has no place in the order.                          *)
LEMMA QuietItems ==
  ASSUME NEW e, NEW f
  PROVE  e.kind \notin Kinds => Before(e, f) /\ Before(f, e)
  BY DEF Before

(* What is not an event says nothing. *)
LEMMA QuietIsSound ==
  ASSUME NEW e, e.kind \notin Kinds
  PROVE  Sound(e)'
  BY NotKinds DEF Sound, Cut, Piece

(* What rests on marked items keeps resting on them while none is lost.     *)
LEMMA StillSound ==
  ASSUME UNCHANGED <<text, said, verdict>>,
         \A f \in Line : Marked(f) => f \in Line',
         NEW e, Sound(e)
  PROVE  Sound(e)'
<1>1. \A n : Upcoming(n) => Upcoming(n)'
  BY DEF Upcoming, Marked
<1>2. (\E f \in Line : Forbidden(f.kind)) => \E f \in Line' : Forbidden(f.kind)
  BY DEF Marked
<1> HIDE DEF Upcoming
<1> QED
  BY <1>1, <1>2 DEF Sound

(* Nothing is lost while no marked item is.                                 *)
LEMMA StillKept ==
  ASSUME UNCHANGED <<text, said, verdict>>,
         \A f \in Line : Marked(f) => f \in Line',
         Kept
  PROVE  Kept'
<1>1. \A n : Upcoming(n) => Upcoming(n)'
  BY DEF Upcoming, Marked
<1>2. (\E f \in Line : Forbidden(f.kind)) => \E f \in Line' : Forbidden(f.kind)
  BY DEF Marked
<1> QED
  BY <1>1, <1>2 DEF Kept

(* A step that moves items along, and loses at most unmarked ones.          *)
LEMMA StillOK ==
  ASSUME UNCHANGED <<text, said, verdict>>, LineOK,
         proc' = "up" => proc = "up",
         \A f \in Line : Marked(f) => f \in Line',
         \A e \in Line' : e \in Line \/ e.kind \notin Kinds,
         Ordered'
  PROVE  LineOK'
<1>1. \A e \in Line' : Sound(e)'
  <2> TAKE e \in Line'
  <2>1. CASE e \in Line
    BY <2>1, StillSound DEF LineOK
  <2>2. CASE e.kind \notin Kinds
    BY <2>2, QuietIsSound
  <2> QED
    BY <2>1, <2>2
<1>2. (proc = "up" => Kept) => (proc' = "up" => Kept')
  BY StillKept
<1> QED
  BY <1>1, <1>2 DEF LineOK

(* A step that leaves the way alone.                                        *)
LEMMA FrameOK ==
  ASSUME UNCHANGED <<events, held, inbox, text, said, verdict>>, LineOK,
         proc' = "up" => proc = "up"
  PROVE  LineOK'
<1>1. Line' = Line
  BY DEF Line
<1>2. Ordered'
  BY DEF LineOK, Ordered
<1> QED
  BY <1>1, <1>2, StillOK

(* The reader takes an answer off the child's lines.                        *)
LEMMA ScanAnswerLine ==
  ASSUME Typed, LineOK, ScanAnswer, UNCHANGED generationVars
  PROVE  LineOK'
<1>1. /\ inbox # <<>> /\ inbox' = Tail(inbox) /\ Head(inbox).kind = "answer"
      /\ UNCHANGED <<events, held, text, said, verdict, proc>>
  BY DEF ScanAnswer, generationVars
<1>2. /\ Len(inbox) \in Nat \ {0} /\ Len(inbox') = Len(inbox) - 1 /\ Head(inbox) = inbox[1]
      /\ \A i \in 1..Len(inbox') : inbox'[i] = inbox[i + 1]
  BY <1>1, HeadAndTail DEF Typed
<1>3. Ordered'
  BY <1>1, <1>2 DEF LineOK, Ordered
<1>4. \A e \in Line' : e \in Line
  BY <1>1, <1>2 DEF Line
<1>5. ASSUME NEW f \in Line, Marked(f)
      PROVE  f \in Line'
  <2>1. ASSUME NEW j \in 1..Len(inbox), f = inbox[j]
        PROVE  f \in Line'
    <3>1. j # 1
      BY <1>1, <1>2, <1>5, <2>1, NotKinds DEF Marked
    <3>2. j - 1 \in 1..Len(inbox') /\ f = inbox'[j - 1]
      BY <1>2, <2>1, <3>1
    <3> QED
      BY <3>2 DEF Line
  <2> QED
    BY <1>1, <2>1 DEF Line
<1> QED
  BY <1>1, <1>3, <1>4, <1>5, StillOK

(* The reader takes an event in hand.                                       *)
LEMMA ScanEventLine ==
  ASSUME Typed, LineOK, ScanEvent, UNCHANGED generationVars, held = NoEvent
  PROVE  LineOK'
<1>1. /\ inbox # <<>> /\ inbox' = Tail(inbox) /\ held' = Head(inbox)
      /\ UNCHANGED <<events, text, said, verdict, proc>>
  BY DEF ScanEvent, generationVars
<1>2. /\ Len(inbox) \in Nat \ {0} /\ Len(inbox') = Len(inbox) - 1 /\ Head(inbox) = inbox[1]
      /\ \A i \in 1..Len(inbox') : inbox'[i] = inbox[i + 1]
  BY <1>1, HeadAndTail DEF Typed
<1>3. Ordered'
  BY <1>1, <1>2 DEF LineOK, Ordered
<1>4. \A e \in Line' : e \in Line
  BY <1>1, <1>2 DEF Line
<1>5. ASSUME NEW f \in Line, Marked(f)
      PROVE  f \in Line'
  <2>1. ASSUME NEW j \in 1..Len(inbox), f = inbox[j]
        PROVE  f \in Line'
    <3>1. CASE j # 1
      <4>1. j - 1 \in 1..Len(inbox') /\ f = inbox'[j - 1]
        BY <1>2, <2>1, <3>1
      <4> QED
        BY <4>1 DEF Line
    <3> QED
      BY <1>1, <1>2, <2>1, <3>1 DEF Line
  <2>2. f # held
    BY <1>5, NotKinds DEF Marked
  <2> QED
    BY <1>1, <2>1, <2>2 DEF Line
<1> QED
  BY <1>1, <1>3, <1>4, <1>5, StillOK

(* The reader puts the event in hand into the channel.                      *)
LEMMA EmitLine ==
  ASSUME Typed, LineOK, Emit, UNCHANGED generationVars
  PROVE  LineOK'
<1>1. /\ events' = Append(events, held) /\ held' = NoEvent /\ held \in Events
      /\ UNCHANGED <<inbox, text, said, verdict, proc>>
  BY DEF Emit, generationVars, Typed
<1>2. /\ Len(events) \in Nat /\ Len(events') = Len(events) + 1
      /\ events'[Len(events) + 1] = held
      /\ \A i \in 1..Len(events) : events'[i] = events[i]
  BY <1>1, Appended DEF Typed
<1>3. \A e : Before(e, NoEvent) /\ Before(NoEvent, e)
  BY NotKinds DEF Before
<1>4. Ordered'
  <2>1. \A i, j \in 1..Len(events') : i < j => Before(events'[i], events'[j])
    <3> SUFFICES ASSUME NEW i \in 1..Len(events'), NEW j \in 1..Len(events'), i < j
                 PROVE  Before(events'[i], events'[j])
      OBVIOUS
    <3>1. i \in 1..Len(events) /\ (j \in 1..Len(events) \/ j = Len(events) + 1)
      BY <1>2
    <3> QED
      BY <1>2, <3>1 DEF LineOK, Ordered
  <2>2. \A i \in 1..Len(events'), j \in 1..Len(inbox') : Before(events'[i], inbox'[j])
    <3> SUFFICES ASSUME NEW i \in 1..Len(events'), NEW j \in 1..Len(inbox)
                 PROVE  Before(events'[i], inbox[j])
      BY <1>1
    <3>1. i \in 1..Len(events) \/ i = Len(events) + 1
      BY <1>2
    <3> QED
      BY <1>2, <3>1 DEF LineOK, Ordered
  <2> QED
    BY <1>1, <1>3, <2>1, <2>2 DEF LineOK, Ordered
<1>5. \A e \in Line' : e \in Line \/ e.kind \notin Kinds
  <2> SUFFICES ASSUME NEW e \in Line' PROVE e \in Line \/ e.kind \notin Kinds
    OBVIOUS
  <2>1. ASSUME NEW i \in 1..Len(events'), e = events'[i]
        PROVE  e \in Line
    <3>1. i \in 1..Len(events) \/ i = Len(events) + 1
      BY <1>2
    <3> QED
      BY <1>2, <2>1, <3>1 DEF Line
  <2> QED
    BY <1>1, <2>1, NotKinds DEF Line
<1>6. ASSUME NEW f \in Line, Marked(f)
      PROVE  f \in Line'
  <2>1. ASSUME NEW i \in 1..Len(events), f = events[i]
        PROVE  f \in Line'
    <3>1. i \in 1..Len(events') /\ f = events'[i]
      BY <1>2, <2>1
    <3> QED
      BY <3>1 DEF Line
  <2>2. CASE f = held
    <3>1. Len(events) + 1 \in 1..Len(events') /\ f = events'[Len(events) + 1]
      BY <1>2, <2>2
    <3> QED
      BY <3>1 DEF Line
  <2> QED
    BY <1>1, <2>1, <2>2 DEF Line
<1> QED
  BY <1>1, <1>4, <1>5, <1>6, StillOK

(* The teardown drops the end of the way, on which nothing before it rests. *)
LEMMA TerminateLine ==
  ASSUME Typed, ChildOK, LineOK, Terminate, UNCHANGED generationVars
  PROVE  LineOK'
<1>1. /\ held' = NoEvent /\ inbox' = <<>> /\ proc' # "up"
      /\ UNCHANGED <<events, text, said, verdict>>
  BY DEF Terminate, Terminates, Fail, generationVars, ChildOK
<1>2. Len(inbox') = 0
  BY <1>1
<1>3. Ordered'
  BY <1>1, <1>2, QuietItems, NotKinds DEF LineOK, Ordered
<1>4. \A e \in Line' : e = NoEvent \/ \E i \in 1..Len(events) : e = events[i]
  BY <1>1, <1>2 DEF Line
<1>5. ASSUME NEW i \in 1..Len(events), NEW e, e = events[i]
      PROVE  Sound(e)'
  <2>1. e \in Events /\ Sound(e)
    BY <1>5 DEF Typed, LineOK, Line
  <2>2. \A f \in Line : f \in Line' \/ Before(e, f)
    BY <1>1, <1>5 DEF LineOK, Ordered, Line
  <2>3. e.kind \in Kinds /\ e.piece \in Nat
    BY <2>1 DEF Events
  <2>4. Len(text) \in Nat /\ said \in Nat
    BY DEF Typed
  <2>5. e.kind \in Ending => \A f \in Line : Marked(f) => f \in Line'
    BY <2>2, <2>3, NotKinds DEF Before, Marked
  <2>6. CASE e.kind \in Ending
    BY <1>1, <2>1, <2>5, <2>6, StillSound
  <2>7. CASE e.kind \notin Ending
    <3>1. Cut(e) => \E f \in Line' : Forbidden(f.kind)
      BY <2>1, <2>2, <2>3, NotKinds DEF Sound, Before, Cut
    <3>2. ASSUME Piece(e), NEW n \in Len(text) + 1 .. e.piece
          PROVE  Upcoming(n)'
      <4>1. PICK f \in Line : f.kind = "text" /\ f.piece = n
        BY <2>1, <3>2 DEF Sound, Upcoming
      <4>2. n > 0 /\ ~(e.piece < n)
        BY <2>3, <2>4, <3>2
      <4>3. ~Before(e, f)
        BY <2>3, <3>2, <4>1, <4>2, NotKinds DEF Before, Piece
      <4> QED
        BY <2>2, <4>1, <4>3 DEF Upcoming
    <3>3. Sound(e)'
      BY <1>1, <2>1, <2>7, <3>1, <3>2 DEF Sound
    <3> QED
      BY <3>3
  <2> QED
    BY <2>6, <2>7
<1>6. Sound(NoEvent)'
  BY QuietIsSound, NotKinds
<1>7. \A e \in Line' : Sound(e)'
  <2> TAKE e \in Line'
  <2>1. CASE e = NoEvent
    BY <1>6, <2>1
  <2>2. ASSUME NEW i \in 1..Len(events), e = events[i]
        PROVE  Sound(e)'
    BY <1>5, <2>2
  <2> QED
    BY <1>4, <2>1, <2>2
<1> QED
  BY <1>1, <1>3, <1>7 DEF LineOK

(* What the stream takes is what everything else comes after. *)
LEMMA First ==
  ASSUME Typed, Ordered, events # <<>>
  PROVE  /\ Head(events) \in Events /\ Head(events) \in Line
         /\ \A f \in Line : f = Head(events) \/ Before(Head(events), f)
<1>1. /\ Head(events) \in Events /\ Head(events) = events[1] /\ Len(events) \in Nat \ {0}
  BY HeadAndTail DEF Typed
<1>2. 1 \in 1..Len(events)
  BY <1>1
<1>3. ASSUME NEW i \in 1..Len(events)
      PROVE  events[i] = events[1] \/ Before(events[1], events[i])
  <2>1. CASE i = 1
    BY <2>1
  <2>2. CASE 1 < i
    BY <1>2, <2>2 DEF Ordered
  <2> QED
    BY <2>1, <2>2
<1> QED
  BY <1>1, <1>2, <1>3 DEF Ordered, Line

(* The text the stream takes is the next piece. *)
LEMMA NextPiece ==
  ASSUME Typed, LineOK, events # <<>>, Head(events).kind = "text"
  PROVE  /\ Head(events).piece = Len(text) + 1
         /\ Len(text) + 1 =< said
<1>1. PICK h \in Events : h = Head(events)
  BY First DEF LineOK
<1>2. /\ Sound(h) /\ h \in Line /\ h.kind = "text" /\ h.piece \in Nat
      /\ \A f \in Line : f = h \/ Before(h, f)
  BY <1>1, First DEF LineOK, Events
<1>3. Len(text) \in Nat /\ said \in Nat
  BY DEF Typed
<1>4. ~Cut(h)
  <2>1. SUFFICES ASSUME Cut(h) PROVE FALSE
    OBVIOUS
  <2>2. PICK f \in Line : Forbidden(f.kind)
    BY <1>2, <2>1 DEF Sound
  <2>3. f # h /\ ~Cut(f) /\ f.kind \in Kinds
    BY <1>2, <2>2, NotKinds DEF Cut
  <2> QED
    BY <1>2, <2>1, <2>3, NotKinds DEF Before
<1>5. Piece(h) /\ h.piece > Len(text) /\ h.piece =< said
  BY <1>2, <1>4 DEF Sound, Cut, Piece
<1>6. Upcoming(Len(text) + 1)
  BY <1>2, <1>3, <1>5 DEF Sound
<1>7. PICK f \in Line : f.kind = "text" /\ f.piece = Len(text) + 1
  BY <1>6 DEF Upcoming
<1>8. CASE f = h
  BY <1>1, <1>3, <1>5, <1>7, <1>8
<1>9. CASE Before(h, f)
  <2>1. h.piece < f.piece
    BY <1>2, <1>3, <1>5, <1>7, <1>9, NotKinds DEF Before, Piece
  <2> QED
    BY <1>2, <1>3, <1>5, <1>7, <2>1
<1> QED
  BY <1>2, <1>8, <1>9

(* With the end of the turn all of the text is there. *)
LEMMA NothingMissing ==
  ASSUME Typed, LineOK, events # <<>>, Head(events).kind \in Ending, Len(text) =< said
  PROVE  verdict = Head(events).kind /\ Len(text) = said
<1>1. PICK h \in Events : h = Head(events)
  BY First DEF LineOK
<1>2. /\ Sound(h) /\ h \in Line /\ h.kind \in Ending
      /\ \A f \in Line : f = h \/ Before(h, f)
  BY <1>1, First DEF LineOK
<1>3. Len(text) \in Nat /\ said \in Nat
  BY DEF Typed
<1>4. ASSUME Len(text) + 1 =< said
      PROVE  FALSE
  <2>1. Upcoming(Len(text) + 1)
    BY <1>2, <1>3, <1>4 DEF Sound
  <2>2. PICK f \in Line : f.kind = "text"
    BY <2>1 DEF Upcoming
  <2> QED
    BY <1>2, <2>2, NotKinds DEF Before
<1> QED
  BY <1>1, <1>2, <1>3, <1>4 DEF Sound

(* An item with the kind of an event is one.                                *)
LEMMA LineTyped ==
  ASSUME Typed, NEW x \in Line, x.kind \in Kinds
  PROVE  x \in Events /\ x.piece \in Nat
<1>1. x \in Events \/ x \in AnswerLines \/ x = NoEvent
  <2>1. /\ \A i \in 1..Len(events) : events[i] \in Events
        /\ \A j \in 1..Len(inbox) : inbox[j] \in Events \cup AnswerLines
    BY DEF Typed
  <2> QED
    BY <2>1 DEF Line, Typed
<1>2. \A y \in AnswerLines : y.kind = "answer"
  BY DEF AnswerLines
<1>3. x \in Events
  BY <1>1, <1>2, NotKinds
<1> QED
  BY <1>3 DEF Events

(* What is left when the stream has taken the first event. *)
LEMMA Rest ==
  ASSUME Typed, Ordered, Reads
  PROVE  /\ Ordered'
         /\ \A e \in Line' : e \in Line /\ Before(Head(events), e)
         /\ \A f \in Line : f = Head(events) \/ f \in Line'
<1>1. events # <<>> /\ events' = Tail(events) /\ UNCHANGED <<held, inbox>>
  BY DEF Reads
<1>2. /\ Len(events) \in Nat \ {0} /\ Len(events') = Len(events) - 1
      /\ Head(events) = events[1] /\ \A i \in 1..Len(events') : events'[i] = events[i + 1]
  BY <1>1, HeadAndTail DEF Typed
<1>3. Ordered'
  BY <1>1, <1>2 DEF Ordered
<1>4. ASSUME NEW e \in Line'
      PROVE  e \in Line /\ Before(Head(events), e)
  <2>1. ASSUME NEW i \in 1..Len(events'), e = events'[i]
        PROVE  e \in Line /\ Before(events[1], e)
    <3>1. i + 1 \in 1..Len(events) /\ 1 \in 1..Len(events) /\ 1 < i + 1 /\ e = events[i + 1]
      BY <1>2, <2>1
    <3> QED
      BY <3>1 DEF Line, Ordered
  <2>2. 1 \in 1..Len(events)
    BY <1>2
  <2> QED
    BY <1>1, <1>2, <2>1, <2>2 DEF Line, Ordered
<1>5. ASSUME NEW f \in Line
      PROVE  f = Head(events) \/ f \in Line'
  <2>1. ASSUME NEW i \in 1..Len(events), f = events[i], i # 1
        PROVE  f \in Line'
    <3>1. i - 1 \in 1..Len(events') /\ f = events'[i - 1]
      BY <1>2, <2>1
    <3> QED
      BY <3>1 DEF Line
  <2> QED
    BY <1>1, <1>2, <2>1 DEF Line
<1> QED
  BY <1>3, <1>4, <1>5

(* The stream takes an event on which nothing rests.                        *)
LEMMA ReadLine ==
  ASSUME Typed, LineOK, Reads, ~Marked(Head(events)), text' = text
  PROVE  LineOK'
<1>1. /\ Ordered' /\ \A e \in Line' : e \in Line
      /\ \A f \in Line : Marked(f) => f \in Line'
  BY Rest DEF LineOK
<1>2. UNCHANGED <<said, verdict, proc>>
  BY DEF Reads
<1> QED
  BY <1>1, <1>2, StillOK

(* The stream takes the next piece of text.                                 *)
LEMMA TextLine ==
  ASSUME Typed, LineOK, Reads, Head(events).kind = "text",
         text' = Append(text, Head(events).piece)
  PROVE  LineOK'
<1>1. PICK h \in Events : h = Head(events)
  BY First DEF Reads, LineOK
<1>2. /\ h.kind = "text" /\ h.piece = Len(text) + 1
      /\ UNCHANGED <<said, verdict, proc>>
  BY <1>1, NextPiece DEF Reads
<1>3. Len(text) \in Nat /\ said \in Nat /\ Len(text') = Len(text) + 1
  BY <1>1, <1>2 DEF Typed
<1>4. /\ Ordered'
      /\ \A e \in Line' : e \in Line /\ Before(h, e)
      /\ \A f \in Line : f = h \/ f \in Line'
  BY <1>1, Rest DEF LineOK
<1>5. \A n \in Len(text) + 2 .. said : Upcoming(n) => Upcoming(n)'
  BY <1>2, <1>3, <1>4 DEF Upcoming
<1>6. (\E f \in Line : Forbidden(f.kind)) => \E f \in Line' : Forbidden(f.kind)
  BY <1>2, <1>4, NotKinds
<1>7. ASSUME NEW e \in Line'
      PROVE  Sound(e)'
  <2>1. Sound(e) /\ Before(h, e)
    BY <1>4 DEF LineOK
  <2>2. ASSUME Piece(e)
        PROVE  /\ e.piece > Len(text') /\ e.piece =< said
               /\ \A n \in Len(text') + 1 .. e.piece : Upcoming(n)'
    <3>1. e.piece =< said /\ \A n \in Len(text) + 1 .. e.piece : Upcoming(n)
      BY <2>1, <2>2 DEF Sound
    <3>2. h.piece < e.piece
      BY <1>2, <1>3, <2>1, <2>2, NotKinds DEF Before, Piece
    <3>3. PICK p \in Nat : p = e.piece
      BY <1>4, <2>2, LineTyped, NotKinds DEF Piece
    <3>4. p > Len(text') /\ p =< said
      BY <1>2, <1>3, <3>1, <3>2, <3>3
    <3>5. \A n \in Len(text') + 1 .. p : n \in Len(text) + 1 .. p /\ n \in Len(text) + 2 .. said
      BY <1>3, <3>4
    <3> QED
      BY <1>5, <3>1, <3>3, <3>4, <3>5
  <2>3. ASSUME e.kind \in Ending, NEW n \in Len(text') + 1 .. said
        PROVE  Upcoming(n)'
    <3>1. n \in Len(text) + 1 .. said /\ n \in Len(text) + 2 .. said
      BY <1>3, <2>3
    <3> QED
      BY <1>5, <2>1, <2>3, <3>1 DEF Sound
  <2> QED
    BY <1>2, <1>6, <2>1, <2>2, <2>3 DEF Sound
<1>8. (proc = "up" /\ Kept) => Kept'
  <2>1. \A n \in Len(text') + 1 .. said : n \in Len(text) + 1 .. said /\ n \in Len(text) + 2 .. said
    BY <1>3
  <2> QED
    BY <1>2, <1>5, <1>6, <2>1 DEF Kept
<1> QED
  BY <1>2, <1>4, <1>7, <1>8 DEF LineOK

(* An announcement rests on what came before it. *)
LEMMA AnnounceLine ==
  ASSUME Typed, LineOK, Len(text) =< said, NEW k \in Kinds, NEW e \in Events, Announces(k, e)
  PROVE  LineOK'
<1>1. /\ proc = "up" /\ inbox' = Append(inbox, e) /\ e.kind = k /\ e.piece \in Nat
      /\ UNCHANGED <<events, held, text, proc>>
  BY DEF Announces, Events
<1>2. /\ Len(inbox) \in Nat /\ Len(inbox') = Len(inbox) + 1
      /\ inbox'[Len(inbox) + 1] = e
      /\ \A j \in 1..Len(inbox) : inbox'[j] = inbox[j]
  BY <1>1, Appended DEF Typed
<1>3. Len(text) \in Nat /\ said \in Nat /\ said' \in Nat /\ said =< said'
  BY DEF Announces, Typed
<1>4. Kept
  BY <1>1 DEF LineOK
<1>5. ASSUME NEW x \in Line
      PROVE  Before(x, e) /\ (e.kind \in Ending \/ verdict' # verdict =>
                               ~Forbidden(x.kind) /\ ~Cut(x)) /\ x.kind \notin Ending
  <2>1. Sound(x)
    BY DEF LineOK
  <2>2. x.kind \notin Ending
    BY <2>1 DEF Sound, Announces, Ending
  <2>3. CASE verdict = "none"
    <3>1. ~Forbidden(x.kind) /\ ~Cut(x)
      BY <2>1, <2>3 DEF Sound
    <3>2. Piece(x) /\ Piece(e) => x.piece < e.piece
      <4>1. Piece(e) => e.piece = said + 1
        BY <1>1, <2>3 DEF Announces, Piece
      <4>2. Piece(x) => x.piece \in Nat
        BY LineTyped, NotKinds DEF Piece
      <4> QED
        BY <1>3, <2>1, <4>1, <4>2 DEF Sound
    <3> QED
      BY <2>2, <3>1, <3>2 DEF Before
  <2>4. CASE verdict = "acted"
    <3>1. Cut(e) /\ ~Piece(e) /\ verdict' = verdict /\ e.kind \notin Ending
      BY <1>1, <2>4, NotKinds DEF Announces, Cut, Piece
    <3> QED
      BY <2>2, <3>1 DEF Before
  <2> QED
    BY <2>3, <2>4 DEF Announces
<1>6. Ordered'
  <2>1. \A j \in 1..Len(inbox') : j \in 1..Len(inbox) \/ j = Len(inbox) + 1
    BY <1>2
  <2>2. \A j \in 1..Len(inbox') : j \in 1..Len(inbox) => inbox'[j] = inbox[j] /\ inbox[j] \in Line
    BY <1>2 DEF Line
  <2>3. /\ held \in Line /\ \A i \in 1..Len(events) : events[i] \in Line
    BY DEF Line
  <2>4. \A i, j \in 1..Len(inbox') : i < j => Before(inbox'[i], inbox'[j])
    <3> SUFFICES ASSUME NEW i \in 1..Len(inbox'), NEW j \in 1..Len(inbox'), i < j
                 PROVE  Before(inbox'[i], inbox'[j])
      OBVIOUS
    <3>1. i \in 1..Len(inbox)
      BY <1>2
    <3>2. CASE j \in 1..Len(inbox)
      BY <1>2, <3>1, <3>2 DEF LineOK, Ordered
    <3>3. CASE j = Len(inbox) + 1
      BY <1>2, <1>5, <2>2, <3>1, <3>3
    <3> QED
      BY <2>1, <3>2, <3>3
  <2>5. \A i \in 1..Len(events), j \in 1..Len(inbox') : Before(events[i], inbox'[j])
    BY <1>2, <1>5, <2>1, <2>3 DEF LineOK, Ordered
  <2>6. \A j \in 1..Len(inbox') : Before(held, inbox'[j])
    BY <1>2, <1>5, <2>1, <2>3 DEF LineOK, Ordered
  <2> QED
    BY <1>1, <2>4, <2>5, <2>6 DEF LineOK, Ordered
<1>7. e \in Line' /\ \A x \in Line : x \in Line'
  <2>1. /\ Len(inbox) + 1 \in 1..Len(inbox')
        /\ \A j \in 1..Len(inbox) : j \in 1..Len(inbox')
    BY <1>2
  <2> QED
    BY <1>1, <1>2, <2>1 DEF Line
<1>8. \A x \in Line' : x \in Line \/ x = e
  <2>1. \A j \in 1..Len(inbox') : j \in 1..Len(inbox) \/ j = Len(inbox) + 1
    BY <1>2
  <2> QED
    BY <1>1, <1>2, <2>1 DEF Line
<1>9. /\ \A n : Upcoming(n) => Upcoming(n)'
      /\ (\E f \in Line : Forbidden(f.kind)) => \E f \in Line' : Forbidden(f.kind)
  BY <1>7 DEF Upcoming
<1>10. \A n \in Len(text) + 1 .. said' : Upcoming(n)'
  <2>1. \A n \in Len(text) + 1 .. said : Upcoming(n)'
    BY <1>4, <1>9 DEF Kept
  <2>2. CASE said' = said
    BY <2>1, <2>2
  <2>3. CASE said' = said + 1 /\ e.kind = "text" /\ e.piece = said + 1
    <3>1. ASSUME NEW n, n = said + 1
          PROVE  Upcoming(n)'
      BY <1>7, <2>3, <3>1 DEF Upcoming
    <3>2. \A n \in Len(text) + 1 .. said' : n \in Len(text) + 1 .. said \/ n = said + 1
      BY <1>3, <2>3
    <3> QED
      BY <2>1, <3>1, <3>2
  <2> QED
    BY <1>1, <2>2, <2>3 DEF Announces
<1>11. verdict' = "acted" => \E f \in Line' : Forbidden(f.kind)
  BY <1>1, <1>4, <1>7, <1>9 DEF Announces, Kept, Ending
<1>12. ASSUME NEW x \in Line
       PROVE  Sound(x)'
  <2>1. Sound(x) /\ x.kind \notin Ending
    BY <1>5 DEF LineOK
  <2>2. Forbidden(x.kind) \/ Cut(x) => verdict' = verdict
    BY <1>5
  <2>3. Piece(x) => x.piece =< said'
    <3>1. Piece(x) => x.piece \in Nat
      BY LineTyped, NotKinds DEF Piece
    <3> QED
      BY <1>3, <2>1, <3>1 DEF Sound
  <2> QED
    BY <1>1, <1>9, <2>1, <2>2, <2>3 DEF Sound
<1>13. Sound(e)'
  <2>1. e.kind \in Ending => verdict' = e.kind
    BY <1>1, NotKinds DEF Announces
  <2>2. Forbidden(e.kind) => verdict' \in {"acted", "asked"}
    BY <1>1, NotKinds DEF Announces
  <2>3. Cut(e) => verdict' = "acted"
    BY <1>1, <1>3 DEF Announces, Cut
  <2>4. Piece(e) => e.piece = said + 1 /\ said' = said + 1
    BY <1>1 DEF Announces, Piece
  <2>5. Piece(e) => e.piece > Len(text) /\ e.piece =< said'
    BY <1>3, <2>4
  <2> QED
    BY <1>1, <1>10, <1>11, <2>1, <2>2, <2>3, <2>4, <2>5 DEF Sound
<1> QED
  BY <1>6, <1>8, <1>10, <1>11, <1>12, <1>13, <1>1 DEF LineOK, Kept

(* An answer of the child comes last and disturbs no order.                 *)
LEMMA AnsweredLine ==
  ASSUME Typed, LineOK, NEW e \in AnswerLines, inbox' = Append(inbox, e),
         UNCHANGED <<events, held, text, said, verdict, proc>>
  PROVE  LineOK'
<1>1. /\ Len(inbox) \in Nat /\ Len(inbox') = Len(inbox) + 1
      /\ inbox'[Len(inbox) + 1] = e
      /\ \A j \in 1..Len(inbox) : inbox'[j] = inbox[j]
  BY Appended DEF Typed
<1>2. e.kind \notin Kinds
  BY NotKinds DEF AnswerLines
<1>3. \A x : Before(x, e) /\ Before(e, x)
  BY <1>2, QuietItems
<1>4. \A j \in 1..Len(inbox') : j \in 1..Len(inbox) \/ inbox'[j] = e
  BY <1>1
<1>5. Ordered'
  <2>1. \A i, j \in 1..Len(inbox') : i < j => Before(inbox'[i], inbox'[j])
    BY <1>1, <1>3, <1>4 DEF LineOK, Ordered
  <2> QED
    BY <1>1, <1>3, <1>4, <2>1 DEF LineOK, Ordered
<1>6. \A x \in Line' : x \in Line \/ x.kind \notin Kinds
  BY <1>1, <1>2, <1>4 DEF Line
<1>7. \A x \in Line : x \in Line'
  <2>1. \A j \in 1..Len(inbox) : j \in 1..Len(inbox')
    BY <1>1
  <2> QED
    BY <1>1, <2>1 DEF Line
<1> QED
  BY <1>5, <1>6, <1>7, StillOK

(* The pieces written, with the next one.                                   *)
LEMMA TextGrows ==
  ASSUME NEW s \in Seq(Nat), s = [i \in 1..Len(s) |-> i], NEW n \in Nat, n = Len(s) + 1
  PROVE  Append(s, n) = [i \in 1..Len(Append(s, n)) |-> i] /\ Len(Append(s, n)) = n
<1>1. /\ Len(s) \in Nat /\ Append(s, n) \in Seq(Nat) /\ Len(Append(s, n)) = Len(s) + 1
      /\ Append(s, n)[n] = n /\ \A i \in 1..Len(s) : Append(s, n)[i] = s[i]
  BY Appended
<1>2. \A i \in 1..n : Append(s, n)[i] = i
  <2>1. \A i \in 1..n : i \in 1..Len(s) \/ i = n
    BY <1>1
  <2>2. \A i \in 1..Len(s) : s[i] = i
    OBVIOUS
  <2> QED
    BY <1>1, <2>1, <2>2
<1>3. Append(s, n) = [i \in 1..Len(Append(s, n)) |-> Append(s, n)[i]]
  BY <1>1
<1> QED
  BY <1>1, <1>2, <1>3

(* Every step keeps the way of the events sound while the stream is reading *)
(* or has yet to start. Once it has ended nobody reads them.                *)
LEMMA LineNext ==
  ASSUME IInv, Next, streamer' \in {"off", "reading"}
  PROVE  LineOK'
<1> USE DEF IInv
<1>0. /\ streamer \in {"off", "reading"} => LineOK
      /\ Typed /\ ChildOK /\ Len(text) =< said
      /\ reader = "scanning" => held = NoEvent
  BY DEF StreamOK, PlacesOK, TextOK
<1>1. CASE Inspect
  <2>1. /\ UNCHANGED <<events, held, inbox, text, said, verdict>>
        /\ proc' = "up" => proc = "up"
        /\ streamer \in {"off", "reading"}
    BY <1>1 DEF Inspect, Return, clientVars
  <2> QED
    BY <1>0, <2>1, FrameOK
<1>2. CASE Prepare
  <2>1. /\ UNCHANGED <<events, held, inbox, text, said, verdict>>
        /\ proc' = "up" => proc = "up"
        /\ streamer \in {"off", "reading"}
    BY <1>2 DEF Prepare, Return, clientVars
  <2> QED
    BY <1>0, <2>1, FrameOK
<1>3. CASE StartRuns
  <2>1. UNCHANGED <<events, held, inbox, text, said, verdict, streamer>>
    BY <1>3 DEF StartRuns, Start, Return, clientVars
  <2>2. said = 0 /\ verdict = "none" /\ Early
    BY <1>3 DEF StartRuns, Early, StreamOK, PlacesOK
  <2>3. Kept'
    BY <1>0, <2>1, <2>2 DEF Kept, Typed
  <2>4. Line' = Line /\ Ordered'
    BY <1>0, <2>1 DEF Line, LineOK, Ordered
  <2>5. \A e \in Line' : Sound(e)'
    BY <1>0, <2>1, <2>4, StillSound DEF LineOK
  <2> QED
    BY <2>3, <2>4, <2>5 DEF LineOK
<1>4. CASE Asks
  <2>1. /\ UNCHANGED <<events, held, inbox, text, said, verdict>>
        /\ proc' = "up" => proc = "up"
        /\ streamer \in {"off", "reading"}
    BY <1>4 DEF Asks, Begin, generationVars
  <2> QED
    BY <1>0, <2>1, FrameOK
<1>5. CASE Asked
  <2>1. /\ UNCHANGED <<events, held, inbox, text, said, verdict>>
        /\ proc' = "up" => proc = "up"
        /\ streamer \in {"off", "reading"}
    BY <1>5 DEF Asked, StreamOK, PlacesOK
  <2> QED
    BY <1>0, <2>1, FrameOK
<1>6. CASE TurnFailed
  <2>1. /\ UNCHANGED <<events, held, inbox, text, said, verdict>>
        /\ proc' = "up" => proc = "up"
        /\ streamer \in {"off", "reading"}
    BY <1>6 DEF TurnFailed, clientVars
  <2> QED
    BY <1>0, <2>1, FrameOK
<1>7. CASE Drained
  <2>1. /\ UNCHANGED <<events, held, inbox, text, said, verdict>>
        /\ proc' = "up" => proc = "up"
        /\ streamer \in {"off", "reading"}
    BY <1>7 DEF Drained, clientVars
  <2> QED
    BY <1>0, <2>1, FrameOK
<1>8. CASE StreamFailed
  <2>1. /\ UNCHANGED <<events, held, inbox, text, said, verdict>>
        /\ proc' = "up" => proc = "up"
        /\ streamer \in {"off", "reading"}
    BY <1>8 DEF StreamFailed, clientVars
  <2> QED
    BY <1>0, <2>1, FrameOK
<1>9. CASE BothDone
  <2>1. /\ UNCHANGED <<events, held, inbox, text, said, verdict>>
        /\ proc' = "up" => proc = "up"
        /\ streamer \in {"off", "reading"}
    BY <1>9 DEF BothDone, clientVars
  <2> QED
    BY <1>0, <2>1, FrameOK
<1>10. CASE Closes
  <2>1. /\ UNCHANGED <<events, held, inbox, text, said, verdict>>
        /\ proc' = "up" => proc = "up"
        /\ streamer \in {"off", "reading"}
    BY <1>10 DEF Closes, Fail
  <2> QED
    BY <1>0, <2>1, FrameOK
<1>11. CASE Closed
  <2>1. /\ UNCHANGED <<events, held, inbox, text, said, verdict>>
        /\ proc' = "up" => proc = "up"
        /\ streamer \in {"off", "reading"}
    BY <1>11 DEF Closed, Return, clientVars
  <2> QED
    BY <1>0, <2>1, FrameOK
<1>12. CASE CloseTimesOut
  <2>1. /\ UNCHANGED <<events, held, inbox, text, said, verdict>>
        /\ proc' = "up" => proc = "up"
        /\ streamer \in {"off", "reading"}
    BY <1>12 DEF CloseTimesOut, Return, clientVars
  <2> QED
    BY <1>0, <2>1, FrameOK
<1>13. CASE Turns
  <2>1. /\ UNCHANGED <<events, held, inbox, text, said, verdict>>
        /\ proc' = "up" => proc = "up"
        /\ streamer \in {"off", "reading"}
    BY <1>13 DEF Turns, Begin, generationVars
  <2> QED
    BY <1>0, <2>1, FrameOK
<1>14. ASSUME NEW c \in Callers, CallRuns(c)
      PROVE  LineOK'
  <2>1. /\ UNCHANGED <<events, held, inbox, text, said, verdict>>
        /\ proc' = "up" => proc = "up"
        /\ streamer \in {"off", "reading"}
    BY <1>14, CallKeeps
  <2> QED
    BY <1>0, <2>1, FrameOK
<1>15. CASE StreamStops
  <2>1. /\ UNCHANGED <<events, held, inbox, text, said, verdict>>
        /\ proc' = "up" => proc = "up"
        /\ streamer \in {"off", "reading"}
    BY <1>15 DEF StreamStops, clientVars
  <2> QED
    BY <1>0, <2>1, FrameOK
<1>16. CASE StreamForbidden
  <2>1. /\ UNCHANGED <<events, held, inbox, text, said, verdict>>
        /\ proc' = "up" => proc = "up"
        /\ streamer \in {"off", "reading"}
    BY <1>16 DEF StreamForbidden, Reads
  <2> QED
    BY <1>0, <2>1, FrameOK
<1>17. CASE StreamText
  <2>1. /\ Reads /\ streamer = "reading" /\ Head(events).kind = "text"
        /\ text' = Append(text, Head(events).piece)
    BY <1>17 DEF StreamText, Reads
  <2> QED
    BY <1>0, <2>1, TextLine
<1>18. CASE StreamSearch
  <2>1. Reads /\ streamer = "reading" /\ text' = text /\ ~Marked(Head(events))
    BY <1>18, NotKinds DEF StreamSearch, Reads, Marked
  <2> QED
    BY <1>0, <2>1, ReadLine
<1>19. CASE StreamNote
  <2>1. Reads /\ streamer = "reading" /\ text' = text /\ ~Marked(Head(events))
    BY <1>19, NotKinds DEF StreamNote, Reads, Marked
  <2> QED
    BY <1>0, <2>1, ReadLine
<1>20. CASE StreamEnds
  <2>1. /\ UNCHANGED <<events, held, inbox, text, said, verdict>>
        /\ proc' = "up" => proc = "up"
        /\ streamer \in {"off", "reading"}
    BY <1>20 DEF StreamEnds, Reads
  <2> QED
    BY <1>0, <2>1, FrameOK
<1>21. CASE Take /\ UNCHANGED generationVars
  <2>1. /\ UNCHANGED <<events, held, inbox, text, said, verdict>>
        /\ proc' = "up" => proc = "up"
        /\ streamer \in {"off", "reading"}
    BY <1>21 DEF Take, generationVars
  <2> QED
    BY <1>0, <2>1, FrameOK
<1>22. CASE WriteFails /\ UNCHANGED generationVars
  <2>1. /\ UNCHANGED <<events, held, inbox, text, said, verdict>>
        /\ proc' = "up" => proc = "up"
        /\ streamer \in {"off", "reading"}
    BY <1>22 DEF WriteFails, Fail, generationVars
  <2> QED
    BY <1>0, <2>1, FrameOK
<1>23. CASE StopWriter /\ UNCHANGED generationVars
  <2>1. /\ UNCHANGED <<events, held, inbox, text, said, verdict>>
        /\ proc' = "up" => proc = "up"
        /\ streamer \in {"off", "reading"}
    BY <1>23 DEF StopWriter, generationVars
  <2> QED
    BY <1>0, <2>1, FrameOK
<1>24. CASE ScanAnswer /\ UNCHANGED generationVars
  <2>1. streamer \in {"off", "reading"}
    BY <1>24 DEF generationVars
  <2> QED
    BY <1>24, <1>0, <2>1, ScanAnswerLine
<1>25. CASE ScanEvent /\ UNCHANGED generationVars
  <2>1. streamer \in {"off", "reading"} /\ reader = "scanning"
    BY <1>25 DEF generationVars, ScanEvent
  <2> QED
    BY <1>25, <1>0, <2>1, ScanEventLine
<1>26. CASE Deny /\ UNCHANGED generationVars
  <2>1. /\ UNCHANGED <<events, held, inbox, text, said, verdict>>
        /\ proc' = "up" => proc = "up"
        /\ streamer \in {"off", "reading"}
    BY <1>26 DEF Deny, generationVars
  <2> QED
    BY <1>0, <2>1, FrameOK
<1>27. CASE Emit /\ UNCHANGED generationVars
  <2>1. streamer \in {"off", "reading"}
    BY <1>27 DEF generationVars
  <2> QED
    BY <1>27, <1>0, <2>1, EmitLine
<1>28. CASE Terminate /\ UNCHANGED generationVars
  <2>1. streamer \in {"off", "reading"}
    BY <1>28 DEF generationVars
  <2> QED
    BY <1>28, <1>0, <2>1, TerminateLine
<1>29. CASE Release /\ UNCHANGED generationVars
  <2>1. /\ UNCHANGED <<events, held, inbox, text, said, verdict>>
        /\ proc' = "up" => proc = "up"
        /\ streamer \in {"off", "reading"}
    BY <1>29 DEF Release, generationVars
  <2> QED
    BY <1>0, <2>1, FrameOK
<1>30. CASE Finish /\ UNCHANGED generationVars
  <2>1. /\ UNCHANGED <<events, held, inbox, text, said, verdict>>
        /\ proc' = "up" => proc = "up"
        /\ streamer \in {"off", "reading"}
    BY <1>30 DEF Finish, generationVars
  <2> QED
    BY <1>0, <2>1, FrameOK
<1>31. CASE ChildWrites
  <2>1. /\ UNCHANGED <<events, held, inbox, text, said, verdict>>
        /\ proc' = "up" => proc = "up"
        /\ streamer \in {"off", "reading"}
    BY <1>31 DEF ChildWrites, WriteEnds, generationVars
  <2> QED
    BY <1>0, <2>1, FrameOK
<1>32. CASE ChildAnswers
  <2>1. PICK m \in Requests, value \in {"good", "refused"} : Respond(m, value)
    BY <1>32 DEF ChildAnswers, Respond
  <2>2. PICK e \in AnswerLines : e = [kind |-> "answer", method |-> m, value |-> value]
    BY DEF AnswerLines
  <2>3. inbox' = Append(inbox, e)
    BY <2>1, <2>2 DEF Respond, Says
  <2>4. UNCHANGED <<events, held, text, said, verdict, streamer, proc>>
    BY <1>32, <2>1 DEF ChildAnswers, Respond, Says, Outside
  <2> QED
    BY <1>0, <2>3, <2>4, AnsweredLine
<1>33. CASE ChildAnnounces
  <2>1. PICK k \in Kinds, e \in Events : Announces(k, e)
    BY <1>33, <1>0, AnnounceEffect
  <2>2. streamer \in {"off", "reading"}
    BY <2>1 DEF Announces
  <2> QED
    BY <1>0, <2>1, <2>2, AnnounceLine
<1>34. CASE ChildDies
  <2>1. /\ UNCHANGED <<events, held, inbox, text, said, verdict>>
        /\ proc' = "up" => proc = "up"
        /\ streamer \in {"off", "reading"}
    BY <1>34 DEF ChildDies, Dies, generationVars
  <2> QED
    BY <1>0, <2>1, FrameOK
<1>35. CASE Signal
  <2>1. /\ UNCHANGED <<events, held, inbox, text, said, verdict>>
        /\ proc' = "up" => proc = "up"
        /\ streamer \in {"off", "reading"}
    BY <1>35 DEF Signal, Expire
  <2> QED
    BY <1>0, <2>1, FrameOK
<1>36. CASE HandshakeExpires
  <2>1. /\ UNCHANGED <<events, held, inbox, text, said, verdict>>
        /\ proc' = "up" => proc = "up"
        /\ streamer \in {"off", "reading"}
    BY <1>36 DEF HandshakeExpires, Expire, generationVars
  <2> QED
    BY <1>0, <2>1, FrameOK
<1> QED
  BY <1>1, <1>2, <1>3, <1>4, <1>5, <1>6, <1>7, <1>8, <1>9, <1>10, <1>11, <1>12,
     <1>13, <1>14, <1>15, <1>16, <1>17, <1>18, <1>19, <1>20, <1>21, <1>22, <1>23,
     <1>24, <1>25, <1>26, <1>27, <1>28, <1>29, <1>30, <1>31, <1>32, <1>33, <1>34,
     <1>35, <1>36 DEF Next, MainRuns, streamGeneration, ConnectionRuns, WriteLoop,
     ReadLoop

(* Every step keeps what has not begun silent.                              *)
LEMMA PlacesNext ==
  ASSUME IInv, Next
  PROVE  PlacesOK'

<1>1. CASE Inspect
  BY <1>1 DEF IInv, StreamOK, PlacesOK, ChildOK, Early, Inspect, Return,
     clientVars
<1>2. CASE Prepare
  BY <1>2 DEF IInv, StreamOK, PlacesOK, ChildOK, Early, Prepare, Return,
     clientVars
<1>3. CASE StartRuns
  BY <1>3 DEF IInv, StreamOK, PlacesOK, ChildOK, Early, StartRuns, Start, Return,
     clientVars
<1>4. CASE Asks
  BY <1>4 DEF IInv, StreamOK, PlacesOK, ChildOK, Early, Asks, Begin,
     generationVars
<1>5. CASE Asked
  BY <1>5 DEF IInv, StreamOK, PlacesOK, ChildOK, Early, Asked
<1>6. CASE TurnFailed
  BY <1>6 DEF IInv, StreamOK, PlacesOK, ChildOK, Early, TurnFailed, clientVars
<1>7. CASE Drained
  BY <1>7 DEF IInv, StreamOK, PlacesOK, ChildOK, Early, Drained, clientVars
<1>8. CASE StreamFailed
  BY <1>8 DEF IInv, StreamOK, PlacesOK, ChildOK, Early, StreamFailed, clientVars
<1>9. CASE BothDone
  BY <1>9 DEF IInv, StreamOK, PlacesOK, ChildOK, Early, BothDone, clientVars
<1>10. CASE Closes
  BY <1>10 DEF IInv, StreamOK, PlacesOK, ChildOK, Early, Closes, Fail
<1>11. CASE Closed
  BY <1>11 DEF IInv, StreamOK, PlacesOK, ChildOK, Early, Closed, Return,
     clientVars
<1>12. CASE CloseTimesOut
  BY <1>12 DEF IInv, StreamOK, PlacesOK, ChildOK, Early, CloseTimesOut, Return,
     clientVars
<1>13. CASE Turns
  BY <1>13 DEF IInv, StreamOK, PlacesOK, ChildOK, Early, Turns, Begin,
     generationVars
<1>14. ASSUME NEW c \in Callers, CallRuns(c)
      PROVE  PlacesOK'
  BY <1>14, CallKeeps DEF IInv, StreamOK, PlacesOK, Early
<1>15. CASE StreamStops
  BY <1>15 DEF IInv, StreamOK, PlacesOK, ChildOK, Early, StreamStops, clientVars
<1>16. CASE StreamForbidden
  BY <1>16 DEF IInv, StreamOK, PlacesOK, ChildOK, Early, StreamForbidden, Reads
<1>17. CASE StreamText
  BY <1>17 DEF IInv, StreamOK, PlacesOK, ChildOK, Early, StreamText, Reads
<1>18. CASE StreamSearch
  BY <1>18 DEF IInv, StreamOK, PlacesOK, ChildOK, Early, StreamSearch, Reads
<1>19. CASE StreamNote
  BY <1>19 DEF IInv, StreamOK, PlacesOK, ChildOK, Early, StreamNote, Reads
<1>20. CASE StreamEnds
  BY <1>20 DEF IInv, StreamOK, PlacesOK, ChildOK, Early, StreamEnds, Reads
<1>21. CASE Take /\ UNCHANGED generationVars
  BY <1>21 DEF IInv, StreamOK, PlacesOK, ChildOK, Early, Take, generationVars
<1>22. CASE WriteFails /\ UNCHANGED generationVars
  BY <1>22 DEF IInv, StreamOK, PlacesOK, ChildOK, Early, WriteFails, Fail,
     generationVars
<1>23. CASE StopWriter /\ UNCHANGED generationVars
  BY <1>23 DEF IInv, StreamOK, PlacesOK, ChildOK, Early, StopWriter,
     generationVars
<1>24. CASE ScanAnswer /\ UNCHANGED generationVars
  BY <1>24 DEF IInv, StreamOK, PlacesOK, ChildOK, Early, ScanAnswer,
     generationVars
<1>25. CASE ScanEvent /\ UNCHANGED generationVars
  BY <1>25 DEF IInv, StreamOK, PlacesOK, ChildOK, Early, ScanEvent, generationVars
<1>26. CASE Deny /\ UNCHANGED generationVars
  BY <1>26 DEF IInv, StreamOK, PlacesOK, ChildOK, Early, Deny, generationVars
<1>27. CASE Emit /\ UNCHANGED generationVars
  BY <1>27 DEF IInv, StreamOK, PlacesOK, ChildOK, Early, Emit, generationVars
<1>28. CASE Terminate /\ UNCHANGED generationVars
  BY <1>28 DEF IInv, StreamOK, PlacesOK, ChildOK, Early, Terminate, Terminates,
     Fail, generationVars
<1>29. CASE Release /\ UNCHANGED generationVars
  BY <1>29 DEF IInv, StreamOK, PlacesOK, ChildOK, Early, Release, generationVars
<1>30. CASE Finish /\ UNCHANGED generationVars
  BY <1>30 DEF IInv, StreamOK, PlacesOK, ChildOK, Early, Finish, generationVars
<1>31. CASE ChildWrites
  BY <1>31 DEF IInv, StreamOK, PlacesOK, ChildOK, Early, ChildWrites, WriteEnds,
     generationVars
<1>32. CASE ChildAnswers
  BY <1>32 DEF IInv, StreamOK, PlacesOK, ChildOK, Early, ChildAnswers, Respond,
     Says, Outside
<1>33. CASE ChildAnnounces
  <2>1. ~Early
    BY <1>33 DEF ChildAnnounces, Says, IInv, ChildOK
  <2>2. UNCHANGED <<at, streamer, reader, held>>
    BY <1>33 DEF ChildAnnounces, Says, Outside
  <2> QED
    BY <2>1, <2>2 DEF IInv, StreamOK, PlacesOK, Early
<1>34. CASE ChildDies
  BY <1>34 DEF IInv, StreamOK, PlacesOK, ChildOK, Early, ChildDies, Dies,
     generationVars
<1>35. CASE Signal
  BY <1>35 DEF IInv, StreamOK, PlacesOK, ChildOK, Early, Signal, Expire
<1>36. CASE HandshakeExpires
  BY <1>36 DEF IInv, StreamOK, PlacesOK, ChildOK, Early, HandshakeExpires, Expire,
     generationVars
<1> QED
  BY <1>1, <1>2, <1>3, <1>4, <1>5, <1>6, <1>7, <1>8, <1>9, <1>10, <1>11, <1>12,
     <1>13, <1>14, <1>15, <1>16, <1>17, <1>18, <1>19, <1>20, <1>21, <1>22, <1>23,
     <1>24, <1>25, <1>26, <1>27, <1>28, <1>29, <1>30, <1>31, <1>32, <1>33, <1>34,
     <1>35, <1>36 DEF Next, MainRuns, streamGeneration, ConnectionRuns, WriteLoop,
     ReadLoop

(* Every step keeps the text the beginning of what was said, and a stream   *)
(* that ended well has all of it.                                           *)
LEMMA TextNext ==
  ASSUME IInv, Next
  PROVE  TextOK'

<1>1. CASE Inspect
  BY <1>1 DEF IInv, StreamOK, TextOK, Inspect, Return, clientVars
<1>2. CASE Prepare
  BY <1>2 DEF IInv, StreamOK, TextOK, Prepare, Return, clientVars
<1>3. CASE StartRuns
  BY <1>3 DEF IInv, StreamOK, TextOK, StartRuns, Start, Return, clientVars
<1>4. CASE Asks
  BY <1>4 DEF IInv, StreamOK, TextOK, Asks, Begin, generationVars
<1>5. CASE Asked
  BY <1>5 DEF IInv, StreamOK, TextOK, Asked
<1>6. CASE TurnFailed
  BY <1>6 DEF IInv, StreamOK, TextOK, TurnFailed, clientVars
<1>7. CASE Drained
  BY <1>7 DEF IInv, StreamOK, TextOK, Drained, clientVars
<1>8. CASE StreamFailed
  BY <1>8 DEF IInv, StreamOK, TextOK, StreamFailed, clientVars
<1>9. CASE BothDone
  BY <1>9 DEF IInv, StreamOK, TextOK, BothDone, clientVars
<1>10. CASE Closes
  BY <1>10 DEF IInv, StreamOK, TextOK, Closes, Fail
<1>11. CASE Closed
  BY <1>11 DEF IInv, StreamOK, TextOK, Closed, Return, clientVars
<1>12. CASE CloseTimesOut
  BY <1>12 DEF IInv, StreamOK, TextOK, CloseTimesOut, Return, clientVars
<1>13. CASE Turns
  BY <1>13 DEF IInv, StreamOK, TextOK, Turns, Begin, generationVars
<1>14. ASSUME NEW c \in Callers, CallRuns(c)
      PROVE  TextOK'
  BY <1>14, CallKeeps DEF IInv, StreamOK, TextOK
<1>15. CASE StreamStops
  BY <1>15 DEF IInv, StreamOK, TextOK, StreamStops, clientVars
<1>16. CASE StreamForbidden
  BY <1>16 DEF IInv, StreamOK, TextOK, StreamForbidden, Reads
<1>17. CASE StreamText
  <2>1. LineOK /\ Typed /\ events # <<>> /\ said' = said
    BY <1>17 DEF StreamText, Reads, IInv, StreamOK, TextOK
  <2>2. PICK n \in Nat : n = Head(events).piece
    BY <2>1, First DEF LineOK, Events
  <2>3. n = Len(text) + 1 /\ n =< said
    BY <1>17, <2>1, <2>2, NextPiece DEF StreamText
  <2>4. text' = text \/ text' = Append(text, n)
    BY <1>17, <2>2 DEF StreamText
  <2>5. text' = [i \in 1..Len(text') |-> i] /\ Len(text') =< said
    <3>1. text \in Seq(Nat) /\ text = [i \in 1..Len(text) |-> i] /\ Len(text) =< said
      BY DEF IInv, StreamOK, TextOK, Typed
    <3>2. CASE text' = text
      BY <3>1, <3>2
    <3>3. CASE text' = Append(text, n)
      <4>1. /\ Append(text, n) = [i \in 1..Len(Append(text, n)) |-> i]
            /\ Len(Append(text, n)) = n
        BY <2>3, <3>1, TextGrows
      <4> QED
        BY <2>3, <3>3, <4>1
    <3> QED
      BY <2>4, <3>2, <3>3
  <2>6. streamer' # "good"
    BY <1>17 DEF StreamText, Reads
  <2> QED
    BY <2>1, <2>5, <2>6 DEF TextOK
<1>18. CASE StreamSearch
  BY <1>18 DEF IInv, StreamOK, TextOK, StreamSearch, Reads
<1>19. CASE StreamNote
  BY <1>19 DEF IInv, StreamOK, TextOK, StreamNote, Reads
<1>20. CASE StreamEnds
  <2>1. LineOK /\ Typed /\ events # <<>> /\ UNCHANGED <<text, said, verdict>>
    BY <1>20 DEF StreamEnds, Reads, IInv, StreamOK, TextOK
  <2>2. streamer' = "good" => Head(events).kind = "completed"
    BY <1>20 DEF StreamEnds
  <2>3. verdict = Head(events).kind /\ Len(text) = said
    BY <1>20, <2>1, NothingMissing DEF StreamEnds, IInv, StreamOK, TextOK
  <2> QED
    BY <2>1, <2>2, <2>3 DEF IInv, StreamOK, TextOK
<1>21. CASE Take /\ UNCHANGED generationVars
  BY <1>21 DEF IInv, StreamOK, TextOK, Take, generationVars
<1>22. CASE WriteFails /\ UNCHANGED generationVars
  BY <1>22 DEF IInv, StreamOK, TextOK, WriteFails, Fail, generationVars
<1>23. CASE StopWriter /\ UNCHANGED generationVars
  BY <1>23 DEF IInv, StreamOK, TextOK, StopWriter, generationVars
<1>24. CASE ScanAnswer /\ UNCHANGED generationVars
  BY <1>24 DEF IInv, StreamOK, TextOK, ScanAnswer, generationVars
<1>25. CASE ScanEvent /\ UNCHANGED generationVars
  BY <1>25 DEF IInv, StreamOK, TextOK, ScanEvent, generationVars
<1>26. CASE Deny /\ UNCHANGED generationVars
  BY <1>26 DEF IInv, StreamOK, TextOK, Deny, generationVars
<1>27. CASE Emit /\ UNCHANGED generationVars
  BY <1>27 DEF IInv, StreamOK, TextOK, Emit, generationVars
<1>28. CASE Terminate /\ UNCHANGED generationVars
  BY <1>28 DEF IInv, StreamOK, TextOK, Terminate, Terminates, Fail, generationVars
<1>29. CASE Release /\ UNCHANGED generationVars
  BY <1>29 DEF IInv, StreamOK, TextOK, Release, generationVars
<1>30. CASE Finish /\ UNCHANGED generationVars
  BY <1>30 DEF IInv, StreamOK, TextOK, Finish, generationVars
<1>31. CASE ChildWrites
  BY <1>31 DEF IInv, StreamOK, TextOK, ChildWrites, WriteEnds, generationVars
<1>32. CASE ChildAnswers
  BY <1>32 DEF IInv, StreamOK, TextOK, ChildAnswers, Respond, Says, Outside
<1>33. CASE ChildAnnounces
  <2>1. PICK k \in Kinds, e \in Events : Announces(k, e)
    BY <1>33, AnnounceEffect DEF IInv
  <2>2. said =< said' /\ said \in Nat /\ Len(text) \in Nat /\ said' \in Nat
    BY <2>1 DEF Announces, IInv, Typed
  <2>3. verdict # "completed" /\ UNCHANGED <<text, streamer>>
    BY <2>1 DEF Announces
  <2>4. /\ text = [i \in 1..Len(text) |-> i] /\ Len(text) =< said
        /\ streamer # "good"
    BY <2>3 DEF IInv, StreamOK, TextOK, Announces
  <2>5. Len(text) =< said'
    BY <2>2, <2>4
  <2> QED
    BY <2>3, <2>4, <2>5 DEF TextOK
<1>34. CASE ChildDies
  BY <1>34 DEF IInv, StreamOK, TextOK, ChildDies, Dies, generationVars
<1>35. CASE Signal
  BY <1>35 DEF IInv, StreamOK, TextOK, Signal, Expire
<1>36. CASE HandshakeExpires
  BY <1>36 DEF IInv, StreamOK, TextOK, HandshakeExpires, Expire, generationVars
<1> QED
  BY <1>1, <1>2, <1>3, <1>4, <1>5, <1>6, <1>7, <1>8, <1>9, <1>10, <1>11, <1>12,
     <1>13, <1>14, <1>15, <1>16, <1>17, <1>18, <1>19, <1>20, <1>21, <1>22, <1>23,
     <1>24, <1>25, <1>26, <1>27, <1>28, <1>29, <1>30, <1>31, <1>32, <1>33, <1>34,
     <1>35, <1>36 DEF Next, MainRuns, streamGeneration, ConnectionRuns, WriteLoop,
     ReadLoop

(* Success is reported with a stream that ended well and an accepted turn,  *)
(* and neither is taken back.                                               *)
LEMMA OutcomeNext ==
  ASSUME IInv, Next
  PROVE  OutcomeOK'

<1>1. CASE Inspect
  BY <1>1 DEF IInv, StreamOK, OutcomeOK, Inspect, Return, clientVars
<1>2. CASE Prepare
  BY <1>2 DEF IInv, StreamOK, OutcomeOK, Prepare, Return, clientVars
<1>3. CASE StartRuns
  BY <1>3 DEF IInv, StreamOK, OutcomeOK, StartRuns, Start, Return, clientVars
<1>4. CASE Asks
  <2>1. outcome' # "ok"
    BY <1>4 DEF Asks, generationVars, IInv, StreamOK, PlacesOK, OutcomeOK
  <2> QED
    BY <2>1 DEF OutcomeOK
<1>5. CASE Asked
  <2>1. outcome' # "ok"
    BY <1>5 DEF Asked, IInv, StreamOK, PlacesOK, OutcomeOK
  <2> QED
    BY <2>1 DEF OutcomeOK
<1>6. CASE TurnFailed
  BY <1>6 DEF IInv, StreamOK, OutcomeOK, TurnFailed, clientVars
<1>7. CASE Drained
  BY <1>7 DEF IInv, StreamOK, OutcomeOK, Drained, clientVars
<1>8. CASE StreamFailed
  BY <1>8 DEF IInv, StreamOK, OutcomeOK, StreamFailed, clientVars
<1>9. CASE BothDone
  BY <1>9 DEF IInv, StreamOK, OutcomeOK, BothDone, clientVars
<1>10. CASE Closes
  BY <1>10 DEF IInv, StreamOK, OutcomeOK, Closes, Fail
<1>11. CASE Closed
  BY <1>11 DEF IInv, StreamOK, OutcomeOK, Closed, Return, clientVars
<1>12. CASE CloseTimesOut
  BY <1>12 DEF IInv, StreamOK, OutcomeOK, CloseTimesOut, Return, clientVars
<1>13. CASE Turns
  <2>1. call[Turner].result # "good"
    BY <1>13 DEF Turns, IInv, TurnOK
  <2>2. outcome' # "ok"
    BY <1>13, <2>1 DEF Turns, generationVars, IInv, StreamOK, OutcomeOK
  <2> QED
    BY <2>2 DEF OutcomeOK
<1>14. ASSUME NEW c \in Callers, CallRuns(c)
      PROVE  OutcomeOK'
  <2>1. UNCHANGED <<outcome, streamer>> /\ call[c].at # "returned"
    BY <1>14, CallKeeps
  <2>2. PICK r \in CallStates : call' = [call EXCEPT ![c] = r]
    BY <1>14, CallMoves DEF IInv
  <2>3. call[Turner].result = "good" => c # Turner
    BY <2>1 DEF IInv, TurnOK
  <2>4. call[Turner].result = "good" => call'[Turner] = call[Turner]
    BY <2>2, <2>3, HandshakeSteps DEF IInv, Typed
  <2> QED
    BY <2>1, <2>4 DEF IInv, StreamOK, OutcomeOK
<1>15. CASE StreamStops
  BY <1>15 DEF IInv, StreamOK, OutcomeOK, StreamStops, clientVars
<1>16. CASE StreamForbidden
  BY <1>16 DEF IInv, StreamOK, OutcomeOK, StreamForbidden, Reads
<1>17. CASE StreamText
  BY <1>17 DEF IInv, StreamOK, OutcomeOK, StreamText, Reads
<1>18. CASE StreamSearch
  BY <1>18 DEF IInv, StreamOK, OutcomeOK, StreamSearch, Reads
<1>19. CASE StreamNote
  BY <1>19 DEF IInv, StreamOK, OutcomeOK, StreamNote, Reads
<1>20. CASE StreamEnds
  BY <1>20 DEF IInv, StreamOK, OutcomeOK, StreamEnds, Reads
<1>21. CASE Take /\ UNCHANGED generationVars
  BY <1>21 DEF IInv, StreamOK, OutcomeOK, Take, generationVars
<1>22. CASE WriteFails /\ UNCHANGED generationVars
  BY <1>22 DEF IInv, StreamOK, OutcomeOK, WriteFails, Fail, generationVars
<1>23. CASE StopWriter /\ UNCHANGED generationVars
  BY <1>23 DEF IInv, StreamOK, OutcomeOK, StopWriter, generationVars
<1>24. CASE ScanAnswer /\ UNCHANGED generationVars
  BY <1>24 DEF IInv, StreamOK, OutcomeOK, ScanAnswer, generationVars
<1>25. CASE ScanEvent /\ UNCHANGED generationVars
  BY <1>25 DEF IInv, StreamOK, OutcomeOK, ScanEvent, generationVars
<1>26. CASE Deny /\ UNCHANGED generationVars
  BY <1>26 DEF IInv, StreamOK, OutcomeOK, Deny, generationVars
<1>27. CASE Emit /\ UNCHANGED generationVars
  BY <1>27 DEF IInv, StreamOK, OutcomeOK, Emit, generationVars
<1>28. CASE Terminate /\ UNCHANGED generationVars
  BY <1>28 DEF IInv, StreamOK, OutcomeOK, Terminate, Terminates, Fail,
     generationVars
<1>29. CASE Release /\ UNCHANGED generationVars
  BY <1>29 DEF IInv, StreamOK, OutcomeOK, Release, generationVars
<1>30. CASE Finish /\ UNCHANGED generationVars
  BY <1>30 DEF IInv, StreamOK, OutcomeOK, Finish, generationVars
<1>31. CASE ChildWrites
  BY <1>31 DEF IInv, StreamOK, OutcomeOK, ChildWrites, WriteEnds, generationVars
<1>32. CASE ChildAnswers
  BY <1>32 DEF IInv, StreamOK, OutcomeOK, ChildAnswers, Respond, Says, Outside
<1>33. CASE ChildAnnounces
  BY <1>33 DEF IInv, StreamOK, OutcomeOK, ChildAnnounces, Says, Outside
<1>34. CASE ChildDies
  BY <1>34 DEF IInv, StreamOK, OutcomeOK, ChildDies, Dies, generationVars
<1>35. CASE Signal
  BY <1>35 DEF IInv, StreamOK, OutcomeOK, Signal, Expire
<1>36. CASE HandshakeExpires
  BY <1>36 DEF IInv, StreamOK, OutcomeOK, HandshakeExpires, Expire, generationVars
<1> QED
  BY <1>1, <1>2, <1>3, <1>4, <1>5, <1>6, <1>7, <1>8, <1>9, <1>10, <1>11, <1>12,
     <1>13, <1>14, <1>15, <1>16, <1>17, <1>18, <1>19, <1>20, <1>21, <1>22, <1>23,
     <1>24, <1>25, <1>26, <1>27, <1>28, <1>29, <1>30, <1>31, <1>32, <1>33, <1>34,
     <1>35, <1>36 DEF Next, MainRuns, streamGeneration, ConnectionRuns, WriteLoop,
     ReadLoop

(* The invariant holds before the command has done anything.                *)
LEMMA AtFirst ==
  ASSUME Init
  PROVE  IInv
<1>1. Typed
  BY DEF Init, New, Typed, CallStates, NoCall, Handshake
<1>2. ChildOK
  BY DEF Init, New, ChildOK, Early, NothingLeftBehind
<1>3. TurnOK
  BY HandshakeSteps DEF Init, New, TurnOK, NoCall
<1>4. Len(events) = 0 /\ Len(inbox) = 0 /\ held = NoEvent /\ said = 0 /\ proc = "none"
  BY DEF Init, New
<1>5. Ordered
  BY <1>4 DEF Ordered
<1>6. \A e \in Line : e.kind \notin Kinds
  BY <1>4, NotKinds DEF Line
<1>7. \A e \in Line : Sound(e)
  BY <1>6, NotKinds DEF Sound, Cut, Piece
<1>8. LineOK
  BY <1>4, <1>5, <1>7 DEF LineOK
<1>9. text = [i \in 1..Len(text) |-> i] /\ Len(text) = 0
  BY DEF Init
<1>10. StreamOK
  BY <1>4, <1>8, <1>9 DEF Init, New, StreamOK, PlacesOK, TextOK, OutcomeOK, Early
<1> QED
  BY <1>1, <1>2, <1>3, <1>10 DEF IInv

(* Every step keeps the invariant.                                          *)
LEMMA Preserved ==
  ASSUME IInv, [Next]_vars
  PROVE  IInv'
<1>1. CASE Next
  <2>1. StreamOK'
    BY <1>1, LineNext, PlacesNext, TextNext, OutcomeNext DEF StreamOK
  <2> QED
    BY <1>1, <2>1, TypedNext, ChildNext, TurnNext DEF IInv
<1>2. CASE UNCHANGED vars
  <2>1. /\ UNCHANGED <<call, answer, inbox, held, reader, events, text, said, step, streamer,
                       verdict, at, proc, running, dir, outcome, pending>>
    BY <1>2 DEF vars, clientVars, generationVars
  <2>2. LineOK => LineOK'
    BY <2>1, FrameOK
  <2>3. StreamOK'
    BY <2>1, <2>2 DEF IInv, StreamOK, PlacesOK, TextOK, OutcomeOK, Early
  <2>4. Typed' /\ ChildOK' /\ TurnOK'
    BY <2>1 DEF IInv, Typed, ChildOK, TurnOK, Early, NothingLeftBehind
  <2> QED
    BY <2>3, <2>4 DEF IInv
<1> QED
  BY <1>1, <1>2

(* The invariant holds at every moment.                                     *)
THEOREM Inductive == Spec => []IInv
<1>1. Init => IInv
  BY AtFirst
<1>2. IInv /\ [Next]_vars => IInv'
  BY Preserved
<1> QED
  BY <1>1, <1>2, PTL DEF Spec

(* The answer of a generation is whole, with any number of events and channels of   *)
(* any size: text reaches the output in the order the child said it and without a   *)
(* gap, and success means all of it, up to a completed turn that was accepted       *)
(* (emit, client.go:430; streamGeneration, generate.go:304).                        *)
THEOREM WholeAnswer == Spec => []AnswerIsWhole
<1>1. IInv => AnswerIsWhole
  BY DEF IInv, StreamOK, TextOK, OutcomeOK, TurnOK, AnswerIsWhole
<1> QED
  BY <1>1, Inductive, PTL

(* On every way out of Generate the child is gone and the directory is removed      *)
(* (generate.go:152, client.go:450).                                                *)
THEOREM CleanReturn == Spec => []NothingLeftBehind
<1>1. IInv => NothingLeftBehind
  BY DEF IInv, ChildOK
<1> QED
  BY <1>1, Inductive, PTL
=============================================================================
