--------------------------- MODULE HostConnection ---------------------------
(***************************************************************************)
(* The connections of one editor to its remote hosts: the client processes *)
(* and the calls over them (internal/editor/protocol.go) and the manager   *)
(* that starts, shares, drops and closes them (internal/editor/manager.go).*)
(*                                                                         *)
(* An actor is a goroutine: a worker of the screen that runs one request,  *)
(* or the one that closes the manager.  A section under the manager's      *)
(* mutex is one step; a connection's call gate admits one call at a time,  *)
(* whose watcher and whose host run beside it.                             *)
(***************************************************************************)
EXTENDS Naturals, FiniteSets

CONSTANTS
  Hosts,      \* remote hosts
  Workers,    \* goroutines of the screen
  Closer,     \* the goroutine that closes the manager
  Duties,     \* the kinds of request each worker runs
  Conns,      \* connection processes; an identity is used again after its end
  MaxFaults,  \* bound: processes that die or hang, failed saves and starts
  None,       \* nobody, nothing
  Stale       \* the sender of a message whose call has given up

Kinds == {"refresh", "action", "cleanup", "add"}
Actors == Workers \cup {Closer}

ASSUME DutiesAssumption == Duties \in [Workers -> SUBSET Kinds]
ASSUME ActorAssumption == Closer \notin Workers
ASSUME SentinelAssumption ==
  None \notin Actors \cup Hosts \cup Conns /\ Stale \notin Actors \cup {None}
ASSUME FaultAssumption == MaxFaults \in Nat

VARIABLES
  conn,      \* the connection processes, their pipes and call gates
  clients,   \* Manager.clients
  starting,  \* Manager.starting: who starts the connection of a host
  known,     \* the hosts in the saved state
  socket,    \* whose SSH control socket is at the path of a host
  manager,   \* "open", then the stages of Close
  leaving,   \* the clients Close has taken out of the map
  job,       \* the request of each actor
  faults     \* faults so far

vars == <<conn, clients, starting, known, socket, manager, leaving, job, faults>>

-----------------------------------------------------------------------------
(* Types.  A message is named by the call it belongs to; the request        *)
(* numbers only serve to tell the call that waits from those before it.     *)

Senders == Workers \cup {None, Stale}

Connections ==
  [host : Hosts \cup {None},
   proc : {"up", "hung", "gone"},
   stdin : {"open", "closed", "nil"},
   gate : Actors \cup {None},  \* who holds callGate
   request : Senders,          \* written and not yet read by the host
   serving : Senders,          \* being executed by the host
   answer : Senders,           \* written by the host
   closed : BOOLEAN]           \* closeOnce

Gone == [host |-> None, proc |-> "gone", stdin |-> "nil", gate |-> None,
         request |-> None, serving |-> None, answer |-> None, closed |-> TRUE]

Fresh(h) == [Gone EXCEPT !.host = h, !.proc = "up", !.stdin = "open", !.closed = FALSE]

Stages == {"idle", "client", "await", "start", "gate", "send", "receive", "checked",
           "register", "failed", "commit", "drop", "close", "reap", "sweep"}

Jobs ==
  [at : Stages,
   kind : Kinds \cup {"none", "shutdown"},
   host : Hosts \cup {None},
   conn : Conns \cup {None},
   hello : BOOLEAN,                                \* in StartHostClient
   expired : BOOLEAN,                              \* its context is done
   tracked : BOOLEAN,                              \* counted by startWG
   after : {"idle", "failed", "sweep"}]            \* where Close returns to

Idle == [at |-> "idle", kind |-> "none", host |-> None, conn |-> None, hello |-> FALSE,
         expired |-> FALSE, tracked |-> FALSE, after |-> "idle"]

TypeOK ==
  /\ conn \in [Conns -> Connections]
  /\ clients \in [Hosts -> Conns \cup {None}]
  /\ starting \in [Hosts -> Workers \cup {None}]
  /\ known \in [Hosts -> BOOLEAN]
  /\ socket \in [Hosts -> Conns \cup {None}]
  /\ manager \in {"open", "waiting", "closing", "closed"}
  /\ leaving \in SUBSET Conns
  /\ job \in [Actors -> Jobs]
  /\ faults \in 0..MaxFaults

-----------------------------------------------------------------------------
(* Helpers.                                                                 *)

At(a, stage) == job[a].at = stage
Conn(a) == conn[job[a].conn]
Goto(a, stage) == job' = [job EXCEPT ![a].at = stage]
Finish(a) == job' = [job EXCEPT ![a] = Idle]
CloseThen(a, after) == job' = [job EXCEPT ![a].at = "close", ![a].after = after]
Fault == faults < MaxFaults /\ faults' = faults + 1

(* A connection identity nobody refers to any more.                         *)
Unused(c) ==
  /\ conn[c] = Gone
  /\ \A h \in Hosts : clients[h] # c
  /\ c \notin leaving
  /\ \A a \in Actors : job[a].conn # c

(* What is under way belongs to a call that has given up.                   *)
Forsake(a, record) ==
  [record EXCEPT !.gate = None,
                 !.request = IF @ = a THEN Stale ELSE @,
                 !.serving = IF @ = a THEN Stale ELSE @,
                 !.answer = IF @ = a THEN Stale ELSE @]

End(record) == [record EXCEPT !.proc = "gone", !.request = None, !.serving = None]

InCall(a) == job[a].at \in {"send", "receive"}

-----------------------------------------------------------------------------
(* HostClient.Call.                                                         *)

(* Where the caller goes on: after a failed handshake it closes the client  *)
(* it started; Refresh drops a client whose transport failed; the one-off   *)
(* connections of a cleanup and of a new host are closed.                   *)
Return(a, result) ==
  IF job[a].hello
    THEN IF result = "ok" THEN Goto(a, "checked")
         ELSE CloseThen(a, IF job[a].kind = "add" THEN "sweep"
                           ELSE IF job[a].kind = "cleanup" THEN "idle" ELSE "failed")
    ELSE CASE job[a].kind = "refresh" -> IF result = "transport" THEN Goto(a, "drop") ELSE Finish(a)
           [] job[a].kind = "action" -> Finish(a)
           [] job[a].kind = "cleanup" -> CloseThen(a, "idle")
           [] job[a].kind = "add" -> IF result = "ok" THEN Goto(a, "commit") ELSE CloseThen(a, "sweep")

(* The context ends while the call waits for its turn:                      *)
(* errHostRequestCanceled.                                                  *)
GiveUp(a) ==
  /\ At(a, "gate")
  /\ job[a].expired
  /\ Return(a, "busy")
  /\ UNCHANGED <<conn, clients, starting, known, socket, manager, leaving, faults>>

TakeGate(a) ==
  /\ At(a, "gate")
  /\ Conn(a).gate = None
  /\ ~job[a].expired
  /\ conn' = [conn EXCEPT ![job[a].conn].gate = a]
  /\ Goto(a, "send")
  /\ UNCHANGED <<clients, starting, known, socket, manager, leaving, faults>>

(* A closed client, a closed pipe and a process that is gone fail alike; an *)
(* action whose parameters are too large is not sent.                       *)
Send(a) ==
  /\ At(a, "send")
  /\ \/ /\ Conn(a).stdin = "open" /\ Conn(a).proc # "gone"
        /\ conn' = [conn EXCEPT ![job[a].conn].request = a]
        /\ Goto(a, "receive")
     \/ /\ Conn(a).stdin # "open" \/ Conn(a).proc = "gone"
        /\ conn' = [conn EXCEPT ![job[a].conn] = Forsake(a, @)]
        /\ Return(a, "transport")
     \/ /\ job[a].kind = "action" /\ ~job[a].hello
        /\ conn' = [conn EXCEPT ![job[a].conn] = Forsake(a, @)]
        /\ Return(a, "error")
  /\ UNCHANGED <<clients, starting, known, socket, manager, leaving, faults>>

(* The answer may carry an error; one with another number is a transport    *)
(* error, and so is the end of the stream.                                  *)
Receive(a) ==
  /\ At(a, "receive")
  /\ \/ /\ Conn(a).answer = a
        /\ \E result \in {"ok", "error"} : Return(a, result)
     \/ /\ Conn(a).answer \notin {None, a}
        /\ Return(a, "transport")
     \/ /\ Conn(a).answer = None /\ Conn(a).proc = "gone"
        /\ Return(a, "transport")
  /\ conn' = [conn EXCEPT ![job[a].conn] = Forsake(a, [@ EXCEPT !.answer = None])]
  /\ UNCHANGED <<clients, starting, known, socket, manager, leaving, faults>>

(* Mutant: a call whose context ends returns and leaves the connection open. *)
WatchAbandons(a) ==
  /\ InCall(a)
  /\ job[a].expired
  /\ conn' = [conn EXCEPT ![job[a].conn] = Forsake(a, @)]
  /\ Return(a, "error")
  /\ UNCHANGED <<clients, starting, known, socket, manager, leaving, faults>>

(* The watcher of a call whose context ends closes the pipe and, a second   *)
(* later, kills the process group.                                          *)
Watch(a) ==
  /\ InCall(a)
  /\ job[a].expired
  /\ IF Conn(a).stdin = "open"
       THEN conn' = [conn EXCEPT ![job[a].conn].stdin = "closed"]
       ELSE Conn(a).proc # "gone" /\ conn' = [conn EXCEPT ![job[a].conn] = End(@)]
  /\ UNCHANGED <<clients, starting, known, socket, manager, leaving, job, faults>>

(* Deadlines are seconds: none passes in a queue while the call at its head *)
(* has only to write.                                                       *)
Expire(a) ==
  /\ a \in Workers
  /\ job[a].at \in {"await", "gate", "send", "receive"}
  /\ At(a, "gate") => \A b \in Workers : ~(At(b, "send") /\ Conn(a).gate = b)
  /\ ~job[a].expired
  /\ job' = [job EXCEPT ![a].expired = TRUE]
  /\ UNCHANGED <<conn, clients, starting, known, socket, manager, leaving, faults>>

-----------------------------------------------------------------------------
(* RunHostProtocol, on the host.                                            *)

Serve(c) ==
  /\ conn[c].proc = "up"
  /\ conn[c].request # None
  /\ conn[c].serving = None
  /\ conn' = [conn EXCEPT ![c].serving = conn[c].request, ![c].request = None]
  /\ UNCHANGED <<clients, starting, known, socket, manager, leaving, job, faults>>

(* A lost client cancels the request, which then ends with an error.        *)
Answer(c) ==
  /\ conn[c].proc = "up"
  /\ conn[c].serving # None
  /\ conn[c].answer = None
  /\ conn' = [conn EXCEPT ![c].serving = None, ![c].answer = conn[c].serving]
  /\ UNCHANGED <<clients, starting, known, socket, manager, leaving, job, faults>>

HostEnds(c) ==
  /\ conn[c].proc = "up"
  /\ conn[c].stdin # "open"
  /\ conn[c].request = None
  /\ conn[c].serving = None
  /\ conn' = [conn EXCEPT ![c] = End(@)]
  /\ UNCHANGED <<clients, starting, known, socket, manager, leaving, job, faults>>

(* The connection is lost, or the host no longer answers.                   *)
Break(c) ==
  /\ conn[c].proc # "gone"
  /\ Fault
  /\ \/ conn' = [conn EXCEPT ![c] = End(@)]
     \/ conn[c].proc = "up" /\ conn' = [conn EXCEPT ![c].proc = "hung"]
  /\ UNCHANGED <<clients, starting, known, socket, manager, leaving, job>>

-----------------------------------------------------------------------------
(* HostClient.Close, by whoever gives a client up; a second closer waits.   *)

Close(a) ==
  /\ At(a, "close")
  /\ \/ /\ Conn(a).closed
        /\ IF job[a].after = "idle" THEN Finish(a) ELSE Goto(a, job[a].after)
        /\ UNCHANGED conn
     \/ /\ ~Conn(a).closed
        /\ Conn(a).gate = None
        /\ conn' = [conn EXCEPT ![job[a].conn].gate = a, ![job[a].conn].stdin = "nil"]
        /\ Goto(a, "reap")
  /\ UNCHANGED <<clients, starting, known, socket, manager, leaving, faults>>

(* The process ends by itself within a second, or is killed.                *)
Reap(a) ==
  /\ At(a, "reap")
  /\ IF Conn(a).proc = "gone"
       THEN /\ conn' = [conn EXCEPT ![job[a].conn] = Gone]
            /\ IF job[a].after = "idle" THEN Finish(a) ELSE Goto(a, job[a].after)
       ELSE conn' = [conn EXCEPT ![job[a].conn] = End(@)] /\ UNCHANGED job
  /\ UNCHANGED <<clients, starting, known, socket, manager, leaving, faults>>

(* cleanupSSHControlPath: the path of the host, whoever listens on it.      *)
Sweep(a) ==
  /\ At(a, "sweep")
  /\ socket' = [socket EXCEPT ![job[a].host] = None]
  /\ Finish(a)
  /\ UNCHANGED <<conn, clients, starting, known, manager, leaving, faults>>

-----------------------------------------------------------------------------
(* Manager.client and the requests that use it.                             *)

Begin(a, kind, h) ==
  /\ a \in Workers
  /\ kind \in Duties[a]
  /\ job[a] = Idle
  /\ manager = "open"
  /\ known[h] = (kind # "add")
  /\ kind = "add" => \A b \in Workers : job[b].kind = "add" => job[b].host # h

(* Refresh and the actions of the user share the connection of the host.    *)
Request(a, kind, h) ==
  /\ Begin(a, kind, h)
  /\ kind \in {"refresh", "action"}
  /\ job' = [job EXCEPT ![a] = [Idle EXCEPT !.at = "client", !.kind = kind, !.host = h]]
  /\ UNCHANGED <<conn, clients, starting, known, socket, manager, leaving, faults>>

(* CleanupAll and AddHost start a connection of their own.                  *)
RequestOwn(a, kind, h) ==
  /\ Begin(a, kind, h)
  /\ kind \in {"cleanup", "add"}
  /\ job' = [job EXCEPT ![a] = [Idle EXCEPT !.at = "start", !.kind = kind, !.host = h,
                                            !.hello = TRUE, !.tracked = TRUE]]
  /\ UNCHANGED <<conn, clients, starting, known, socket, manager, leaving, faults>>

(* Mutant: a connection that is being started is not waited for.            *)
ClientImpatient(a) ==
  /\ At(a, "client")
  /\ LET h == job[a].host
     IN IF manager # "open" THEN Finish(a) /\ UNCHANGED starting
        ELSE IF clients[h] # None
          THEN /\ job' = [job EXCEPT ![a].at = "gate", ![a].conn = clients[h]]
               /\ UNCHANGED starting
        ELSE /\ starting' = [starting EXCEPT ![h] = a]
             /\ job' = [job EXCEPT ![a].at = "start", ![a].hello = TRUE, ![a].tracked = TRUE]
  /\ UNCHANGED <<conn, clients, known, socket, manager, leaving, faults>>

(* Mutant: who waits for a start does not look at its own context.          *)
ClientDeaf(a) ==
  /\ At(a, "client")
  /\ LET h == job[a].host
     IN IF manager # "open" THEN Finish(a) /\ UNCHANGED starting
        ELSE IF clients[h] # None
          THEN /\ job' = [job EXCEPT ![a].at = "gate", ![a].conn = clients[h]]
               /\ UNCHANGED starting
        ELSE IF starting[h] # None THEN Goto(a, "await") /\ UNCHANGED starting
        ELSE /\ starting' = [starting EXCEPT ![h] = a]
             /\ job' = [job EXCEPT ![a].at = "start", ![a].hello = TRUE, ![a].tracked = TRUE]
  /\ UNCHANGED <<conn, clients, known, socket, manager, leaving, faults>>

Client(a) ==
  /\ At(a, "client")
  /\ LET h == job[a].host
     IN IF manager # "open" THEN Finish(a) /\ UNCHANGED starting
        ELSE IF clients[h] # None
          THEN /\ job' = [job EXCEPT ![a].at = "gate", ![a].conn = clients[h]]
               /\ UNCHANGED starting
        ELSE IF starting[h] # None
          THEN /\ IF job[a].expired THEN Finish(a) ELSE Goto(a, "await")
               /\ UNCHANGED starting
        ELSE /\ starting' = [starting EXCEPT ![h] = a]
             /\ job' = [job EXCEPT ![a].at = "start", ![a].hello = TRUE, ![a].tracked = TRUE]
  /\ UNCHANGED <<conn, clients, known, socket, manager, leaving, faults>>

Await(a) ==
  /\ At(a, "await")
  /\ \/ starting[job[a].host] = None /\ Goto(a, "client")
     \/ job[a].expired /\ Finish(a)
  /\ UNCHANGED <<conn, clients, starting, known, socket, manager, leaving, faults>>

(* startHostClient up to the handshake.  The connection of a cleanup stays  *)
(* off the control socket.                                                  *)
Start(a) ==
  /\ At(a, "start")
  /\ \/ \E c \in Conns :
          /\ Unused(c)
          /\ conn' = [conn EXCEPT ![c] = Fresh(job[a].host)]
          /\ socket' = IF job[a].kind = "cleanup" THEN socket
                       ELSE [socket EXCEPT ![job[a].host] = c]
          /\ job' = [job EXCEPT ![a].at = "gate", ![a].conn = c]
          /\ UNCHANGED faults
     \/ /\ Fault
        /\ CASE job[a].kind = "add" -> Goto(a, "sweep")
             [] job[a].kind = "cleanup" -> Finish(a)
             [] OTHER -> Goto(a, "failed")
        /\ UNCHANGED <<conn, socket>>
  /\ UNCHANGED <<clients, starting, known, manager, leaving>>

(* validateHostHello refuses another protocol or an unverifiable build.  The *)
(* handshake has a deadline of its own, which ends with it.                 *)
Hello(a) ==
  /\ At(a, "checked")
  /\ \/ Return(a, "error")
     \/ \E late \in {job[a].expired, job[a].expired /\ manager # "open"} :
          job' = [job EXCEPT ![a].hello = FALSE, ![a].expired = late,
                    ![a].at = IF job[a].kind \in {"refresh", "action"} THEN "register" ELSE "gate"]
  /\ UNCHANGED <<conn, clients, starting, known, socket, manager, leaving, faults>>

(* Mutant: a client that came up during the close is registered.            *)
RegisterLate(a) ==
  /\ At(a, "register")
  /\ starting' = [starting EXCEPT ![job[a].host] = None]
  /\ clients' = [clients EXCEPT ![job[a].host] = job[a].conn]
  /\ job' = [job EXCEPT ![a].at = "gate", ![a].tracked = FALSE]
  /\ UNCHANGED <<conn, known, socket, manager, leaving, faults>>

Register(a) ==
  /\ At(a, "register")
  /\ starting' = [starting EXCEPT ![job[a].host] = None]
  /\ IF manager # "open" THEN CloseThen(a, "sweep") /\ UNCHANGED clients
     ELSE /\ clients' = [clients EXCEPT ![job[a].host] = job[a].conn]
          /\ job' = [job EXCEPT ![a].at = "gate", ![a].tracked = FALSE]
  /\ UNCHANGED <<conn, known, socket, manager, leaving, faults>>

Failed(a) ==
  /\ At(a, "failed")
  /\ socket' = [socket EXCEPT ![job[a].host] = None]
  /\ starting' = [starting EXCEPT ![job[a].host] = None]
  /\ Finish(a)
  /\ UNCHANGED <<conn, clients, known, manager, leaving, faults>>

(* AddHost, after the readiness check; a save that fails takes it back.     *)
Commit(a) ==
  /\ At(a, "commit")
  /\ LET h == job[a].host
     IN \/ /\ manager = "open"
           /\ known' = [known EXCEPT ![h] = TRUE]
           /\ clients' = [clients EXCEPT ![h] = job[a].conn]
           /\ Finish(a)
           /\ UNCHANGED faults
        \/ /\ CloseThen(a, "sweep")
           /\ IF manager = "open" THEN Fault ELSE UNCHANGED faults
           /\ UNCHANGED <<known, clients>>
  /\ UNCHANGED <<conn, starting, socket, manager, leaving>>

(* Mutant: Refresh forgets a client and does not close it.                  *)
DropOpen(a) ==
  /\ At(a, "drop")
  /\ clients' = [clients EXCEPT ![job[a].host] = IF @ = job[a].conn THEN None ELSE @]
  /\ Finish(a)
  /\ UNCHANGED <<conn, starting, known, socket, manager, leaving, faults>>

(* Mutant: Refresh closes a client and leaves it in the map.                *)
DropKeepsEntry(a) ==
  /\ At(a, "drop")
  /\ CloseThen(a, "idle")
  /\ UNCHANGED <<conn, clients, starting, known, socket, manager, leaving, faults>>

(* dropClient: the control path goes with the entry, not with the client.   *)
Drop(a) ==
  /\ At(a, "drop")
  /\ LET mine == clients[job[a].host] = job[a].conn
     IN /\ clients' = IF mine THEN [clients EXCEPT ![job[a].host] = None] ELSE clients
        /\ CloseThen(a, IF mine THEN "sweep" ELSE "idle")
  /\ UNCHANGED <<conn, starting, known, socket, manager, leaving, faults>>

-----------------------------------------------------------------------------
(* Manager.Close, and the next start of the editor.                         *)

(* Mutant: hosts without a client are collected too.                        *)
ShutdownWithGaps ==
  /\ manager = "open"
  /\ manager' = "waiting"
  /\ leaving' = {clients[h] : h \in Hosts}
  /\ clients' = [h \in Hosts |-> None]
  /\ job' = [a \in Actors |-> IF job[a] = Idle THEN Idle ELSE [job[a] EXCEPT !.expired = TRUE]]
  /\ UNCHANGED <<conn, starting, known, socket, faults>>

(* Every request's context descends from the manager's.                     *)
Shutdown ==
  /\ manager = "open"
  /\ manager' = "waiting"
  /\ leaving' = {clients[h] : h \in Hosts} \ {None}
  /\ clients' = [h \in Hosts |-> None]
  /\ job' = [a \in Actors |-> IF job[a] = Idle THEN Idle ELSE [job[a] EXCEPT !.expired = TRUE]]
  /\ UNCHANGED <<conn, starting, known, socket, faults>>

StartsDone ==
  /\ manager = "waiting"
  /\ \A a \in Workers : ~job[a].tracked
  /\ manager' = "closing"
  /\ UNCHANGED <<conn, clients, starting, known, socket, leaving, job, faults>>

(* Mutant: a client that is being closed stays on the list.                 *)
CloseNextKeeps ==
  /\ manager = "closing"
  /\ job[Closer] = Idle
  /\ \E c \in leaving :
       job' = [job EXCEPT ![Closer] = [Idle EXCEPT !.at = "close", !.kind = "shutdown", !.conn = c]]
  /\ UNCHANGED <<conn, clients, starting, known, socket, manager, leaving, faults>>

CloseNext ==
  /\ manager = "closing"
  /\ job[Closer] = Idle
  /\ \E c \in leaving :
       /\ leaving' = leaving \ {c}
       /\ job' = [job EXCEPT ![Closer] = [Idle EXCEPT !.at = "close", !.kind = "shutdown", !.conn = c]]
  /\ UNCHANGED <<conn, clients, starting, known, socket, manager, faults>>

(* cleanupSSHControlPaths, then the instance lock is released.              *)
Closed ==
  /\ manager = "closing"
  /\ leaving = {}
  /\ job[Closer] = Idle
  /\ socket' = [h \in Hosts |-> None]
  /\ manager' = "closed"
  /\ UNCHANGED <<conn, clients, starting, known, leaving, job, faults>>

(* NewManager, which needs the instance lock.  Workers of the editor that   *)
(* ends may still be under way, but not at its map.                         *)
Reopen ==
  /\ manager = "closed"
  /\ \A a \in Workers : job[a].at \notin {"client", "await"}
  /\ manager' = "open"
  /\ socket' = [h \in Hosts |-> None]
  /\ UNCHANGED <<conn, clients, starting, known, leaving, job, faults>>

-----------------------------------------------------------------------------

Init ==
  /\ conn = [c \in Conns |-> Gone]
  /\ clients = [h \in Hosts |-> None]
  /\ starting = [h \in Hosts |-> None]
  /\ known \in [Hosts -> BOOLEAN]
  /\ socket = [h \in Hosts |-> None]
  /\ manager = "open"
  /\ leaving = {}
  /\ job = [a \in Actors |-> Idle]
  /\ faults = 0

Advance(a) ==
  \/ GiveUp(a) \/ TakeGate(a) \/ Send(a) \/ Receive(a) \/ Watch(a)
  \/ Close(a) \/ Reap(a) \/ Sweep(a)
  \/ Client(a) \/ Await(a) \/ Start(a) \/ Hello(a) \/ Register(a) \/ Failed(a)
  \/ Commit(a) \/ Drop(a)

HostStep(c) == Serve(c) \/ Answer(c) \/ HostEnds(c)

ManagerStep == StartsDone \/ CloseNext \/ Closed

Next ==
  \/ \E a \in Workers, kind \in Kinds, h \in Hosts : Request(a, kind, h) \/ RequestOwn(a, kind, h)
  \/ \E a \in Actors : Advance(a) \/ Expire(a)
  \/ \E c \in Conns : HostStep(c) \/ Break(c)
  \/ ManagerStep \/ Shutdown \/ Reopen

Spec == Init /\ [][Next]_vars

(* Goroutines run, deadlines pass, hosts that do not hang work; a gate      *)
(* serves its queue in order; the screen refreshes every two seconds.       *)
Fairness ==
  /\ \A a \in Actors : WF_vars(Advance(a))
  /\ \A a \in Workers : SF_vars(TakeGate(a)) /\ SF_vars(Expire(a))
  /\ \A c \in Conns : WF_vars(HostStep(c))
  /\ \A h \in Hosts : WF_vars(\E a \in Workers : Request(a, "refresh", h))
  /\ WF_vars(ManagerStep)

LiveSpec == Spec /\ Fairness

-----------------------------------------------------------------------------
(* Properties.                                                              *)

(* An answer reaches the call that asked for it: no call ever finds the     *)
(* late answer of one that gave up before it on the same connection.        *)
AnswersAreOwn ==
  \A a \in Workers : At(a, "receive") => Conn(a).answer \in {None, a}

(* Whose hands a connection is in that the map does not hold: the goroutine *)
(* that starts it, closes it or uses it alone.                              *)
InHandsOf(c, a) ==
  /\ job[a].conn = c
  /\ \/ job[a].hello
     \/ job[a].at \in {"register", "commit", "close", "reap"}
     \/ job[a].kind \in {"cleanup", "add"}

(* No connection process is left to itself: as long as it runs, the map     *)
(* holds it or somebody is going to close or to register it.                *)
NothingLeaks ==
  \A c \in Conns : conn[c].proc # "gone" =>
    \/ \E h \in Hosts : clients[h] = c
    \/ c \in leaving
    \/ \E a \in Actors : InHandsOf(c, a)

(* There is one connection per host: of those that share the host's control *)
(* socket, at most one is usable and not being closed.                      *)
OneConnectionPerHost ==
  \A c, d \in Conns :
    /\ c # d
    /\ \A x \in {c, d} :
         /\ conn[x].proc # "gone" /\ conn[x].stdin = "open"
         /\ \A a \in Actors : job[a].conn = x => job[a].at # "close" /\ job[a].kind # "cleanup"
    => conn[c].host # conn[d].host

(* A close leaves nothing behind but what a refresh is closing already.     *)
CloseLeavesNothing ==
  manager = "closed" =>
    /\ \A h \in Hosts : clients[h] = None /\ starting[h] = None /\ socket[h] = None
    /\ \A c \in Conns : conn[c].proc # "gone" =>
         \E a \in Workers : job[a].conn = c /\ job[a].at \in {"close", "reap"}

Healthy(c) == conn[c].proc = "up" /\ conn[c].stdin = "open"

(* A host that was lost is reached again: a broken connection does not stay *)
(* in the map, whichever request noticed.                                   *)
Reconnects ==
  \A h \in Hosts, c \in Conns :
    clients[h] = c /\ ~Healthy(c) ~> clients[h] # c

(* Every request ends, also on a host that hangs, and so does the close.    *)
RequestsEnd == \A a \in Workers : job[a] # Idle ~> job[a] = Idle
CloseEnds == manager = "waiting" ~> manager = "closed"
=============================================================================
