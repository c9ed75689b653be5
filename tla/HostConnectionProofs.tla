------------------------ MODULE HostConnectionProofs ------------------------
(***************************************************************************)
(* The connections of the editor, for any number of hosts, workers and     *)
(* connection processes.  The invariant has one part per thing the code    *)
(* relies on: what a request may assume at its stage (JobsOK), who starts  *)
(* the connection of a host (StartsOK), who holds a call gate and what is  *)
(* then under way (GatesOK), whose a connection is that nobody shares      *)
(* (OwnersOK), what the map and the list of Close hold (MapOK), what each  *)
(* stage of Close has already ended (ManagerOK), and that every process    *)
(* that runs is held by somebody (NothingLeaks).                           *)
(***************************************************************************)
EXTENDS HostConnection, TLAPS

-----------------------------------------------------------------------------
(* The inductive invariant.                                                 *)

Live == {"gate", "send", "receive", "checked", "register", "commit"}
Using == Live \cup {"drop"}
Holding == Using \cup {"close", "reap"}

(* The goroutine of a shared connection's first start, until it has         *)
(* registered the connection or told those who wait that it failed.         *)
Starter(a) == job[a].kind \in {"refresh", "action"} /\ (job[a].hello \/ At(a, "register"))

(* The connection is this goroutine's alone.                                *)
Owner(a) == job[a].hello \/ At(a, "register") \/ job[a].kind \in {"cleanup", "add"}

(* What a request relies on at the stage it has reached.                    *)
JobOK(a) ==
  /\ At(a, "idle") => job[a] = Idle
  /\ a = Closer => /\ job[a].at \in {"idle", "close", "reap"} /\ job[a].after = "idle"
                   /\ job[a].kind \in {"none", "shutdown"}
                   /\ ~job[a].hello /\ ~job[a].tracked
  /\ a # Closer /\ ~At(a, "idle") =>
       /\ job[a].kind \in Kinds /\ job[a].host \in Hosts
       /\ known[job[a].host] <=> job[a].kind # "add"
  /\ job[a].at \in Holding => job[a].conn \in Conns
  /\ job[a].at \in {"client", "await"} =>
       job[a].kind \in {"refresh", "action"} /\ ~job[a].hello
  /\ job[a].at \in {"start", "client", "await"} => job[a].conn = None
  /\ job[a].at \in {"start", "checked"} => job[a].hello
  /\ At(a, "register") => job[a].kind \in {"refresh", "action"} /\ ~job[a].hello
  /\ At(a, "commit") => job[a].kind = "add"
  /\ At(a, "drop") => job[a].kind = "refresh" /\ ~job[a].hello
  /\ At(a, "sweep") => ~Starter(a)
  /\ At(a, "failed") => Starter(a)
  /\ job[a].at \in {"close", "reap"} => (Starter(a) <=> job[a].after = "failed")
  /\ job[a].at \in {"close", "reap"} /\ job[a].after = "sweep" => a # Closer
  /\ Owner(a) => job[a].tracked

JobsOK == \A a \in Actors : JobOK(a)

(* Manager.starting names who starts the connection of a host, and nobody   *)
(* starts one that is there; a host is added by one goroutine.              *)
StartsOK ==
  /\ \A a \in Workers, h \in Hosts : starting[h] = a <=> Starter(a) /\ job[a].host = h
  /\ \A h \in Hosts : starting[h] # None => clients[h] = None
  /\ \A a, b \in Workers : a # b /\ job[a].kind = "add" /\ job[b].kind = "add" =>
       job[a].host # job[b].host

(* The call gate of a connection, what is under way on it, and its holder.  *)
GateOK(c) ==
  /\ conn[c].gate # None =>
       job[conn[c].gate].conn = c /\ job[conn[c].gate].at \in {"send", "receive", "reap"}
  /\ \A m \in {conn[c].request, conn[c].serving, conn[c].answer} :
       m # None => conn[c].gate = m /\ At(m, "receive")
  /\ conn[c].request # None => conn[c].serving = None /\ conn[c].answer = None
  /\ conn[c].serving # None => conn[c].answer = None
  /\ conn[c].proc = "gone" => conn[c].request = None /\ conn[c].serving = None
  /\ conn[c].closed => /\ conn[c].proc = "gone" /\ conn[c].stdin = "nil"
                       /\ conn[c].answer = None /\ conn[c].host = None

GateHeld(a) ==
  /\ job[a].at \in {"send", "receive", "reap"} => Conn(a).gate = a
  /\ At(a, "reap") => Conn(a).stdin = "nil"

GatesOK == (\A c \in Conns : GateOK(c)) /\ (\A a \in Actors : GateHeld(a))

(* What its owner starts and closes is in no other hands; what is closed is *)
(* in nobody's map.                                                         *)
OwnersOK ==
  /\ \A a, b \in Actors : a # b /\ Owner(a) /\ job[a].conn # None => job[b].conn # job[a].conn
  /\ \A a \in Actors : Owner(a) => job[a].conn \notin leaving
  /\ \A a \in Actors : Owner(a) \/ job[a].at \in {"close", "reap"} =>
       \A h \in Hosts : clients[h] # None => clients[h] # job[a].conn
  /\ \A a \in Actors : job[a].at \in Using =>
       Conn(a).host = job[a].host \/ (~Owner(a) /\ Conn(a).closed)
  /\ \A a \in Actors : job[a].at \in {"sweep", "failed"} /\ job[a].conn # None => Conn(a).closed

(* The connections of the map and those that Close has taken out of it.     *)
MapOK ==
  /\ \A h \in Hosts : clients[h] # None => conn[clients[h]].host = h /\ known[h]
  /\ \A c \in leaving : ~conn[c].closed =>
       conn[c].host \in Hosts /\ known[conn[c].host] /\ starting[conn[c].host] = None
  /\ \A c, d \in leaving :
       c # d /\ ~conn[c].closed /\ ~conn[d].closed => conn[c].host # conn[d].host

ManagerOK ==
  /\ manager \in {"open", "closed"} => leaving = {}
  /\ manager # "open" => \A h \in Hosts : clients[h] = None
  /\ manager \in {"closing", "closed"} => \A a \in Workers : ~job[a].tracked
  /\ manager # "closing" => job[Closer] = Idle
  /\ manager = "closed" => \A h \in Hosts : socket[h] = None

IInv == TypeOK /\ JobsOK /\ StartsOK /\ GatesOK /\ OwnersOK /\ MapOK /\ ManagerOK /\ NothingLeaks

-----------------------------------------------------------------------------
(* What a step makes of the request of one actor.                           *)

USE DutiesAssumption, ActorAssumption, SentinelAssumption, FaultAssumption

Others(a) == \A b \in Actors \ {a} : job'[b] = job[b]
Hop(a) == job' \in [Actors -> Jobs] /\ Others(a)

(* The same request, at another stage.                                      *)
Same(a) ==
  /\ job'[a].kind = job[a].kind /\ job'[a].host = job[a].host /\ job'[a].conn = job[a].conn
  /\ job'[a].hello = job[a].hello /\ job'[a].tracked = job[a].tracked

(* The fields of a goroutine without a request.                             *)
LEMMA IdleFacts ==
  /\ Idle \in Jobs
  /\ Idle.at = "idle" /\ Idle.kind = "none" /\ Idle.host = None /\ Idle.conn = None
  /\ Idle.hello = FALSE /\ Idle.expired = FALSE /\ Idle.tracked = FALSE /\ Idle.after = "idle"
  BY DEF Idle, Jobs, Stages

(* The request moves on to another stage.                                   *)
LEMMA GotoFacts ==
  ASSUME TypeOK, NEW a \in Actors, NEW s \in Stages, Goto(a, s)
  PROVE  /\ Hop(a) /\ Same(a)
         /\ job'[a].at = s /\ job'[a].after = job[a].after /\ job'[a].expired = job[a].expired
  <1>1. job[a] \in Jobs /\ job' = [job EXCEPT ![a] = [job[a] EXCEPT !.at = s]]
    BY DEF TypeOK, Goto
  <1>2. [job[a] EXCEPT !.at = s] \in Jobs
    BY <1>1 DEF Jobs
  <1>3. job' \in [Actors -> Jobs] /\ job'[a] = [job[a] EXCEPT !.at = s] /\ Others(a)
    BY <1>1, <1>2 DEF TypeOK, Others
  <1> QED BY <1>1, <1>3 DEF Hop, Same, Jobs

(* The request closes its connection next.                                  *)
LEMMA CloseThenFacts ==
  ASSUME TypeOK, NEW a \in Actors, NEW after \in {"idle", "failed", "sweep"}, CloseThen(a, after)
  PROVE  /\ Hop(a) /\ Same(a)
         /\ job'[a].at = "close" /\ job'[a].after = after /\ job'[a].expired = job[a].expired
  <1>1. job[a] \in Jobs
    BY DEF TypeOK
  <1> DEFINE j == [job[a] EXCEPT !.at = "close", !.after = after]
  <1>2. j \in Jobs
    BY <1>1 DEF Jobs, Stages
  <1>3. job' = [job EXCEPT ![a] = j]
    BY DEF CloseThen
  <1>4. job' \in [Actors -> Jobs] /\ job'[a] = j /\ Others(a)
    BY <1>2, <1>3 DEF TypeOK, Others
  <1> QED BY <1>1, <1>4 DEF Hop, Same, Jobs

(* The request is over.                                                     *)
LEMMA FinishFacts ==
  ASSUME TypeOK, NEW a \in Actors, Finish(a)
  PROVE  Hop(a) /\ job'[a] = Idle
  BY IdleFacts DEF TypeOK, Finish, Hop, Others

(* Where a call returns to.                                                 *)
Returned(a) ==
  /\ Hop(a)
  /\ \/ job'[a] = Idle /\ ~job[a].hello /\ job[a].kind \in {"refresh", "action"}
     \/ /\ Same(a)
        /\ \/ job'[a].at = "checked" /\ job[a].hello
           \/ job'[a].at = "drop" /\ ~job[a].hello /\ job[a].kind = "refresh"
           \/ job'[a].at = "commit" /\ ~job[a].hello /\ job[a].kind = "add"
           \/ /\ job'[a].at = "close"
              /\ job[a].hello \/ job[a].kind \in {"cleanup", "add"}
              /\ job'[a].after = IF job[a].kind = "add" THEN "sweep"
                                 ELSE IF job[a].kind = "cleanup" THEN "idle" ELSE "failed"

(* A call returns to what its request asked it for.                         *)
LEMMA ReturnFacts ==
  ASSUME TypeOK, JobsOK, NEW a \in Actors, NEW result, Return(a, result),
         job[a].at \in {"gate", "send", "receive", "checked"}
  PROVE  Returned(a)
  <1>1. job[a].kind \in Kinds /\ job[a].hello \in BOOLEAN
    BY DEF TypeOK, Jobs, JobsOK, JobOK, At
  <1>2. CASE job[a].hello
    <2>1. CASE result = "ok"
      BY <1>2, <2>1, GotoFacts DEF Return, Returned, Stages
    <2>2. CASE result # "ok"
      <3> DEFINE after == IF job[a].kind = "add" THEN "sweep"
                          ELSE IF job[a].kind = "cleanup" THEN "idle" ELSE "failed"
      <3>1. CloseThen(a, after) /\ after \in {"idle", "failed", "sweep"}
        BY <1>2, <2>2 DEF Return
      <3> HIDE DEF after
      <3>2. Hop(a) /\ Same(a) /\ job'[a].at = "close" /\ job'[a].after = after
        BY <3>1, CloseThenFacts
      <3> QED BY <1>2, <3>2 DEF Returned, after
    <2> QED BY <2>1, <2>2
  <1>3. CASE ~job[a].hello
    <2>1. CASE job[a].kind = "refresh"
      BY <1>3, <2>1, GotoFacts, FinishFacts DEF Return, Returned, Stages
    <2>2. CASE job[a].kind = "action"
      BY <1>3, <2>2, FinishFacts DEF Return, Returned
    <2>3. CASE job[a].kind = "cleanup"
      BY <1>3, <2>3, CloseThenFacts DEF Return, Returned
    <2>4. CASE job[a].kind = "add"
      BY <1>3, <2>4, GotoFacts, CloseThenFacts DEF Return, Returned, Stages
    <2> QED BY <1>1, <2>1, <2>2, <2>3, <2>4 DEF Kinds
  <1> QED BY <1>1, <1>2, <1>3

-----------------------------------------------------------------------------
(* Frames: what a step of one actor has to show for each part.              *)

(* A request that is fine leaves all of them fine.                          *)
LEMMA JobsFrame ==
  ASSUME JobsOK, NEW a \in Actors, Hop(a), JobOK(a)', UNCHANGED known
  PROVE  JobsOK'
  BY DEF JobsOK, JobOK, Hop, Others, Starter, Owner, At

(* A step outside the starts of connections.                                *)
LEMMA StartsFrame ==
  ASSUME TypeOK, StartsOK, NEW a \in Actors, Hop(a), UNCHANGED starting,
         \A h \in Hosts : clients'[h] \in {clients[h], None},
         Starter(a)' <=> Starter(a),
         job'[a].kind = "add" => job[a].kind = "add",
         Starter(a) \/ job'[a].kind = "add" => job'[a].host = job[a].host
  PROVE  StartsOK'
  <1>1. ASSUME NEW b \in Actors
        PROVE  /\ Starter(b)' <=> Starter(b)
               /\ Starter(b) => job'[b].host = job[b].host
               /\ job'[b].kind = "add" => job[b].kind = "add" /\ job'[b].host = job[b].host
    BY DEF Hop, Others, Starter, At
  <1>2. \A b \in Workers : b \in Actors
    BY DEF Actors
  <1> QED BY <1>1, <1>2 DEF StartsOK

(* A step that touches one connection, the actor's own.                     *)
LEMMA GatesFrame ==
  ASSUME TypeOK, JobsOK, GatesOK, NEW a \in Actors, Hop(a), NEW c \in Conns,
         job[a].conn \in {c, None},
         \A d \in Conns \ {c} : conn'[d] = conn[d],
         conn[c].gate \in {None, a} \/ conn'[c] = conn[c],
         GateHeld(a)', GateOK(c)'
  PROVE  GatesOK'
  <1>1. ASSUME NEW d \in Conns, d # c
        PROVE  GateOK(d)'
    <2>1. conn'[d] = conn[d] /\ GateOK(d)
      BY <1>1 DEF GatesOK
    <2>2. conn[d].gate \in Actors \cup {None}
      BY DEF TypeOK, Connections
    <2>3. conn[d].gate # a
      BY <1>1, <2>1 DEF GateOK
    <2> QED BY <2>1, <2>2, <2>3 DEF GateOK, Hop, Others, At
  <1>2. ASSUME NEW b \in Actors, b # a
        PROVE  GateHeld(b)'
    <2>1. job'[b] = job[b] /\ GateHeld(b)
      BY <1>2 DEF GatesOK, Hop, Others
    <2>2. job[b].at \in {"send", "receive", "reap"} => job[b].conn \in Conns
      BY DEF JobsOK, JobOK, Holding, Using, Live
    <2>3. CASE job[b].conn = c /\ conn'[c] # conn[c]
      BY <1>2, <2>1, <2>3 DEF GateHeld, Conn, At
    <2>4. CASE job[b].conn # c \/ conn'[c] = conn[c]
      BY <2>1, <2>2, <2>4 DEF GateHeld, Conn, At
    <2> QED BY <2>3, <2>4
  <1>3. GateOK(c)' /\ GateHeld(a)'
    OBVIOUS
  <1> QED BY <1>1, <1>2, <1>3 DEF GatesOK

(* Connections keep their host and stay closed.                             *)
Lasting(c) == conn'[c].host = conn[c].host /\ (conn[c].closed => conn'[c].closed)

(* A step that puts no connection into new hands.                           *)
LEMMA OwnersFrame ==
  ASSUME TypeOK, JobsOK, OwnersOK, NEW a \in Actors, Hop(a),
         leaving' \subseteq leaving,
         \A h \in Hosts : clients'[h] \in {clients[h], None},
         Owner(a)' => Owner(a),
         job'[a].conn \in {job[a].conn, None},
         Owner(a)' \/ job'[a].at \in {"close", "reap"} =>
           \/ Owner(a) \/ job[a].at \in {"close", "reap"}
           \/ \A h \in Hosts : clients'[h] # None => clients'[h] # job[a].conn,
         job'[a].at \in Using =>
           /\ job[a].at \in Using /\ job'[a].host = job[a].host /\ job'[a].conn = job[a].conn
           /\ Owner(a)' <=> Owner(a),
         job'[a].at \in {"sweep", "failed"} /\ job'[a].conn # None =>
           conn'[job'[a].conn].closed,
         \A c \in Conns :
           \/ Lasting(c)
           \/ c = job[a].conn /\ conn'[c].closed /\ job'[a].at \notin Using
              /\ \A b \in Actors \ {a} : Owner(b) => job[b].conn # c
  PROVE  OwnersOK'
  <1>1. \A b \in Actors \ {a} : job'[b] = job[b] /\ (Owner(b)' <=> Owner(b))
    BY DEF Hop, Others, Owner, At
  <1>2. \A b, d \in Actors : b # d /\ Owner(b)' /\ job'[b].conn # None => job'[d].conn # job'[b].conn
    BY <1>1 DEF OwnersOK
  <1>3. \A b \in Actors : Owner(b)' => job'[b].conn \notin leaving'
    BY <1>1 DEF OwnersOK, TypeOK
  <1>4. \A b \in Actors : Owner(b)' \/ job'[b].at \in {"close", "reap"} =>
          \A h \in Hosts : clients'[h] # None => clients'[h] # job'[b].conn
    BY <1>1 DEF OwnersOK
  <1>5. \A b \in Actors : job'[b].at \in Using =>
          Conn(b)'.host = job'[b].host \/ (~Owner(b)' /\ Conn(b)'.closed)
    <2>1. ASSUME NEW b \in Actors, job'[b].at \in Using
          PROVE  /\ job[b].at \in Using /\ job'[b].host = job[b].host /\ job'[b].conn = job[b].conn
                 /\ Owner(b)' <=> Owner(b)
      BY <1>1, <2>1
    <2>2. ASSUME NEW b \in Actors, job[b].at \in Using
          PROVE  /\ job[b].conn \in Conns
                 /\ Conn(b).host = job[b].host \/ (~Owner(b) /\ Conn(b).closed)
      BY <2>2 DEF OwnersOK, JobsOK, JobOK, Holding
    <2> QED BY <2>1, <2>2 DEF Conn, Lasting
  <1>6. \A b \in Actors : job'[b].at \in {"sweep", "failed"} /\ job'[b].conn # None => Conn(b)'.closed
    BY <1>1 DEF OwnersOK, Conn, Lasting, TypeOK, Jobs
  <1> QED BY <1>2, <1>3, <1>4, <1>5, <1>6 DEF OwnersOK

(* A step that adds nothing to the map.                                     *)
LEMMA MapFrame ==
  ASSUME TypeOK, MapOK, UNCHANGED known, leaving' \subseteq leaving,
         \A h \in Hosts : clients'[h] \in {clients[h], None},
         \A h \in Hosts : starting'[h] \in {starting[h], None},
         \A c \in Conns :
           Lasting(c) \/ (conn'[c].closed /\ \A h \in Hosts : clients[h] # c)
  PROVE  MapOK'
  <1>1. \A h \in Hosts : clients'[h] # None => conn'[clients'[h]].host = h /\ known'[h]
    BY DEF MapOK, Lasting, TypeOK
  <1>2. \A c \in leaving' : ~conn'[c].closed =>
          conn'[c].host \in Hosts /\ known'[conn'[c].host] /\ starting'[conn'[c].host] = None
    BY DEF MapOK, Lasting, TypeOK
  <1>3. \A c, d \in leaving' :
          c # d /\ ~conn'[c].closed /\ ~conn'[d].closed => conn'[c].host # conn'[d].host
    BY DEF MapOK, Lasting, TypeOK
  <1> QED BY <1>1, <1>2, <1>3 DEF MapOK

(* A step under a manager that neither opens nor closes.                    *)
LEMMA ManagerFrame ==
  ASSUME TypeOK, ManagerOK, NEW a \in Actors, Hop(a), UNCHANGED manager,
         leaving' \subseteq leaving,
         \A h \in Hosts : clients'[h] \in {clients[h], None},
         job'[a].tracked => job[a].tracked,
         job[a] = Idle => job'[a] = Idle,
         manager = "closed" => \A h \in Hosts : socket'[h] = None
  PROVE  ManagerOK'
  <1>1. \A b \in Workers : b \in Actors
    BY DEF Actors
  <1> QED BY <1>1 DEF ManagerOK, Hop, Others, Actors

(* A step that lets go of no running connection.                            *)
LEMMA LeaksFrame ==
  ASSUME NothingLeaks, NEW a \in Actors, Hop(a), UNCHANGED leaving,
         \A c \in Conns : conn'[c].proc # "gone" =>
           /\ conn[c].proc # "gone"
           /\ InHandsOf(c, a) => InHandsOf(c, a)' \/ \E h \in Hosts : clients'[h] = c
           /\ \A h \in Hosts : clients[h] = c => clients'[h] = c \/ InHandsOf(c, a)'
  PROVE  NothingLeaks'
  <1>1. \A b \in Actors \ {a}, c \in Conns : InHandsOf(c, b) => InHandsOf(c, b)'
    BY DEF Hop, Others, InHandsOf
  <1> QED BY <1>1 DEF NothingLeaks

-----------------------------------------------------------------------------
(* The steps of a call.                                                     *)

Calm(c) ==
  /\ conn'[c].host = conn[c].host /\ conn'[c].closed = conn[c].closed
  /\ conn'[c].proc = conn[c].proc

Rest == JobsOK /\ StartsOK /\ OwnersOK /\ MapOK /\ ManagerOK /\ NothingLeaks

(* A call that returns disturbs no more than its gate.                      *)
LEMMA ReturnedKeepsRest ==
  ASSUME IInv, NEW a \in Actors, Returned(a),
         job[a].at \in {"gate", "send", "receive", "checked"},
         \A c \in Conns : Calm(c),
         UNCHANGED <<clients, starting, known, socket, manager, leaving>>
  PROVE  Rest'
  <1> USE DEF IInv
  <1>1. Hop(a) /\ JobOK(a) /\ job[a] \in Jobs /\ job[a].conn \in Conns /\ a # Closer
    BY DEF Returned, JobsOK, JobOK, TypeOK, Holding, Using, Live
  <1>2. JobOK(a)'
    BY <1>1, IdleFacts DEF Returned, Same, JobOK, At, Starter, Owner, Holding, Using, Live, Kinds, Jobs
  <1>3. JobsOK'
    BY <1>1, <1>2, JobsFrame
  <1>4. StartsOK'
    <2>1. Starter(a)' <=> Starter(a)
      BY <1>1, IdleFacts DEF Returned, Same, JobOK, At, Starter
    <2>2. job'[a].kind = "add" => job[a].kind = "add"
      BY IdleFacts DEF Returned, Same
    <2>3. Starter(a) \/ job'[a].kind = "add" => job'[a].host = job[a].host
      BY <1>1, IdleFacts DEF Returned, Same, Starter, At
    <2> QED BY <1>1, <2>1, <2>2, <2>3, StartsFrame
  <1>5. OwnersOK'
    <2>1. Owner(a)' => Owner(a) /\ Same(a)
      BY <1>1, IdleFacts DEF Returned, Same, JobOK, At, Owner
    <2>2. job'[a].at \in {"close", "reap"} => Owner(a)
      BY <1>1, IdleFacts DEF Returned, Same, JobOK, At, Owner
    <2>3. job'[a].conn \in {job[a].conn, None} /\ job'[a].at \notin {"sweep", "failed"}
      BY <1>1, IdleFacts DEF Returned, Same
    <2>4. \A c \in Conns : Lasting(c)
      BY DEF Calm, Lasting
    <2>5. job'[a].at \in Using => Same(a) /\ (Owner(a)' <=> Owner(a)) /\ job[a].at \in Using
      BY <1>1, IdleFacts DEF Returned, Same, Owner, At, Using, Live
    <2> QED BY <1>1, <2>1, <2>2, <2>3, <2>4, <2>5, OwnersFrame DEF Same
  <1>6. MapOK'
    BY MapFrame DEF Calm, Lasting
  <1>7. ManagerOK'
    BY <1>1, IdleFacts, ManagerFrame DEF Returned, Same, ManagerOK
  <1>8. NothingLeaks'
    <2>1. \A c \in Conns : InHandsOf(c, a) => InHandsOf(c, a)'
      BY <1>1, IdleFacts DEF Returned, Same, InHandsOf, JobOK, At
    <2> QED BY <1>1, <2>1, LeaksFrame DEF Calm
  <1> QED BY <1>3, <1>4, <1>5, <1>6, <1>7, <1>8 DEF Rest

(* What a call that gives up makes of its connection.                       *)
LEMMA ForsakeFacts ==
  ASSUME NEW a \in Actors, NEW r \in Connections, NEW f, f = Forsake(a, r)
  PROVE  /\ f \in Connections
         /\ f.host = r.host /\ f.closed = r.closed /\ f.proc = r.proc /\ f.stdin = r.stdin
         /\ f.gate = None
         /\ f.request = IF r.request = a THEN Stale ELSE r.request
         /\ f.serving = IF r.serving = a THEN Stale ELSE r.serving
         /\ f.answer = IF r.answer = a THEN Stale ELSE r.answer
  BY DEF Forsake, Connections, Senders

(* What the end of its process makes of a connection.                       *)
LEMMA EndFacts ==
  ASSUME NEW r \in Connections, NEW f, f = End(r)
  PROVE  /\ f \in Connections
         /\ f.host = r.host /\ f.closed = r.closed /\ f.proc = "gone" /\ f.stdin = r.stdin
         /\ f.gate = r.gate /\ f.request = None /\ f.serving = None /\ f.answer = r.answer
  BY DEF End, Connections, Senders

(* A context that ends in the queue of the gate.                            *)
LEMMA GiveUpKeeps ==
  ASSUME IInv, NEW a \in Actors, GiveUp(a)
  PROVE  IInv'
  <1> USE DEF IInv
  <1>1. Returned(a)
    BY ReturnFacts DEF GiveUp, At
  <1>2. Rest'
    BY <1>1, ReturnedKeepsRest DEF GiveUp, At, Calm
  <1>3. TypeOK'
    BY <1>1 DEF Returned, Hop, TypeOK, GiveUp
  <1>4. GatesOK'
    <2>1. PICK c \in Conns : c = job[a].conn
      BY DEF JobsOK, JobOK, GiveUp, At, Holding, Using, Live
    <2>2. GateHeld(a)'
      BY <1>1, IdleFacts DEF Returned, GateHeld, At
    <2>3. GateOK(c)'
      <3>1. conn[c].gate \in Actors \cup {None}
        BY DEF TypeOK, Connections
      <3> QED BY <1>1, <2>1, <3>1 DEF GiveUp, GatesOK, GateOK, Returned, Hop, Others, At
    <2> QED BY <1>1, <2>1, <2>2, <2>3, GatesFrame DEF GiveUp, Returned
  <1> QED BY <1>2, <1>3, <1>4 DEF Rest

(* A call takes the gate: nothing is under way then.                        *)
LEMMA TakeGateKeeps ==
  ASSUME IInv, NEW a \in Actors, TakeGate(a)
  PROVE  IInv'
  <1> USE DEF IInv
  <1>0. PICK c \in Conns : c = job[a].conn
    BY DEF JobsOK, JobOK, TakeGate, At, Holding, Using, Live
  <1>1. /\ At(a, "gate") /\ JobOK(a) /\ a # Closer
        /\ conn[c] \in Connections /\ conn[c].gate = None
    BY <1>0 DEF JobsOK, JobOK, TakeGate, At, Conn, TypeOK
  <1>2. Hop(a) /\ Same(a) /\ job'[a].at = "send" /\ job'[a].after = job[a].after
    BY GotoFacts DEF TakeGate, Stages
  <1>3. /\ conn' \in [Conns -> Connections]
        /\ conn'[c] = [conn[c] EXCEPT !.gate = a]
        /\ \A d \in Conns \ {c} : conn'[d] = conn[d]
    <2>1. [conn[c] EXCEPT !.gate = a] \in Connections
      BY <1>1 DEF Connections
    <2>2. conn' = [conn EXCEPT ![c] = [conn[c] EXCEPT !.gate = a]]
      BY <1>0 DEF TakeGate
    <2> QED BY <1>1, <2>1, <2>2 DEF TypeOK
  <1>4. \A d \in Conns : Calm(d)
    BY <1>1, <1>3 DEF Calm, Connections
  <1>5. TypeOK'
    BY <1>2, <1>3 DEF TypeOK, TakeGate, Hop
  <1>6. JobsOK'
    BY <1>1, <1>2, JobsFrame DEF Same, JobOK, At, Starter, Owner, Holding, Using, Live, TakeGate
  <1>7. StartsOK'
    BY <1>1, <1>2, StartsFrame DEF Same, Starter, At, TakeGate
  <1>8. GatesOK'
    <2>1. GateHeld(a)'
      BY <1>0, <1>1, <1>2, <1>3 DEF GateHeld, At, Conn, Same, Connections
    <2>2. GateOK(c)'
      BY <1>0, <1>1, <1>2, <1>3 DEF GateOK, GatesOK, At, Conn, Same, Connections
    <2> QED BY <1>0, <1>1, <1>2, <1>3, <2>1, <2>2, GatesFrame
  <1>9. OwnersOK'
    BY <1>1, <1>2, <1>4, OwnersFrame DEF Same, Owner, Calm, Lasting, Using, Live, At, TakeGate
  <1>10. MapOK'
    BY <1>4, MapFrame DEF Calm, Lasting, TakeGate
  <1>11. ManagerOK'
    BY <1>1, <1>2, IdleFacts, ManagerFrame DEF Same, ManagerOK, At, TakeGate
  <1>12. NothingLeaks'
    BY <1>1, <1>2, <1>4, LeaksFrame DEF Same, InHandsOf, Calm, At, TakeGate
  <1> QED BY <1>5, <1>6, <1>7, <1>8, <1>9, <1>10, <1>11, <1>12

(* A call that gives its gate up leaves nothing under way.                  *)
LEMMA ForsakenKeeps ==
  ASSUME IInv, NEW a \in Actors, job[a].at \in {"send", "receive"}, Returned(a),
         NEW r \in Connections, conn' = [conn EXCEPT ![job[a].conn] = Forsake(a, r)],
         r.host = Conn(a).host, r.closed = Conn(a).closed, r.proc = Conn(a).proc,
         r.stdin = Conn(a).stdin, r.request = None, r.serving = None, r.answer = None,
         UNCHANGED <<clients, starting, known, socket, manager, leaving, faults>>
  PROVE  IInv'
  <1> USE DEF IInv
  <1>0. PICK c \in Conns : c = job[a].conn
    BY DEF JobsOK, JobOK, Holding, Using, Live
  <1>1. /\ conn' \in [Conns -> Connections] /\ conn'[c] = Forsake(a, r)
        /\ \A d \in Conns \ {c} : conn'[d] = conn[d]
    BY <1>0, ForsakeFacts DEF TypeOK
  <1>2. \A d \in Conns : Calm(d)
    BY <1>0, <1>1, ForsakeFacts DEF Calm, Conn
  <1>3. Rest'
    BY <1>2, ReturnedKeepsRest
  <1>4. TypeOK'
    BY <1>1 DEF Returned, Hop, TypeOK
  <1>5. GatesOK'
    <2>1. GateHeld(a)'
      BY IdleFacts DEF Returned, GateHeld, At
    <2>2. GateOK(c) /\ GateHeld(a) /\ conn[c].gate = a
      BY <1>0 DEF GatesOK, GateHeld, Conn
    <2>3. GateOK(c)'
      <3>1. /\ conn'[c].gate = None /\ conn'[c].request = None /\ conn'[c].serving = None
            /\ conn'[c].answer = None
            /\ conn'[c].closed =>
                 conn'[c].proc = "gone" /\ conn'[c].stdin = "nil" /\ conn'[c].host = None
        BY <1>0, <1>1, <2>2, ForsakeFacts DEF Conn, GateOK, At
      <3> QED BY <3>1 DEF GateOK
    <2> QED BY <1>0, <1>1, <2>1, <2>2, <2>3, GatesFrame DEF Returned
  <1> QED BY <1>3, <1>4, <1>5 DEF Rest

(* A call writes its request, or gives the gate up.                         *)
LEMMA SendKeeps ==
  ASSUME IInv, NEW a \in Actors, Send(a)
  PROVE  IInv'
  <1> USE DEF IInv
  <1>0. PICK c \in Conns : c = job[a].conn
    BY DEF JobsOK, JobOK, Send, At, Holding, Using, Live
  <1>1. /\ At(a, "send") /\ JobOK(a) /\ a \in Workers
        /\ conn[c] \in Connections /\ conn[c].gate = a /\ GateOK(c)
    BY <1>0 DEF JobsOK, JobOK, Send, At, Conn, TypeOK, Actors, GatesOK, GateHeld
  <1>2. conn[c].request = None /\ conn[c].serving = None /\ conn[c].answer = None
    BY <1>1 DEF GateOK, At
  <1>3. CASE Conn(a).stdin = "open" /\ Conn(a).proc # "gone"
             /\ conn' = [conn EXCEPT ![job[a].conn].request = a] /\ Goto(a, "receive")
    <2>1. Hop(a) /\ Same(a) /\ job'[a].at = "receive" /\ job'[a].after = job[a].after
      BY <1>3, GotoFacts DEF Stages
    <2>2. /\ conn' \in [Conns -> Connections]
          /\ conn'[c] = [conn[c] EXCEPT !.request = a]
          /\ \A d \in Conns \ {c} : conn'[d] = conn[d]
      <3>1. [conn[c] EXCEPT !.request = a] \in Connections
        BY <1>1 DEF Connections, Senders
      <3>2. conn' = [conn EXCEPT ![c] = [conn[c] EXCEPT !.request = a]]
        BY <1>0, <1>3
      <3> QED BY <3>1, <3>2 DEF TypeOK
    <2>3. \A d \in Conns : Calm(d)
      BY <1>1, <2>2 DEF Calm, Connections
    <2>4. TypeOK'
      BY <2>1, <2>2 DEF TypeOK, Send, Hop
    <2>5. JobsOK'
      BY <1>1, <2>1, JobsFrame DEF Same, JobOK, At, Starter, Owner, Holding, Using, Live, Send
    <2>6. StartsOK'
      BY <1>1, <2>1, StartsFrame DEF Same, Starter, At, Send
    <2>7. GatesOK'
      <3>1. GateHeld(a)'
        BY <1>0, <1>1, <2>1, <2>2 DEF GateHeld, At, Conn, Same, Connections
      <3>2. GateOK(c)'
        BY <1>0, <1>1, <1>2, <1>3, <2>1, <2>2 DEF GateOK, At, Conn, Same, Connections
      <3> QED BY <1>0, <1>1, <2>1, <2>2, <3>1, <3>2, GatesFrame
    <2>8. OwnersOK'
      BY <1>1, <2>1, <2>3, OwnersFrame DEF Same, Owner, Calm, Lasting, Using, Live, At, Send
    <2>9. MapOK'
      BY <2>3, MapFrame DEF Calm, Lasting, Send
    <2>10. ManagerOK'
      BY <1>1, <2>1, IdleFacts, ManagerFrame DEF Same, ManagerOK, At, Send
    <2>11. NothingLeaks'
      BY <1>1, <2>1, <2>3, LeaksFrame DEF Same, InHandsOf, Calm, At, Send
    <2> QED BY <2>4, <2>5, <2>6, <2>7, <2>8, <2>9, <2>10, <2>11
  <1>4. CASE conn' = [conn EXCEPT ![job[a].conn] = Forsake(a, @)]
             /\ \E result : Return(a, result)
    <2>1. Returned(a)
      BY <1>1, <1>4, ReturnFacts DEF At
    <2>2. conn' = [conn EXCEPT ![job[a].conn] = Forsake(a, conn[c])]
      BY <1>0, <1>4
    <2> QED BY <1>0, <1>1, <1>2, <2>1, <2>2, ForsakenKeeps DEF Send, At, Conn
  <1> QED BY <1>3, <1>4 DEF Send

(* A call reads an answer, or the end of the stream, and gives the gate up. *)
LEMMA ReceiveKeeps ==
  ASSUME IInv, NEW a \in Actors, Receive(a)
  PROVE  IInv'
  <1> USE DEF IInv
  <1>0. PICK c \in Conns : c = job[a].conn
    BY DEF JobsOK, JobOK, Receive, At, Holding, Using, Live
  <1>1. /\ At(a, "receive") /\ JobOK(a)
        /\ conn[c] \in Connections /\ conn[c].gate = a /\ GateOK(c)
    BY <1>0 DEF JobsOK, JobOK, Receive, At, Conn, TypeOK, GatesOK, GateHeld
  <1>2. conn[c].request = None /\ conn[c].serving = None
    BY <1>0, <1>1 DEF GateOK, At, Receive, Conn
  <1>3. Returned(a)
    BY <1>1, ReturnFacts DEF Receive, At
  <1> DEFINE r == [conn[c] EXCEPT !.answer = None]
  <1>4. /\ r \in Connections /\ r.host = conn[c].host /\ r.closed = conn[c].closed
        /\ r.proc = conn[c].proc /\ r.stdin = conn[c].stdin
        /\ r.request = None /\ r.serving = None /\ r.answer = None
    BY <1>1, <1>2 DEF Connections, Senders
  <1>5. conn' = [conn EXCEPT ![job[a].conn] = Forsake(a, r)]
    BY <1>0 DEF Receive
  <1> HIDE DEF r
  <1> QED BY <1>0, <1>1, <1>3, <1>4, <1>5, ForsakenKeeps DEF Receive, At, Conn

(* The watcher of a call, the host and the network change a connection and  *)
(* no request.                                                              *)
LEMMA ConnectionFrame ==
  ASSUME IInv, NEW c \in Conns, NEW r \in Connections, conn' = [conn EXCEPT ![c] = r],
         r.host = conn[c].host, r.closed = conn[c].closed, r.gate = conn[c].gate,
         r.proc # "gone" => conn[c].proc # "gone",
         conn[c].stdin = "nil" => r.stdin = "nil",
         GateOK(c)',
         UNCHANGED <<clients, starting, known, socket, manager, leaving, job>>,
         faults' \in 0..MaxFaults
  PROVE  IInv'
  <1> USE DEF IInv
  <1>1. /\ conn' \in [Conns -> Connections] /\ conn'[c] = r
        /\ \A d \in Conns \ {c} : conn'[d] = conn[d]
    BY DEF TypeOK
  <1>2. TypeOK'
    BY <1>1 DEF TypeOK
  <1>3. JobsOK' /\ StartsOK' /\ ManagerOK'
    BY DEF JobsOK, JobOK, StartsOK, ManagerOK, At, Starter, Owner
  <1>4. GatesOK'
    <2>1. \A d \in Conns \ {c} : GateOK(d)'
      BY <1>1 DEF GatesOK, GateOK, At
    <2>2. \A a \in Actors : GateHeld(a)'
      BY <1>1 DEF GatesOK, GateHeld, At, Conn
    <2> QED BY <2>1, <2>2 DEF GatesOK
  <1>5. \A d \in Conns : Lasting(d)
    BY <1>1 DEF Lasting
  <1>6. OwnersOK'
    <2>1. \A a \in Actors : job[a].at \in Using =>
            \/ conn'[job[a].conn].host = job[a].host
            \/ ~Owner(a) /\ conn'[job[a].conn].closed
      BY <1>5 DEF OwnersOK, Lasting, Conn, JobsOK, JobOK, Holding
    <2>2. \A a \in Actors : job[a].at \in {"sweep", "failed"} /\ job[a].conn # None =>
            conn'[job[a].conn].closed
      BY <1>5 DEF OwnersOK, Lasting, Conn, TypeOK, Jobs
    <2> QED BY <2>1, <2>2 DEF OwnersOK, Owner, At, Conn
  <1>7. MapOK'
    BY <1>5, MapFrame
  <1>8. NothingLeaks'
    BY <1>1 DEF NothingLeaks, InHandsOf
  <1> QED BY <1>2, <1>3, <1>4, <1>6, <1>7, <1>8

(* The process of a connection ends.                                        *)
LEMMA EndKeeps ==
  ASSUME IInv, NEW c \in Conns, conn' = [conn EXCEPT ![c] = End(conn[c])],
         UNCHANGED <<clients, starting, known, socket, manager, leaving, job>>,
         faults' \in 0..MaxFaults
  PROVE  IInv'
  <1>1. conn[c] \in Connections /\ GateOK(c)
    BY DEF IInv, TypeOK, GatesOK
  <1>2. PICK r \in Connections : r = End(conn[c])
    BY <1>1, EndFacts
  <1>3. /\ r.host = conn[c].host /\ r.closed = conn[c].closed /\ r.gate = conn[c].gate
        /\ r.proc = "gone" /\ r.stdin = conn[c].stdin
        /\ r.request = None /\ r.serving = None /\ r.answer = conn[c].answer
    BY <1>1, <1>2, EndFacts
  <1>4. conn'[c] = r
    BY <1>2 DEF IInv, TypeOK
  <1>5. GateOK(c)'
    BY <1>1, <1>3, <1>4 DEF GateOK, At
  <1> QED BY <1>2, <1>3, <1>5, ConnectionFrame

(* The watcher closes the pipe or kills the process under its own call.     *)
LEMMA WatchKeeps ==
  ASSUME IInv, NEW a \in Actors, Watch(a)
  PROVE  IInv'
  <1> USE DEF IInv
  <1>0. PICK c \in Conns : c = job[a].conn
    BY DEF JobsOK, JobOK, Watch, InCall, Holding, Using, Live
  <1>1. conn[c] \in Connections /\ GateOK(c) /\ faults \in 0..MaxFaults /\ UNCHANGED faults
    BY DEF TypeOK, GatesOK, Watch
  <1>2. CASE Conn(a).stdin = "open"
    <2> DEFINE r == [conn[c] EXCEPT !.stdin = "closed"]
    <2>1. conn' = [conn EXCEPT ![c] = r]
      BY <1>0, <1>2 DEF Watch
    <2>2. /\ r \in Connections /\ r.host = conn[c].host /\ r.closed = conn[c].closed
          /\ r.gate = conn[c].gate /\ r.proc = conn[c].proc /\ r.stdin = "closed"
          /\ r.request = conn[c].request /\ r.serving = conn[c].serving /\ r.answer = conn[c].answer
      BY <1>1 DEF Connections
    <2> HIDE DEF r
    <2>3. conn'[c] = r /\ ~conn[c].closed /\ conn[c].stdin = "open"
      BY <1>0, <1>1, <1>2, <2>1 DEF TypeOK, GateOK, Conn
    <2>4. GateOK(c)'
      BY <1>1, <2>2, <2>3 DEF GateOK, Watch, At
    <2> QED BY <1>1, <2>1, <2>2, <2>3, <2>4, ConnectionFrame DEF Watch
  <1>3. CASE Conn(a).stdin # "open"
    <2>1. conn' = [conn EXCEPT ![c] = End(conn[c])]
      BY <1>0, <1>3 DEF Watch
    <2> QED BY <1>1, <2>1, EndKeeps DEF Watch
  <1> QED BY <1>2, <1>3

(* The host reads the one request that was written.                         *)
LEMMA ServeKeeps ==
  ASSUME IInv, NEW c \in Conns, Serve(c)
  PROVE  IInv'
  <1>1. conn[c] \in Connections /\ GateOK(c) /\ faults \in 0..MaxFaults
    BY DEF IInv, TypeOK, GatesOK
  <1> DEFINE r == [conn[c] EXCEPT !.serving = conn[c].request, !.request = None]
  <1>2. conn' = [conn EXCEPT ![c] = r]
    BY DEF Serve
  <1>3. /\ r \in Connections /\ r.host = conn[c].host /\ r.closed = conn[c].closed
        /\ r.gate = conn[c].gate /\ r.proc = conn[c].proc /\ r.stdin = conn[c].stdin
        /\ r.request = None /\ r.serving = conn[c].request /\ r.answer = conn[c].answer
    BY <1>1 DEF Connections, Senders
  <1> HIDE DEF r
  <1>4. conn'[c] = r
    BY <1>2 DEF IInv, TypeOK
  <1>5. GateOK(c)'
    BY <1>1, <1>3, <1>4 DEF GateOK, Serve, At
  <1> QED BY <1>1, <1>2, <1>3, <1>5, ConnectionFrame DEF Serve

(* The host answers the one request it executes.                            *)
LEMMA AnswerKeeps ==
  ASSUME IInv, NEW c \in Conns, Answer(c)
  PROVE  IInv'
  <1>1. conn[c] \in Connections /\ GateOK(c) /\ faults \in 0..MaxFaults
    BY DEF IInv, TypeOK, GatesOK
  <1> DEFINE r == [conn[c] EXCEPT !.serving = None, !.answer = conn[c].serving]
  <1>2. conn' = [conn EXCEPT ![c] = r]
    BY DEF Answer
  <1>3. /\ r \in Connections /\ r.host = conn[c].host /\ r.closed = conn[c].closed
        /\ r.gate = conn[c].gate /\ r.proc = conn[c].proc /\ r.stdin = conn[c].stdin
        /\ r.request = conn[c].request /\ r.serving = None /\ r.answer = conn[c].serving
    BY <1>1 DEF Connections, Senders
  <1> HIDE DEF r
  <1>4. conn'[c] = r
    BY <1>2 DEF IInv, TypeOK
  <1>5. GateOK(c)'
    BY <1>1, <1>3, <1>4 DEF GateOK, Answer, At
  <1> QED BY <1>1, <1>2, <1>3, <1>5, ConnectionFrame DEF Answer

(* The host ends, dies or hangs.                                            *)
LEMMA BreakKeeps ==
  ASSUME IInv, NEW c \in Conns, HostEnds(c) \/ Break(c)
  PROVE  IInv'
  <1>1. conn[c] \in Connections /\ GateOK(c) /\ faults' \in 0..MaxFaults
    BY DEF IInv, TypeOK, GatesOK, HostEnds, Break, Fault
  <1>2. CASE conn' = [conn EXCEPT ![c] = End(@)]
    BY <1>1, <1>2, EndKeeps DEF HostEnds, Break
  <1>3. CASE conn' = [conn EXCEPT ![c].proc = "hung"] /\ Break(c)
    <2> DEFINE r == [conn[c] EXCEPT !.proc = "hung"]
    <2>1. conn' = [conn EXCEPT ![c] = r]
      BY <1>3
    <2>2. /\ r \in Connections /\ r.host = conn[c].host /\ r.closed = conn[c].closed
          /\ r.gate = conn[c].gate /\ r.proc = "hung" /\ r.stdin = conn[c].stdin
          /\ r.request = conn[c].request /\ r.serving = conn[c].serving /\ r.answer = conn[c].answer
      BY <1>1 DEF Connections
    <2> HIDE DEF r
    <2>3. conn'[c] = r
      BY <2>1 DEF IInv, TypeOK
    <2>4. GateOK(c)'
      BY <1>1, <1>3, <2>2, <2>3 DEF GateOK, Break, At
    <2> QED BY <1>1, <1>3, <2>1, <2>2, <2>4, ConnectionFrame DEF Break
  <1> QED BY <1>2, <1>3 DEF HostEnds, Break

(* A deadline passes.                                                       *)
LEMMA ExpireKeeps ==
  ASSUME IInv, NEW a \in Actors, Expire(a)
  PROVE  IInv'
  <1> USE DEF IInv
  <1>1. /\ Hop(a) /\ Same(a) /\ job'[a].at = job[a].at /\ job'[a].after = job[a].after
        /\ a # Closer /\ ~At(a, "idle") /\ job[a].at \notin {"close", "reap", "sweep", "failed"}
    <2>1. job[a] \in Jobs /\ job' = [job EXCEPT ![a] = [job[a] EXCEPT !.expired = TRUE]]
      BY DEF TypeOK, Expire
    <2>2. [job[a] EXCEPT !.expired = TRUE] \in Jobs
      BY <2>1 DEF Jobs
    <2>3. job' \in [Actors -> Jobs] /\ job'[a] = [job[a] EXCEPT !.expired = TRUE] /\ Others(a)
      BY <2>1, <2>2 DEF TypeOK, Others
    <2> QED BY <2>1, <2>3 DEF Hop, Same, Jobs, Expire, At
  <1>2. TypeOK'
    BY <1>1 DEF TypeOK, Hop, Expire
  <1>3. JobsOK'
    BY <1>1, JobsFrame DEF Same, JobsOK, JobOK, At, Starter, Owner, Expire
  <1>4. StartsOK'
    BY <1>1, StartsFrame DEF Same, Starter, At, Expire
  <1>5. GatesOK'
    BY <1>1 DEF GatesOK, GateOK, GateHeld, At, Conn, Hop, Others, Same, Expire, TypeOK, Connections
  <1>6. OwnersOK'
    BY <1>1, OwnersFrame DEF Same, Owner, Lasting, At, Expire
  <1>7. MapOK' /\ ManagerOK'
    BY <1>1, IdleFacts, MapFrame, ManagerFrame DEF Same, ManagerOK, At, Expire, Lasting
  <1>8. NothingLeaks'
    BY <1>1, LeaksFrame DEF Same, InHandsOf, At, Expire
  <1> QED BY <1>2, <1>3, <1>4, <1>5, <1>6, <1>7, <1>8

-----------------------------------------------------------------------------
(* Closing a connection.                                                    *)

(* A step of an actor that holds no gate, before or after.                  *)
LEMMA GatesStay ==
  ASSUME TypeOK, JobsOK, GatesOK, NEW a \in Actors, Hop(a), UNCHANGED conn,
         job[a].at \notin {"send", "receive", "reap"},
         job'[a].at \notin {"send", "receive", "reap"}
  PROVE  GatesOK'
  <1>1. ASSUME NEW c \in Conns
        PROVE  GateOK(c)'
    <2>1. conn[c].gate \in Actors \cup {None} /\ GateOK(c)
      BY DEF TypeOK, Connections, GatesOK
    <2> QED BY <2>1 DEF GateOK, Hop, Others, At
  <1>2. ASSUME NEW b \in Actors
        PROVE  GateHeld(b)'
    <2>1. CASE b = a
      BY <2>1 DEF GateHeld, At
    <2>2. CASE b # a
      BY <2>2 DEF GatesOK, GateHeld, At, Conn, Hop, Others
    <2> QED BY <2>1, <2>2
  <1> QED BY <1>1, <1>2 DEF GatesOK

(* Where a close returns to.                                                *)
LeavesClose(a) ==
  /\ Hop(a)
  /\ \/ job'[a] = Idle /\ job[a].after = "idle"
     \/ Same(a) /\ job'[a].at = job[a].after /\ job[a].after \in {"failed", "sweep"}

(* The two ways out of Close.                                               *)
LEMMA LeavesCloseFacts ==
  ASSUME TypeOK, NEW a \in Actors,
         IF job[a].after = "idle" THEN Finish(a) ELSE Goto(a, job[a].after)
  PROVE  LeavesClose(a)
  <1>1. job[a].after \in {"idle", "failed", "sweep"}
    BY DEF TypeOK, Jobs
  <1>2. CASE job[a].after = "idle"
    BY <1>2, FinishFacts DEF LeavesClose
  <1>3. CASE job[a].after # "idle"
    BY <1>1, <1>3, GotoFacts DEF LeavesClose, Stages
  <1> QED BY <1>2, <1>3

(* Who closed a connection, or finds it closed, lets go of it.              *)
LEMMA LeavesCloseKeepsRest ==
  ASSUME IInv, NEW a \in Actors, job[a].at \in {"close", "reap"}, LeavesClose(a),
         conn'[job[a].conn].closed, conn'[job[a].conn].proc = "gone",
         \A d \in Conns \ {job[a].conn} : conn'[d] = conn[d],
         conn' = conn \/ \A b \in Actors \ {a} : Owner(b) => job[b].conn # job[a].conn,
         UNCHANGED <<clients, starting, known, socket, manager, leaving>>
  PROVE  Rest'
  <1> USE DEF IInv
  <1>1. /\ Hop(a) /\ JobOK(a) /\ job[a].conn \in Conns
        /\ \A h \in Hosts : clients[h] # None => clients[h] # job[a].conn
    BY DEF LeavesClose, JobsOK, JobOK, Holding, OwnersOK
  <1>2. JobsOK'
    <2>1. JobOK(a)'
      BY <1>1, IdleFacts DEF LeavesClose, Same, JobOK, At, Starter, Owner, Holding, Using, Live
    <2> QED BY <1>1, <2>1, JobsFrame
  <1>3. StartsOK'
    <2>1. Starter(a)' <=> Starter(a)
      BY <1>1, IdleFacts DEF LeavesClose, Same, JobOK, At, Starter
    <2> QED BY <1>1, <2>1, IdleFacts, StartsFrame DEF LeavesClose, Same, JobOK, At, Starter
  <1>4. OwnersOK'
    <2>1. /\ Owner(a)' => Owner(a)
          /\ job'[a].conn \in {job[a].conn, None}
          /\ job'[a].at \notin Using \cup {"close", "reap"}
      BY <1>1, IdleFacts DEF LeavesClose, Same, Owner, At, Using, Live
    <2>2. \A c \in Conns : Lasting(c) \/ c = job[a].conn
      BY DEF Lasting
    <2>3. conn' = conn => \A c \in Conns : Lasting(c)
      BY DEF Lasting
    <2> QED BY <1>1, <2>1, <2>2, <2>3, OwnersFrame
  <1>5. MapOK'
    BY <1>1, MapFrame DEF Lasting, TypeOK
  <1>6. ManagerOK'
    BY <1>1, IdleFacts, ManagerFrame DEF LeavesClose, Same, ManagerOK, At
  <1>7. NothingLeaks'
    BY <1>1, LeaksFrame DEF InHandsOf
  <1> QED BY <1>2, <1>3, <1>4, <1>5, <1>6, <1>7 DEF Rest

(* The first closer takes the gate; the others find the connection closed.  *)
LEMMA CloseKeeps ==
  ASSUME IInv, NEW a \in Actors, Close(a)
  PROVE  IInv'
  <1> USE DEF IInv
  <1>0. PICK c \in Conns : c = job[a].conn
    BY DEF JobsOK, JobOK, Close, At, Holding, Using, Live
  <1>1. At(a, "close") /\ JobOK(a) /\ conn[c] \in Connections /\ GateOK(c)
    BY <1>0 DEF JobsOK, Close, TypeOK, GatesOK
  <1>2. CASE Conn(a).closed /\ UNCHANGED conn
             /\ IF job[a].after = "idle" THEN Finish(a) ELSE Goto(a, job[a].after)
    <2>1. LeavesClose(a)
      BY <1>2, LeavesCloseFacts
    <2>2. Rest'
      BY <1>0, <1>1, <1>2, <2>1, LeavesCloseKeepsRest DEF Close, Conn, GateOK, At
    <2>3. GatesOK'
      BY <1>1, <1>2, <2>1, IdleFacts, GatesStay DEF LeavesClose, At
    <2>4. TypeOK'
      BY <1>2, <2>1 DEF TypeOK, LeavesClose, Hop, Close
    <2> QED BY <2>2, <2>3, <2>4 DEF Rest
  <1>3. CASE /\ ~Conn(a).closed /\ Conn(a).gate = None
             /\ conn' = [conn EXCEPT ![job[a].conn].gate = a, ![job[a].conn].stdin = "nil"]
             /\ Goto(a, "reap")
    <2>1. Hop(a) /\ Same(a) /\ job'[a].at = "reap" /\ job'[a].after = job[a].after
      BY <1>3, GotoFacts DEF Stages
    <2>2. /\ conn' \in [Conns -> Connections]
          /\ conn'[c] = [conn[c] EXCEPT !.gate = a, !.stdin = "nil"]
          /\ \A d \in Conns \ {c} : conn'[d] = conn[d]
      <3>1. [conn[c] EXCEPT !.gate = a, !.stdin = "nil"] \in Connections
        BY <1>1 DEF Connections
      <3>2. conn' = [conn EXCEPT ![c] = [conn[c] EXCEPT !.gate = a, !.stdin = "nil"]]
        BY <1>0, <1>3
      <3> QED BY <3>1, <3>2 DEF TypeOK
    <2>3. \A d \in Conns : Calm(d)
      BY <1>1, <2>2 DEF Calm, Connections
    <2>4. TypeOK'
      BY <2>1, <2>2 DEF TypeOK, Close, Hop
    <2>5. JobsOK'
      BY <1>1, <2>1, JobsFrame DEF Same, JobOK, At, Starter, Owner, Holding, Using, Live, Close
    <2>6. StartsOK'
      BY <1>1, <2>1, StartsFrame DEF Same, Starter, At, Close
    <2>7. GatesOK'
      <3>1. GateHeld(a)'
        BY <1>0, <1>1, <2>1, <2>2 DEF GateHeld, At, Conn, Same, Connections
      <3>2. /\ conn[c].gate = None /\ conn[c].closed = FALSE
            /\ conn[c].request = None /\ conn[c].serving = None /\ conn[c].answer = None
        BY <1>0, <1>1, <1>3 DEF GateOK, Conn, Connections
      <3>3. /\ conn'[c].gate = a /\ conn'[c].closed = FALSE
            /\ conn'[c].request = None /\ conn'[c].serving = None /\ conn'[c].answer = None
        BY <1>1, <2>2, <3>2 DEF Connections
      <3>4. GateOK(c)'
        BY <1>0, <2>1, <3>3 DEF GateOK, Same
      <3> QED BY <1>0, <1>1, <1>3, <2>1, <2>2, <3>1, <3>2, <3>4, GatesFrame DEF Conn
    <2>8. OwnersOK'
      BY <1>1, <2>1, <2>3, OwnersFrame DEF Same, Owner, Calm, Lasting, Using, Live, At, Close
    <2>9. MapOK'
      BY <2>3, MapFrame DEF Calm, Lasting, Close
    <2>10. ManagerOK'
      BY <1>1, <2>1, IdleFacts, ManagerFrame DEF Same, ManagerOK, At, Close
    <2>11. NothingLeaks'
      BY <1>1, <2>1, <2>3, LeaksFrame DEF Same, InHandsOf, Calm, At, Close
    <2> QED BY <2>4, <2>5, <2>6, <2>7, <2>8, <2>9, <2>10, <2>11
  <1> QED BY <1>2, <1>3 DEF Close

(* The fields of a connection that is over.                                 *)
LEMMA GoneFacts ==
  /\ Gone \in Connections /\ Gone.closed = TRUE /\ Gone.proc = "gone" /\ Gone.stdin = "nil"
  /\ Gone.gate = None /\ Gone.request = None /\ Gone.serving = None /\ Gone.answer = None
  /\ Gone.host = None
  BY DEF Gone, Connections, Senders

(* The closer waits for the process and marks the connection closed.        *)
LEMMA ReapKeeps ==
  ASSUME IInv, NEW a \in Actors, Reap(a)
  PROVE  IInv'
  <1> USE DEF IInv
  <1>0. PICK c \in Conns : c = job[a].conn
    BY DEF JobsOK, JobOK, Reap, At, Holding, Using, Live
  <1>1. /\ At(a, "reap") /\ JobOK(a) /\ conn[c] \in Connections /\ GateOK(c) /\ conn[c].gate = a
        /\ faults \in 0..MaxFaults
    BY <1>0 DEF JobsOK, Reap, TypeOK, GatesOK, GateHeld, At, Conn
  <1>2. CASE Conn(a).proc = "gone"
    <2>1. LeavesClose(a)
      BY <1>2, LeavesCloseFacts DEF Reap
    <2>2. /\ conn' \in [Conns -> Connections] /\ conn'[c] = Gone
          /\ \A d \in Conns \ {c} : conn'[d] = conn[d]
      BY <1>0, <1>2, GoneFacts DEF Reap, TypeOK
    <2>3. \A b \in Actors \ {a} : Owner(b) => job[b].conn # c
      BY <1>0 DEF OwnersOK, TypeOK
    <2>4. Rest'
      BY <1>0, <1>1, <2>1, <2>2, <2>3, GoneFacts, LeavesCloseKeepsRest DEF Reap, At
    <2>5. GatesOK'
      <3>1. GateHeld(a)'
        BY <1>1, <2>1, IdleFacts DEF LeavesClose, GateHeld, At
      <3>2. GateOK(c)'
        BY <2>2, GoneFacts DEF GateOK
      <3> QED BY <1>0, <1>1, <2>1, <2>2, <3>1, <3>2, GatesFrame DEF LeavesClose
    <2>6. TypeOK'
      BY <2>1, <2>2 DEF TypeOK, LeavesClose, Hop, Reap
    <2> QED BY <2>4, <2>5, <2>6 DEF Rest
  <1>3. CASE Conn(a).proc # "gone"
    <2>1. conn' = [conn EXCEPT ![c] = End(conn[c])] /\ UNCHANGED job
      BY <1>0, <1>3 DEF Reap
    <2> QED BY <1>1, <2>1, EndKeeps DEF Reap
  <1> QED BY <1>2, <1>3

-----------------------------------------------------------------------------
(* The stages between the calls.                                            *)

(* The control path goes after the client that was closed.                  *)
LEMMA SweepKeeps ==
  ASSUME IInv, NEW a \in Actors, Sweep(a)
  PROVE  IInv'
  <1> USE DEF IInv
  <1>1. /\ Hop(a) /\ job'[a] = Idle /\ JobOK(a) /\ At(a, "sweep") /\ ~Starter(a) /\ a # Closer
        /\ job[a].host \in Hosts
    BY FinishFacts DEF Sweep, JobsOK, JobOK, At
  <1>2. TypeOK'
    BY <1>1 DEF TypeOK, Hop, Sweep
  <1>3. JobOK(a)'
    BY <1>1, IdleFacts DEF JobOK, At, Starter, Owner, Holding, Using, Live
  <1>4. JobsOK'
    BY <1>1, <1>3, JobsFrame DEF Sweep
  <1>5. StartsOK'
    BY <1>1, IdleFacts, StartsFrame DEF Sweep, Starter, At
  <1>6. GatesOK'
    BY <1>1, IdleFacts, GatesStay DEF Sweep, At
  <1>7. OwnersOK'
    BY <1>1, IdleFacts, OwnersFrame DEF Sweep, Owner, Lasting, Using, Live, At
  <1>8. MapOK'
    BY MapFrame DEF Lasting, Sweep
  <1>9. ManagerOK'
    BY <1>1, IdleFacts, ManagerFrame DEF ManagerOK, Sweep, TypeOK
  <1>10. NothingLeaks'
    <2>1. \A c \in Conns : conn[c].proc # "gone" => job[a].conn # c
      BY <1>1 DEF OwnersOK, GatesOK, GateOK, Conn, At
    <2> QED BY <1>1, <2>1, LeaksFrame DEF InHandsOf, Sweep
  <1> QED BY <1>2, <1>4, <1>5, <1>6, <1>7, <1>8, <1>9, <1>10

(* Who waits for a start looks again, or gives up.                          *)
LEMMA AwaitKeeps ==
  ASSUME IInv, NEW a \in Actors, Await(a)
  PROVE  IInv'
  <1> USE DEF IInv
  <1>1. /\ JobOK(a) /\ At(a, "await") /\ a # Closer /\ job[a].conn = None
        /\ job[a].kind \in {"refresh", "action"} /\ ~job[a].hello
    BY DEF Await, JobsOK, JobOK, At
  <1>2. /\ Hop(a)
        /\ \/ Same(a) /\ job'[a].at = "client"
           \/ job'[a] = Idle
    BY GotoFacts, FinishFacts DEF Await, Stages
  <1>3. TypeOK'
    BY <1>2 DEF TypeOK, Hop, Await
  <1>4. JobOK(a)'
    BY <1>1, <1>2, IdleFacts DEF JobOK, Same, At, Starter, Owner, Holding, Using, Live, Await
  <1>5. JobsOK'
    BY <1>2, <1>4, JobsFrame DEF Await
  <1>6. StartsOK'
    BY <1>1, <1>2, IdleFacts, StartsFrame DEF Await, Same, Starter, At
  <1>7. GatesOK'
    BY <1>1, <1>2, IdleFacts, GatesStay DEF Await, At
  <1>8. OwnersOK'
    BY <1>1, <1>2, IdleFacts, OwnersFrame DEF Await, Same, Owner, Lasting, Using, Live, At
  <1>9. MapOK'
    BY MapFrame DEF Lasting, Await
  <1>10. ManagerOK'
    BY <1>1, <1>2, IdleFacts, ManagerFrame DEF ManagerOK, Same, At, Await
  <1>11. NothingLeaks'
    BY <1>1, <1>2, LeaksFrame DEF InHandsOf, Await
  <1> QED BY <1>3, <1>5, <1>6, <1>7, <1>8, <1>9, <1>10, <1>11

(* The handshake is accepted or refused.                                    *)
LEMMA HelloKeeps ==
  ASSUME IInv, NEW a \in Actors, Hello(a)
  PROVE  IInv'
  <1> USE DEF IInv
  <1>1. /\ JobOK(a) /\ At(a, "checked") /\ a # Closer /\ job[a].hello /\ job[a] \in Jobs
        /\ job[a].kind \in Kinds
    BY DEF Hello, JobsOK, JobOK, At, TypeOK
  <1>2. CASE Return(a, "error")
    <2>1. Returned(a)
      BY <1>1, <1>2, ReturnFacts DEF At
    <2>2. Rest'
      BY <1>1, <2>1, ReturnedKeepsRest DEF Hello, At, Calm
    <2>3. job'[a].at \notin {"send", "receive", "reap"}
      BY <2>1, IdleFacts DEF Returned
    <2>4. GatesOK'
      BY <1>1, <2>1, <2>3, GatesStay DEF Hello, Returned, At
    <2>5. TypeOK'
      BY <2>1 DEF TypeOK, Returned, Hop, Hello
    <2> QED BY <2>2, <2>4, <2>5 DEF Rest
  <1>3. CASE ~Return(a, "error")
    <2>1. PICK late \in {job[a].expired, job[a].expired /\ manager # "open"} :
            job' = [job EXCEPT ![a].hello = FALSE, ![a].expired = late,
                      ![a].at = IF job[a].kind \in {"refresh", "action"} THEN "register" ELSE "gate"]
      BY <1>3 DEF Hello
    <2> DEFINE stage == IF job[a].kind \in {"refresh", "action"} THEN "register" ELSE "gate"
               j == [job[a] EXCEPT !.hello = FALSE, !.expired = late, !.at = stage]
    <2>2. late \in BOOLEAN
      BY <1>1, <2>1 DEF Jobs
    <2>3. stage \in Stages
      BY DEF Stages
    <2>4. job' = [job EXCEPT ![a] = j]
      BY <2>1
    <2> HIDE DEF stage
    <2>5. /\ j \in Jobs /\ j.at = stage /\ j.hello = FALSE /\ j.kind = job[a].kind
          /\ j.host = job[a].host /\ j.conn = job[a].conn /\ j.tracked = job[a].tracked
      BY <1>1, <2>2, <2>3 DEF Jobs
    <2> HIDE DEF j
    <2>6. /\ Hop(a) /\ job'[a].at = stage /\ job'[a].hello = FALSE /\ job'[a].kind = job[a].kind
          /\ job'[a].host = job[a].host /\ job'[a].conn = job[a].conn
          /\ job'[a].tracked = job[a].tracked
      BY <2>4, <2>5 DEF TypeOK, Hop, Others
    <2>7. TypeOK'
      BY <2>6 DEF TypeOK, Hop, Hello
    <2>8. JobOK(a)'
      BY <1>1, <2>6 DEF JobOK, At, Starter, Owner, Holding, Using, Live, Hello, stage, Kinds
    <2>9. JobsOK'
      BY <2>6, <2>8, JobsFrame DEF Hello
    <2>10. StartsOK'
      BY <1>1, <2>6, StartsFrame DEF Hello, Starter, At, stage
    <2>11. GatesOK'
      BY <1>1, <2>6, GatesStay DEF Hello, At, stage
    <2>12. Owner(a) /\ Owner(a)'
      BY <1>1, <2>6 DEF Owner, At, stage, Kinds
    <2>13. OwnersOK'
      BY <1>1, <2>6, <2>12, OwnersFrame DEF Hello, Lasting, Using, Live, At, stage
    <2>14. MapOK'
      BY MapFrame DEF Lasting, Hello
    <2>15. ManagerOK'
      BY <1>1, <2>6, IdleFacts, ManagerFrame DEF ManagerOK, At, Hello
    <2>16. NothingLeaks'
      BY <1>1, <2>6, LeaksFrame DEF InHandsOf, Hello, stage, Kinds
    <2> QED BY <2>7, <2>9, <2>10, <2>11, <2>13, <2>14, <2>15, <2>16
  <1> QED BY <1>2, <1>3

(* A refresh that lost its client takes it out of the map, unless another   *)
(* one has its place; no other host's entry holds it.                       *)
LEMMA DropKeeps ==
  ASSUME IInv, NEW a \in Actors, Drop(a)
  PROVE  IInv'
  <1> USE DEF IInv
  <1>0. PICK c \in Conns : c = job[a].conn
    BY DEF JobsOK, JobOK, Drop, At, Holding, Using, Live
  <1>1. /\ JobOK(a) /\ At(a, "drop") /\ a # Closer /\ job[a].kind = "refresh" /\ ~job[a].hello
        /\ job[a].host \in Hosts
    BY DEF Drop, JobsOK, JobOK, At
  <1>2. /\ Hop(a) /\ Same(a) /\ job'[a].at = "close" /\ job'[a].after \in {"sweep", "idle"}
    BY CloseThenFacts DEF Drop
  <1>3. /\ clients' \in [Hosts -> Conns \cup {None}]
        /\ clients'[job[a].host] # c
        /\ \A h \in Hosts : clients'[h] \in {clients[h], None}
        /\ \A h \in Hosts \ {job[a].host} : clients'[h] = clients[h]
        /\ clients'[job[a].host] = clients[job[a].host] \/ clients[job[a].host] = c
    BY <1>0, <1>1 DEF Drop, TypeOK
  <1>4. \A h \in Hosts : clients'[h] # None => clients'[h] # c
    <2>1. conn[c].host = job[a].host \/ conn[c].host = None
      BY <1>0, <1>1 DEF OwnersOK, Using, At, Conn, GatesOK, GateOK
    <2>2. \A h \in Hosts : clients[h] = c => conn[c].host = h
      BY DEF MapOK, TypeOK
    <2> QED BY <1>3, <2>1, <2>2
  <1>5. TypeOK'
    BY <1>2, <1>3 DEF TypeOK, Hop, Drop
  <1>6. JobOK(a)'
    BY <1>0, <1>1, <1>2 DEF JobOK, Same, At, Starter, Owner, Holding, Using, Live, Drop
  <1>7. JobsOK'
    BY <1>2, <1>6, JobsFrame DEF Drop
  <1>8. StartsOK'
    BY <1>1, <1>2, <1>3, StartsFrame DEF Drop, Same, Starter, At
  <1>9. GatesOK'
    BY <1>1, <1>2, GatesStay DEF Drop, At
  <1>10. OwnersOK'
    BY <1>0, <1>1, <1>2, <1>3, <1>4, OwnersFrame DEF Drop, Same, Owner, Lasting, Using, Live, At
  <1>11. MapOK'
    BY <1>3, MapFrame DEF Lasting, Drop
  <1>12. ManagerOK'
    BY <1>1, <1>2, <1>3, IdleFacts, ManagerFrame DEF ManagerOK, Same, At, Drop
  <1>13. NothingLeaks'
    <2>1. \A h \in Hosts, d \in Conns : clients[h] = d => clients'[h] = d \/ d = c
      BY <1>3
    <2>2. InHandsOf(c, a)'
      BY <1>0, <1>2 DEF InHandsOf, Same
    <2> QED BY <1>0, <1>2, <2>1, <2>2, LeaksFrame DEF InHandsOf, Same, Drop
  <1> QED BY <1>5, <1>7, <1>8, <1>9, <1>10, <1>11, <1>12, <1>13

-----------------------------------------------------------------------------
(* The start of a shared connection ends, and those who wait see it.        *)

(* The goroutine that manager.starting names takes its entry away; no other *)
(* entry changes, and the host had no client.                               *)
LEMMA StartEnds ==
  ASSUME TypeOK, JobsOK, StartsOK, NEW a \in Actors, Hop(a), a # Closer, Starter(a), ~Starter(a)',
         job'[a].kind # "add", job[a].host \in Hosts,
         starting' = [starting EXCEPT ![job[a].host] = None],
         \A h \in Hosts \ {job[a].host} : clients'[h] = clients[h]
  PROVE  /\ StartsOK' /\ starting' \in [Hosts -> Workers \cup {None}]
         /\ \A h \in Hosts : starting'[h] \in {starting[h], None}
         /\ starting[job[a].host] = a /\ clients[job[a].host] = None
  <1>1. a \in Workers /\ (\A b \in Workers : b \in Actors)
    BY DEF Actors
  <1>2. starting[job[a].host] = a /\ clients[job[a].host] = None
    BY <1>1 DEF StartsOK
  <1>3. /\ starting' \in [Hosts -> Workers \cup {None}] /\ starting'[job[a].host] = None
        /\ \A h \in Hosts \ {job[a].host} : starting'[h] = starting[h]
    BY DEF TypeOK
  <1>4. \A b \in Workers \ {a} : job'[b] = job[b] /\ (Starter(b)' <=> Starter(b))
    BY <1>1 DEF Hop, Others, Starter, At
  <1>5. None \notin Workers
    BY DEF Actors
  <1>6. \A b \in Workers, h \in Hosts : starting'[h] = b <=> Starter(b)' /\ job'[b].host = h
    <2>1. ASSUME NEW b \in Workers, NEW h \in Hosts, b # a
          PROVE  starting'[h] = b <=> Starter(b)' /\ job'[b].host = h
      BY <1>1, <1>2, <1>3, <1>4, <1>5, <2>1 DEF StartsOK
    <2>2. ASSUME NEW h \in Hosts
          PROVE  starting'[h] # a
      BY <1>1, <1>3, <1>5 DEF StartsOK
    <2> QED BY <2>1, <2>2
  <1>7. \A h \in Hosts : starting'[h] # None => clients'[h] = None
    BY <1>3 DEF StartsOK
  <1>8. \A b, d \in Workers : b # d /\ job'[b].kind = "add" /\ job'[d].kind = "add" =>
          job'[b].host # job'[d].host
    BY <1>4 DEF StartsOK
  <1> QED BY <1>2, <1>3, <1>6, <1>7, <1>8 DEF StartsOK

(* A start failed: its entry goes, its connection is closed already.        *)
LEMMA FailedKeeps ==
  ASSUME IInv, NEW a \in Actors, Failed(a)
  PROVE  IInv'
  <1> USE DEF IInv
  <1>1. /\ Hop(a) /\ job'[a] = Idle /\ JobOK(a) /\ At(a, "failed") /\ Starter(a) /\ a # Closer
        /\ job[a].host \in Hosts
    BY FinishFacts DEF Failed, JobsOK, JobOK, At
  <1>2. /\ StartsOK' /\ starting' \in [Hosts -> Workers \cup {None}]
        /\ \A h \in Hosts : starting'[h] \in {starting[h], None}
    BY <1>1, IdleFacts, StartEnds DEF Failed, Starter, At
  <1>3. TypeOK'
    BY <1>1, <1>2 DEF TypeOK, Hop, Failed
  <1>4. JobOK(a)'
    BY <1>1, IdleFacts DEF JobOK, At, Starter, Owner, Holding, Using, Live
  <1>5. JobsOK'
    BY <1>1, <1>4, JobsFrame DEF Failed
  <1>6. GatesOK'
    BY <1>1, IdleFacts, GatesStay DEF Failed, At
  <1>7. OwnersOK'
    BY <1>1, IdleFacts, OwnersFrame DEF Failed, Owner, Lasting, Using, Live, At
  <1>8. MapOK'
    BY <1>2, MapFrame DEF Lasting, Failed
  <1>9. ManagerOK'
    BY <1>1, IdleFacts, ManagerFrame DEF ManagerOK, Failed, TypeOK
  <1>10. NothingLeaks'
    <2>1. \A c \in Conns : conn[c].proc # "gone" => job[a].conn # c
      BY <1>1 DEF OwnersOK, GatesOK, GateOK, Conn, At
    <2> QED BY <1>1, <2>1, LeaksFrame DEF InHandsOf, Failed
  <1> QED BY <1>2, <1>3, <1>5, <1>6, <1>7, <1>8, <1>9, <1>10

(* A connection that came up is put into the map, or closed when the        *)
(* manager is no longer open.                                               *)
LEMMA RegisterKeeps ==
  ASSUME IInv, NEW a \in Actors, Register(a)
  PROVE  IInv'
  <1> USE DEF IInv
  <1>0. PICK c \in Conns : c = job[a].conn
    BY DEF JobsOK, JobOK, Register, At, Holding, Using, Live
  <1>1. /\ JobOK(a) /\ At(a, "register") /\ a # Closer /\ job[a].kind \in {"refresh", "action"}
        /\ ~job[a].hello /\ job[a].host \in Hosts /\ known[job[a].host] /\ Starter(a) /\ Owner(a)
        /\ job[a] \in Jobs
    BY DEF Register, JobsOK, JobOK, At, Starter, Owner, TypeOK
  <1>2. conn[c].host = job[a].host
    BY <1>0, <1>1 DEF OwnersOK, Using, Live, At, Conn
  <1>3. CASE manager # "open"
    <2>1. /\ Hop(a) /\ Same(a) /\ job'[a].at = "close" /\ job'[a].after = "sweep"
          /\ UNCHANGED clients
      BY <1>3, CloseThenFacts DEF Register
    <2>2. ~Starter(a)'
      BY <1>1, <2>1 DEF Starter, At, Same
    <2>3. /\ StartsOK' /\ starting' \in [Hosts -> Workers \cup {None}]
          /\ \A h \in Hosts : starting'[h] \in {starting[h], None}
      BY <1>1, <2>1, <2>2, StartEnds DEF Register, Same
    <2>4. TypeOK'
      BY <2>1, <2>3 DEF TypeOK, Hop, Register
    <2>5. JobOK(a)'
      BY <1>0, <1>1, <2>1, <2>2 DEF JobOK, At, Same, Owner, Holding, Using, Live, Register
    <2>6. JobsOK'
      BY <2>1, <2>5, JobsFrame DEF Register
    <2>7. GatesOK'
      BY <1>1, <2>1, GatesStay DEF Register, At
    <2>8. OwnersOK'
      BY <1>1, <2>1, OwnersFrame DEF Register, Same, Owner, Lasting, Using, Live, At
    <2>9. MapOK'
      BY <2>1, <2>3, MapFrame DEF Lasting, Register
    <2>10. ManagerOK'
      BY <1>1, <2>1, IdleFacts, ManagerFrame DEF ManagerOK, Same, At, Register
    <2>11. NothingLeaks'
      BY <2>1, LeaksFrame DEF InHandsOf, Same, Register
    <2> QED BY <2>3, <2>4, <2>6, <2>7, <2>8, <2>9, <2>10, <2>11
  <1>4. CASE manager = "open"
    <2> DEFINE j == [job[a] EXCEPT !.at = "gate", !.tracked = FALSE]
    <2>1. clients' = [clients EXCEPT ![job[a].host] = c] /\ job' = [job EXCEPT ![a] = j]
      BY <1>0, <1>4 DEF Register
    <2>2. /\ j \in Jobs /\ j.at = "gate" /\ j.tracked = FALSE /\ j.kind = job[a].kind
          /\ j.host = job[a].host /\ j.conn = c /\ j.hello = job[a].hello
      BY <1>0, <1>1 DEF Jobs, Stages
    <2> HIDE DEF j
    <2>3. Hop(a) /\ job'[a] = j
      BY <2>1, <2>2 DEF TypeOK, Hop, Others
    <2>4. /\ clients' \in [Hosts -> Conns \cup {None}] /\ clients'[job[a].host] = c
          /\ \A h \in Hosts \ {job[a].host} : clients'[h] = clients[h]
      BY <1>1, <2>1 DEF TypeOK
    <2>5. ~Starter(a)' /\ ~Owner(a)'
      BY <1>1, <2>2, <2>3 DEF Starter, Owner, At
    <2>6. /\ StartsOK' /\ starting' \in [Hosts -> Workers \cup {None}]
          /\ \A h \in Hosts : starting'[h] \in {starting[h], None}
          /\ clients[job[a].host] = None
      BY <1>1, <2>2, <2>3, <2>4, <2>5, StartEnds DEF Register
    <2>7. TypeOK'
      BY <2>3, <2>4, <2>6 DEF TypeOK, Hop, Register
    <2>8. JobOK(a)'
      BY <1>0, <1>1, <2>2, <2>3, <2>5 DEF JobOK, At, Holding, Using, Live, Register
    <2>9. JobsOK'
      BY <2>3, <2>8, JobsFrame DEF Register
    <2>10. GatesOK'
      BY <1>1, <2>2, <2>3, GatesStay DEF Register, At
    <2>11. leaving = {} /\ leaving' = {}
      BY <1>4 DEF ManagerOK, Register
    <2>12. OwnersOK'
      <3>1. \A b \in Actors \ {a} : job'[b] = job[b] /\ (Owner(b)' <=> Owner(b)) /\ Conn(b)' = Conn(b)
        BY <2>3 DEF Hop, Others, Owner, At, Conn, Register
      <3>2. \A b \in Actors \ {a} : Owner(b) => job[b].conn # c
        BY <1>0, <1>1 DEF OwnersOK
      <3>3. \A b \in Actors \ {a} : job[b].conn # c
        BY <1>0, <1>1 DEF OwnersOK
      <3>4. \A b, d \in Actors : b # d /\ Owner(b)' /\ job'[b].conn # None => job'[d].conn # job'[b].conn
        BY <2>2, <2>3, <2>5, <3>1, <3>2 DEF OwnersOK
      <3>5. \A b \in Actors : Owner(b)' => job'[b].conn \notin leaving'
        BY <2>11
      <3>6. \A b \in Actors : Owner(b)' \/ job'[b].at \in {"close", "reap"} =>
              \A h \in Hosts : clients'[h] # None => clients'[h] # job'[b].conn
        BY <2>2, <2>3, <2>4, <2>5, <3>1, <3>3 DEF OwnersOK
      <3>7. \A b \in Actors : job'[b].at \in Using =>
              Conn(b)'.host = job'[b].host \/ (~Owner(b)' /\ Conn(b)'.closed)
        BY <1>2, <2>2, <2>3, <3>1 DEF OwnersOK, Conn, Register
      <3>8. \A b \in Actors : job'[b].at \in {"sweep", "failed"} /\ job'[b].conn # None => Conn(b)'.closed
        BY <2>2, <2>3, <3>1 DEF OwnersOK
      <3> QED BY <3>4, <3>5, <3>6, <3>7, <3>8 DEF OwnersOK
    <2>13. MapOK'
      BY <1>1, <1>2, <2>4, <2>11 DEF MapOK, Register
    <2>14. ManagerOK'
      BY <1>1, <1>4, <2>3, <2>11 DEF ManagerOK, Register, Hop, Others, Actors
    <2>15. NothingLeaks'
      <3>1. \A d \in Conns : InHandsOf(d, a) => clients'[job[a].host] = d
        BY <1>0, <2>4 DEF InHandsOf
      <3>2. \A h \in Hosts : clients[h] # None => clients'[h] = clients[h]
        BY <2>4, <2>6
      <3> QED BY <1>1, <2>3, <3>1, <3>2, LeaksFrame DEF Register
    <2> QED BY <2>6, <2>7, <2>9, <2>10, <2>12, <2>13, <2>14, <2>15
  <1> QED BY <1>3, <1>4

(* A host is added with its connection.  Nobody else has a request for it:  *)
(* those of known hosts cannot have begun, and it is added once.            *)
LEMMA CommitKeeps ==
  ASSUME IInv, NEW a \in Actors, Commit(a)
  PROVE  IInv'
  <1> USE DEF IInv
  <1>0. PICK c \in Conns : c = job[a].conn
    BY DEF JobsOK, JobOK, Commit, At, Holding, Using, Live
  <1>1. /\ JobOK(a) /\ At(a, "commit") /\ a # Closer /\ job[a].kind = "add"
        /\ job[a].host \in Hosts /\ ~known[job[a].host] /\ Owner(a)
        /\ job[a] \in Jobs
    BY DEF Commit, JobsOK, JobOK, At, Owner, TypeOK
  <1>2. conn[c].host = job[a].host
    BY <1>0, <1>1 DEF OwnersOK, Using, Live, At, Conn
  <1>3. CASE /\ CloseThen(a, "sweep")
             /\ IF manager = "open" THEN Fault ELSE UNCHANGED faults
             /\ UNCHANGED <<known, clients>>
    <2>1. /\ Hop(a) /\ Same(a) /\ job'[a].at = "close" /\ job'[a].after = "sweep"
      BY <1>3, CloseThenFacts
    <2>2. faults' \in 0..MaxFaults
      BY <1>3 DEF Fault, TypeOK
    <2>3. TypeOK'
      BY <1>3, <2>1, <2>2 DEF TypeOK, Hop, Commit
    <2>4. JobOK(a)'
      BY <1>0, <1>1, <1>3, <2>1 DEF JobOK, At, Same, Starter, Owner, Holding, Using, Live
    <2>5. JobsOK'
      BY <1>3, <2>1, <2>4, JobsFrame
    <2>6. StartsOK'
      BY <1>1, <1>3, <2>1, StartsFrame DEF Commit, Same, Starter, At
    <2>7. GatesOK'
      BY <1>1, <2>1, GatesStay DEF Commit, At
    <2>8. OwnersOK'
      BY <1>1, <1>3, <2>1, OwnersFrame DEF Commit, Same, Owner, Lasting, Using, Live, At
    <2>9. MapOK'
      BY <1>3, MapFrame DEF Lasting, Commit
    <2>10. ManagerOK'
      BY <1>1, <1>3, <2>1, IdleFacts, ManagerFrame DEF ManagerOK, Same, At, Commit
    <2>11. NothingLeaks'
      BY <1>3, <2>1, LeaksFrame DEF InHandsOf, Same, Commit
    <2> QED BY <2>3, <2>5, <2>6, <2>7, <2>8, <2>9, <2>10, <2>11
  <1>4. CASE /\ manager = "open"
             /\ known' = [known EXCEPT ![job[a].host] = TRUE]
             /\ clients' = [clients EXCEPT ![job[a].host] = job[a].conn]
             /\ Finish(a)
             /\ UNCHANGED faults
    <2> DEFINE h == job[a].host
    <2>1. Hop(a) /\ job'[a] = Idle
      BY <1>4, FinishFacts
    <2>2. /\ clients' \in [Hosts -> Conns \cup {None}] /\ clients'[h] = c
          /\ \A x \in Hosts \ {h} : clients'[x] = clients[x]
          /\ known' \in [Hosts -> BOOLEAN] /\ known'[h] = TRUE
          /\ \A x \in Hosts \ {h} : known'[x] = known[x]
      BY <1>0, <1>1, <1>4 DEF TypeOK
    <2>3. \A b \in Actors \ {a} : job'[b] = job[b]
      BY <2>1 DEF Hop, Others
    <2>4. ASSUME NEW b \in Actors, b # a, b # Closer, ~At(b, "idle")
          PROVE  job[b].host # h
      <3>1. JobOK(b) /\ a \in Workers /\ b \in Workers
        BY <1>1, <2>4 DEF JobsOK, Actors
      <3>2. known[job[b].host] <=> job[b].kind # "add"
        BY <2>4, <3>1 DEF JobOK
      <3>3. job[b].kind = "add" => job[b].host # h
        BY <1>1, <2>4, <3>1 DEF StartsOK
      <3> QED BY <1>1, <3>2, <3>3
    <2>5. clients[h] = None
      BY <1>1 DEF MapOK
    <2>6. starting[h] = None
      <3>1. ASSUME starting[h] # None
            PROVE  FALSE
        <4>1. PICK b \in Workers : b = starting[h]
          BY <1>1, <3>1 DEF TypeOK
        <4>2. Starter(b) /\ job[b].host = h /\ b # Closer /\ b \in Actors /\ JobOK(b)
          BY <1>1, <4>1 DEF StartsOK, JobsOK, Actors
        <4>3. ~At(b, "idle") /\ b # a
          BY <1>1, <4>2, IdleFacts DEF JobOK, Starter, At
        <4> QED BY <2>4, <4>2, <4>3
      <3> QED BY <3>1
    <2> HIDE DEF h
    <2>7. TypeOK'
      BY <1>4, <2>1, <2>2 DEF TypeOK, Hop, Commit
    <2>8. JobsOK'
      <3>1. JobOK(a)'
        BY <1>1, <2>1, IdleFacts DEF JobOK, At, Starter, Owner, Holding, Using, Live
      <3>2. ASSUME NEW b \in Actors, b # a
            PROVE  JobOK(b)'
        <4>1. JobOK(b) /\ job'[b] = job[b]
          BY <2>3, <3>2 DEF JobsOK
        <4>2. b # Closer /\ ~At(b, "idle") => known'[job[b].host] = known[job[b].host]
          BY <2>2, <2>4, <3>2, <4>1 DEF JobOK
        <4> QED BY <4>1, <4>2 DEF JobOK, At, Starter, Owner
      <3> QED BY <3>1, <3>2 DEF JobsOK
    <2>9. StartsOK'
      <3>1. \A b \in Actors : (Starter(b)' <=> Starter(b)) /\ (Starter(b) => job'[b].host = job[b].host)
        BY <1>1, <2>1, <2>3, IdleFacts DEF Starter, At
      <3>2. \A b \in Workers : b \in Actors
        BY DEF Actors
      <3>3. \A b \in Workers : job'[b].kind = "add" => job'[b] = job[b]
        BY <2>1, <2>3, <3>2, IdleFacts
      <3> QED BY <2>2, <2>6, <3>1, <3>2, <3>3 DEF StartsOK, Commit
    <2>10. GatesOK'
      BY <1>1, <2>1, IdleFacts, GatesStay DEF Commit, At
    <2>11. leaving = {} /\ leaving' = {}
      BY <1>4 DEF ManagerOK, Commit
    <2>12. OwnersOK'
      <3>1. \A b \in Actors \ {a} : (Owner(b)' <=> Owner(b)) /\ Conn(b)' = Conn(b)
        BY <2>3 DEF Owner, At, Conn, Commit
      <3>2. \A b \in Actors \ {a} : job[b].conn # c
        BY <1>0, <1>1 DEF OwnersOK
      <3>3. ~Owner(a)' /\ job'[a].conn = None /\ job'[a].at = "idle"
        BY <2>1, IdleFacts DEF Owner, At
      <3>4. \A b, d \in Actors : b # d /\ Owner(b)' /\ job'[b].conn # None => job'[d].conn # job'[b].conn
        BY <2>3, <3>1, <3>3 DEF OwnersOK
      <3>5. \A b \in Actors : Owner(b)' => job'[b].conn \notin leaving'
        BY <2>11
      <3>6. \A b \in Actors : Owner(b)' \/ job'[b].at \in {"close", "reap"} =>
              \A x \in Hosts : clients'[x] # None => clients'[x] # job'[b].conn
        BY <2>2, <2>3, <3>1, <3>2, <3>3 DEF OwnersOK
      <3>7. \A b \in Actors : job'[b].at \in Using =>
              Conn(b)'.host = job'[b].host \/ (~Owner(b)' /\ Conn(b)'.closed)
        BY <2>3, <3>1, <3>3 DEF OwnersOK, Using, Live
      <3>8. \A b \in Actors : job'[b].at \in {"sweep", "failed"} /\ job'[b].conn # None => Conn(b)'.closed
        BY <2>3, <3>1, <3>3 DEF OwnersOK
      <3> QED BY <3>4, <3>5, <3>6, <3>7, <3>8 DEF OwnersOK
    <2>13. MapOK'
      <3>1. conn[c].host = h
        BY <1>2 DEF h
      <3> QED BY <2>2, <2>11, <3>1 DEF MapOK, Commit
    <2>14. ManagerOK'
      BY <1>1, <1>4, <2>3, <2>11 DEF ManagerOK, Commit, Actors
    <2>15. NothingLeaks'
      <3>1. \A d \in Conns : InHandsOf(d, a) => clients'[h] = d
        BY <1>0, <2>2 DEF InHandsOf
      <3>2. \A x \in Hosts : clients[x] # None => clients'[x] = clients[x]
        BY <2>2, <2>5
      <3>3. h \in Hosts
        BY <1>1 DEF h
      <3> QED BY <2>1, <3>1, <3>2, <3>3, LeaksFrame DEF Commit
    <2> QED BY <2>7, <2>8, <2>9, <2>10, <2>12, <2>13, <2>14, <2>15
  <1> QED BY <1>3, <1>4 DEF Commit

(* Manager.client: a shared connection, a start to wait for, or a start.    *)
LEMMA ClientKeeps ==
  ASSUME IInv, NEW a \in Actors, Client(a)
  PROVE  IInv'
  <1> USE DEF IInv
  <1> DEFINE h == job[a].host
  <1>1. /\ JobOK(a) /\ At(a, "client") /\ a # Closer /\ job[a].conn = None /\ a \in Workers
        /\ job[a].kind \in {"refresh", "action"} /\ ~job[a].hello /\ h \in Hosts /\ known[h]
        /\ job[a] \in Jobs /\ ~Starter(a) /\ ~Owner(a)
    BY DEF Client, JobsOK, JobOK, At, TypeOK, Starter, Owner, Actors
  <1>2. CASE UNCHANGED starting /\ (Finish(a) \/ Goto(a, "await"))
    <2>1. Hop(a) /\ (job'[a] = Idle \/ (Same(a) /\ job'[a].at = "await"))
      <3>1. Finish(a) => Hop(a) /\ job'[a] = Idle
        BY FinishFacts
      <3>2. Goto(a, "await") => Hop(a) /\ Same(a) /\ job'[a].at = "await"
        BY GotoFacts DEF Stages
      <3> QED BY <1>2, <3>1, <3>2
    <2>2. TypeOK'
      BY <1>2, <2>1 DEF TypeOK, Hop, Client
    <2>3. JobOK(a)'
      BY <1>1, <2>1, IdleFacts DEF JobOK, Same, At, Starter, Owner, Holding, Using, Live, Client
    <2>4. JobsOK'
      BY <2>1, <2>3, JobsFrame DEF Client
    <2>5. StartsOK'
      BY <1>1, <1>2, <2>1, IdleFacts, StartsFrame DEF Client, Same, Starter, At
    <2>6. GatesOK'
      BY <1>1, <2>1, IdleFacts, GatesStay DEF Client, At
    <2>7. OwnersOK'
      BY <1>1, <2>1, IdleFacts, OwnersFrame DEF Client, Same, Owner, Lasting, Using, Live, At
    <2>8. MapOK'
      BY <1>2, MapFrame DEF Lasting, Client
    <2>9. ManagerOK'
      BY <1>1, <2>1, IdleFacts, ManagerFrame DEF ManagerOK, Same, At, Client
    <2>10. NothingLeaks'
      BY <1>1, <2>1, LeaksFrame DEF InHandsOf, Client
    <2> QED BY <2>2, <2>4, <2>5, <2>6, <2>7, <2>8, <2>9, <2>10
  <1>3. CASE /\ clients[h] # None /\ UNCHANGED starting
             /\ job' = [job EXCEPT ![a].at = "gate", ![a].conn = clients[h]]
    <2> DEFINE j == [job[a] EXCEPT !.at = "gate", !.conn = clients[h]]
    <2>1. clients[h] \in Conns /\ conn[clients[h]].host = h
      BY <1>1, <1>3 DEF MapOK, TypeOK
    <2>2. /\ j \in Jobs /\ j.at = "gate" /\ j.kind = job[a].kind /\ j.host = h
          /\ j.conn = clients[h] /\ j.hello = job[a].hello /\ j.tracked = job[a].tracked
      BY <1>1, <2>1 DEF Jobs, Stages
    <2>3. job' = [job EXCEPT ![a] = j]
      BY <1>3
    <2> HIDE DEF j
    <2>4. Hop(a) /\ job'[a] = j
      BY <2>2, <2>3 DEF TypeOK, Hop, Others
    <2>5. ~Starter(a)' /\ ~Owner(a)'
      BY <1>1, <2>2, <2>4 DEF Starter, Owner, At
    <2>6. TypeOK'
      BY <1>3, <2>4 DEF TypeOK, Hop, Client
    <2>7. JobOK(a)'
      BY <1>1, <2>1, <2>2, <2>4, <2>5 DEF JobOK, At, Holding, Using, Live, Client
    <2>8. JobsOK'
      BY <2>4, <2>7, JobsFrame DEF Client
    <2>9. StartsOK'
      BY <1>1, <1>3, <2>2, <2>4, <2>5, StartsFrame DEF Client
    <2>10. GatesOK'
      BY <1>1, <2>2, <2>4, GatesStay DEF Client, At
    <2>11. OwnersOK'
      <3>1. \A b \in Actors \ {a} : job'[b] = job[b] /\ (Owner(b)' <=> Owner(b)) /\ Conn(b)' = Conn(b)
        BY <2>4 DEF Hop, Others, Owner, At, Conn, Client
      <3>2. \A b \in Actors : Owner(b) => job[b].conn # clients[h]
        BY <1>1, <1>3 DEF OwnersOK
      <3>3. \A b, d \in Actors : b # d /\ Owner(b)' /\ job'[b].conn # None => job'[d].conn # job'[b].conn
        BY <2>2, <2>4, <2>5, <3>1, <3>2 DEF OwnersOK
      <3>4. \A b \in Actors : Owner(b)' => job'[b].conn \notin leaving'
        BY <2>5, <3>1 DEF OwnersOK, Client
      <3>5. \A b \in Actors : Owner(b)' \/ job'[b].at \in {"close", "reap"} =>
              \A x \in Hosts : clients'[x] # None => clients'[x] # job'[b].conn
        BY <2>2, <2>4, <2>5, <3>1 DEF OwnersOK, Client
      <3>6. \A b \in Actors : job'[b].at \in Using =>
              Conn(b)'.host = job'[b].host \/ (~Owner(b)' /\ Conn(b)'.closed)
        BY <2>1, <2>2, <2>4, <3>1 DEF OwnersOK, Conn, Client
      <3>7. \A b \in Actors : job'[b].at \in {"sweep", "failed"} /\ job'[b].conn # None => Conn(b)'.closed
        BY <2>2, <2>4, <3>1 DEF OwnersOK
      <3> QED BY <3>3, <3>4, <3>5, <3>6, <3>7 DEF OwnersOK
    <2>12. MapOK'
      BY <1>3, MapFrame DEF Lasting, Client
    <2>13. ManagerOK'
      BY <1>1, <2>2, <2>4, IdleFacts, ManagerFrame DEF ManagerOK, At, Client
    <2>14. NothingLeaks'
      BY <1>1, <2>4, LeaksFrame DEF InHandsOf, Client
    <2> QED BY <2>6, <2>8, <2>9, <2>10, <2>11, <2>12, <2>13, <2>14
  <1>4. CASE /\ manager = "open" /\ clients[h] = None /\ starting[h] = None
             /\ starting' = [starting EXCEPT ![h] = a]
             /\ job' = [job EXCEPT ![a].at = "start", ![a].hello = TRUE, ![a].tracked = TRUE]
    <2> DEFINE j == [job[a] EXCEPT !.at = "start", !.hello = TRUE, !.tracked = TRUE]
    <2>1. /\ j \in Jobs /\ j.at = "start" /\ j.kind = job[a].kind /\ j.host = h
          /\ j.conn = None /\ j.hello = TRUE /\ j.tracked = TRUE
      BY <1>1 DEF Jobs, Stages
    <2>2. job' = [job EXCEPT ![a] = j]
      BY <1>4
    <2> HIDE DEF j
    <2>3. Hop(a) /\ job'[a] = j
      BY <2>1, <2>2 DEF TypeOK, Hop, Others
    <2>4. /\ starting' \in [Hosts -> Workers \cup {None}] /\ starting'[h] = a
          /\ \A x \in Hosts \ {h} : starting'[x] = starting[x]
      BY <1>1, <1>4 DEF TypeOK
    <2>5. Starter(a)' /\ Owner(a)'
      BY <1>1, <2>1, <2>3 DEF Starter, Owner, At
    <2>6. TypeOK'
      BY <2>3, <2>4 DEF TypeOK, Hop, Client
    <2>7. JobOK(a)'
      BY <1>1, <2>1, <2>3, <2>5 DEF JobOK, At, Holding, Using, Live, Client
    <2>8. JobsOK'
      BY <2>3, <2>7, JobsFrame DEF Client
    <2>9. StartsOK'
      <3>1. \A b \in Workers \ {a} : job'[b] = job[b] /\ (Starter(b)' <=> Starter(b))
        BY <2>3 DEF Hop, Others, Starter, At, Actors
      <3>2. \A b \in Workers, x \in Hosts : starting'[x] = b <=> Starter(b)' /\ job'[b].host = x
        <4>1. ASSUME NEW b \in Workers, NEW x \in Hosts, b # a
              PROVE  starting'[x] = b <=> Starter(b)' /\ job'[b].host = x
          <5>1. CASE x # h
            BY <2>4, <3>1, <4>1, <5>1 DEF StartsOK
          <5>2. CASE x = h
            <6>1. b # None
              BY DEF Actors
            <6>2. starting[x] = b <=> Starter(b) /\ job[b].host = x
              BY DEF StartsOK
            <6> QED BY <1>4, <2>4, <3>1, <4>1, <5>2, <6>1, <6>2
          <5> QED BY <5>1, <5>2
        <4>2. ASSUME NEW x \in Hosts
              PROVE  starting'[x] = a <=> Starter(a)' /\ job'[a].host = x
          <5>1. x # h => starting[x] # a
            BY <1>1 DEF StartsOK
          <5> QED BY <2>1, <2>3, <2>4, <2>5, <5>1
        <4> QED BY <4>1, <4>2
      <3>3. \A x \in Hosts : starting'[x] # None => clients'[x] = None
        BY <1>4, <2>4 DEF StartsOK, Client
      <3>4. \A b, d \in Workers : b # d /\ job'[b].kind = "add" /\ job'[d].kind = "add" =>
              job'[b].host # job'[d].host
        BY <1>1, <2>1, <2>3, <3>1 DEF StartsOK
      <3> QED BY <3>2, <3>3, <3>4 DEF StartsOK
    <2>10. GatesOK'
      BY <1>1, <2>1, <2>3, GatesStay DEF Client, At
    <2>11. leaving = {} /\ leaving' = {}
      BY <1>4 DEF ManagerOK, Client
    <2>12. OwnersOK'
      <3>1. \A b \in Actors \ {a} : job'[b] = job[b] /\ (Owner(b)' <=> Owner(b)) /\ Conn(b)' = Conn(b)
        BY <2>3 DEF Hop, Others, Owner, At, Conn, Client
      <3>2. \A b, d \in Actors : b # d /\ Owner(b)' /\ job'[b].conn # None => job'[d].conn # job'[b].conn
        BY <2>1, <2>3, <3>1 DEF OwnersOK
      <3>3. \A b \in Actors : Owner(b)' => job'[b].conn \notin leaving'
        BY <2>11
      <3>4. \A b \in Actors : Owner(b)' \/ job'[b].at \in {"close", "reap"} =>
              \A x \in Hosts : clients'[x] # None => clients'[x] # job'[b].conn
        BY <2>1, <2>3, <3>1 DEF OwnersOK, Client
      <3>5. \A b \in Actors : job'[b].at \in Using =>
              Conn(b)'.host = job'[b].host \/ (~Owner(b)' /\ Conn(b)'.closed)
        BY <2>1, <2>3, <3>1 DEF OwnersOK, Using, Live
      <3>6. \A b \in Actors : job'[b].at \in {"sweep", "failed"} /\ job'[b].conn # None => Conn(b)'.closed
        BY <2>1, <2>3, <3>1 DEF OwnersOK
      <3> QED BY <3>2, <3>3, <3>4, <3>5, <3>6 DEF OwnersOK
    <2>13. MapOK'
      BY <2>11 DEF MapOK, Client
    <2>14. ManagerOK'
      BY <1>1, <1>4, <2>3, <2>11 DEF ManagerOK, Client, Hop, Others, Actors
    <2>15. NothingLeaks'
      BY <1>1, <2>3, LeaksFrame DEF InHandsOf, Client
    <2> QED BY <2>6, <2>8, <2>9, <2>10, <2>12, <2>13, <2>14, <2>15
  <1> QED BY <1>2, <1>3, <1>4 DEF Client

(* The fields of a connection that was just started.                        *)
LEMMA FreshFacts ==
  ASSUME NEW h \in Hosts, NEW f, f = Fresh(h)
  PROVE  /\ f \in Connections /\ f.host = h /\ f.closed = FALSE /\ f.gate = None
         /\ f.request = None /\ f.serving = None /\ f.answer = None /\ f.proc = "up"
         /\ f.stdin = "open"
  BY GoneFacts DEF Fresh, Connections, Senders

(* A process is started under an identity nobody refers to, or the start    *)
(* fails.                                                                   *)
LEMMA StartKeeps ==
  ASSUME IInv, NEW a \in Actors, Start(a)
  PROVE  IInv'
  <1> USE DEF IInv
  <1>1. /\ JobOK(a) /\ At(a, "start") /\ a # Closer /\ job[a].conn = None /\ a \in Workers
        /\ job[a].kind \in Kinds /\ job[a].hello /\ job[a].host \in Hosts
        /\ job[a] \in Jobs /\ Owner(a)
    BY DEF Start, JobsOK, JobOK, At, TypeOK, Owner, Actors
  <1>2. CASE /\ Fault
             /\ CASE job[a].kind = "add" -> Goto(a, "sweep")
                  [] job[a].kind = "cleanup" -> Finish(a)
                  [] OTHER -> Goto(a, "failed")
             /\ UNCHANGED <<conn, socket>>
    <2>1. /\ Hop(a)
          /\ \/ job'[a] = Idle /\ job[a].kind = "cleanup"
             \/ Same(a) /\ job'[a].at = "sweep" /\ job[a].kind = "add"
             \/ Same(a) /\ job'[a].at = "failed" /\ job[a].kind \in {"refresh", "action"}
      BY <1>1, <1>2, FinishFacts, GotoFacts DEF Stages, Kinds
    <2>2. faults' \in 0..MaxFaults
      BY <1>2 DEF Fault, TypeOK
    <2>3. TypeOK'
      BY <1>2, <2>1, <2>2 DEF TypeOK, Hop, Start
    <2>4. JobOK(a)'
      BY <1>1, <2>1, IdleFacts DEF JobOK, Same, At, Starter, Owner, Holding, Using, Live, Start
    <2>5. JobsOK'
      BY <2>1, <2>4, JobsFrame DEF Start
    <2>6. StartsOK'
      BY <1>1, <2>1, IdleFacts, StartsFrame DEF Start, Same, Starter, At
    <2>7. GatesOK'
      BY <1>1, <1>2, <2>1, IdleFacts, GatesStay DEF At
    <2>8. OwnersOK'
      BY <1>1, <1>2, <2>1, IdleFacts, OwnersFrame DEF Start, Same, Owner, Lasting, Using, Live, At
    <2>9. MapOK'
      BY <1>2, MapFrame DEF Lasting, Start
    <2>10. ManagerOK'
      BY <1>1, <1>2, <2>1, IdleFacts, ManagerFrame DEF ManagerOK, Same, At, Start
    <2>11. NothingLeaks'
      BY <1>1, <1>2, <2>1, LeaksFrame DEF InHandsOf, Start
    <2> QED BY <2>3, <2>5, <2>6, <2>7, <2>8, <2>9, <2>10, <2>11
  <1>3. CASE \E c \in Conns :
               /\ Unused(c)
               /\ conn' = [conn EXCEPT ![c] = Fresh(job[a].host)]
               /\ socket' = IF job[a].kind = "cleanup" THEN socket
                            ELSE [socket EXCEPT ![job[a].host] = c]
               /\ job' = [job EXCEPT ![a].at = "gate", ![a].conn = c]
               /\ UNCHANGED faults
    <2>1. PICK c \in Conns :
               /\ Unused(c)
               /\ conn' = [conn EXCEPT ![c] = Fresh(job[a].host)]
               /\ socket' = IF job[a].kind = "cleanup" THEN socket
                            ELSE [socket EXCEPT ![job[a].host] = c]
               /\ job' = [job EXCEPT ![a].at = "gate", ![a].conn = c]
               /\ UNCHANGED faults
      BY <1>3
    <2> DEFINE j == [job[a] EXCEPT !.at = "gate", !.conn = c]
    <2>2. /\ j \in Jobs /\ j.at = "gate" /\ j.kind = job[a].kind /\ j.host = job[a].host
          /\ j.conn = c /\ j.hello = job[a].hello /\ j.tracked = job[a].tracked
      BY <1>1 DEF Jobs, Stages
    <2>3. job' = [job EXCEPT ![a] = j]
      BY <2>1
    <2> HIDE DEF j
    <2>4. Hop(a) /\ job'[a] = j
      BY <2>2, <2>3 DEF TypeOK, Hop, Others
    <2>5. /\ conn' \in [Conns -> Connections] /\ conn'[c] = Fresh(job[a].host)
          /\ \A d \in Conns \ {c} : conn'[d] = conn[d]
      BY <1>1, <2>1, FreshFacts DEF TypeOK
    <2>6. /\ (\A h \in Hosts : clients[h] # c) /\ c \notin leaving
          /\ (\A b \in Actors : job[b].conn # c) /\ conn[c] = Gone
      BY <2>1 DEF Unused
    <2>7. socket' \in [Hosts -> Conns \cup {None}]
      BY <1>1, <2>1 DEF TypeOK
    <2>8. (Starter(a)' <=> Starter(a)) /\ Owner(a)'
      BY <1>1, <2>2, <2>4 DEF Starter, Owner, At
    <2>9. TypeOK'
      BY <2>1, <2>4, <2>5, <2>7 DEF TypeOK, Hop, Start
    <2>10. JobOK(a)'
      BY <1>1, <2>2, <2>4, <2>8 DEF JobOK, At, Holding, Using, Live, Start
    <2>11. JobsOK'
      BY <2>4, <2>10, JobsFrame DEF Start
    <2>12. StartsOK'
      BY <1>1, <2>2, <2>4, <2>8, StartsFrame DEF Start
    <2>13. GatesOK'
      <3>1. GateHeld(a)'
        BY <2>2, <2>4 DEF GateHeld, At
      <3>2. GateOK(c)'
        <4>0. PICK f : f = Fresh(job[a].host)
          OBVIOUS
        <4>1. /\ f.gate = None /\ f.request = None /\ f.serving = None
              /\ f.answer = None /\ f.proc = "up" /\ f.closed = FALSE
          BY <1>1, <4>0, FreshFacts
        <4>2. /\ conn'[c].gate = None /\ conn'[c].request = None /\ conn'[c].serving = None
              /\ conn'[c].answer = None /\ conn'[c].proc = "up" /\ conn'[c].closed = FALSE
          BY <2>5, <4>0, <4>1
        <4> QED BY <4>2 DEF GateOK
      <3>3. conn[c].gate = None
        BY <2>6, GoneFacts
      <3> QED BY <1>1, <2>4, <2>5, <3>1, <3>2, <3>3, GatesFrame
    <2>14. OwnersOK'
      <3>1. \A b \in Actors \ {a} : job'[b] = job[b] /\ (Owner(b)' <=> Owner(b))
        BY <2>4 DEF Hop, Others, Owner, At
      <3>2. \A b \in Actors \ {a} : job[b].conn \in Conns => Conn(b)' = Conn(b)
        BY <2>5, <2>6, <3>1 DEF Conn
      <3>3. \A b, d \in Actors : b # d /\ Owner(b)' /\ job'[b].conn # None => job'[d].conn # job'[b].conn
        BY <2>2, <2>4, <2>6, <3>1 DEF OwnersOK
      <3>4. \A b \in Actors : Owner(b)' => job'[b].conn \notin leaving'
        BY <2>2, <2>4, <2>6, <3>1 DEF OwnersOK, Start
      <3>5. \A b \in Actors : Owner(b)' \/ job'[b].at \in {"close", "reap"} =>
              \A h \in Hosts : clients'[h] # None => clients'[h] # job'[b].conn
        BY <2>2, <2>4, <2>6, <3>1 DEF OwnersOK, Start
      <3>6. \A b \in Actors : job'[b].at \in Using =>
              Conn(b)'.host = job'[b].host \/ (~Owner(b)' /\ Conn(b)'.closed)
        <4>1. Conn(a)'.host = job'[a].host
          BY <1>1, <2>2, <2>4, <2>5, FreshFacts DEF Conn
        <4>2. \A b \in Actors : job[b].at \in Using => job[b].conn \in Conns
          BY DEF JobsOK, JobOK, Holding
        <4> QED BY <3>1, <3>2, <4>1, <4>2 DEF OwnersOK
      <3>7. \A b \in Actors : job'[b].at \in {"sweep", "failed"} /\ job'[b].conn # None => Conn(b)'.closed
        BY <2>2, <2>4, <3>1, <3>2 DEF OwnersOK, TypeOK, Jobs
      <3> QED BY <3>3, <3>4, <3>5, <3>6, <3>7 DEF OwnersOK
    <2>15. MapOK'
      <3>1. \A h \in Hosts : clients[h] # None => clients[h] \in Conns /\ conn'[clients[h]] = conn[clients[h]]
        BY <2>5, <2>6 DEF TypeOK
      <3>2. \A d \in leaving : conn'[d] = conn[d]
        BY <2>5, <2>6 DEF TypeOK
      <3> QED BY <3>1, <3>2 DEF MapOK, Start
    <2>16. ManagerOK'
      <3>1. job[a].tracked
        BY <1>1 DEF JobOK
      <3>2. manager # "closed"
        BY <1>1, <3>1 DEF ManagerOK
      <3> QED BY <1>1, <2>2, <2>4, <3>2, IdleFacts, ManagerFrame DEF At, Start
    <2>17. NothingLeaks'
      <3>1. InHandsOf(c, a)'
        BY <1>1, <2>2, <2>4 DEF InHandsOf
      <3>2. \A b \in Actors \ {a}, d \in Conns : InHandsOf(d, b) => InHandsOf(d, b)'
        BY <2>4 DEF Hop, Others, InHandsOf
      <3>3. \A d \in Conns : ~InHandsOf(d, a)
        BY <1>1 DEF InHandsOf
      <3> QED BY <2>5, <3>1, <3>2, <3>3 DEF NothingLeaks, Start
    <2> QED BY <2>9, <2>11, <2>12, <2>13, <2>14, <2>15, <2>16, <2>17
  <1> QED BY <1>2, <1>3 DEF Start

-----------------------------------------------------------------------------
(* A request begins.                                                        *)

(* A request begins without a connection, alone in adding its host.         *)
LEMMA RequestBegins ==
  ASSUME IInv, NEW a \in Workers, NEW kind \in Kinds, NEW h \in Hosts, Begin(a, kind, h),
         NEW j \in Jobs, job' = [job EXCEPT ![a] = j], j.kind = kind, j.host = h, j.conn = None,
         \/ j.at = "client" /\ kind \in {"refresh", "action"} /\ ~j.hello /\ ~j.tracked
         \/ j.at = "start" /\ kind \in {"cleanup", "add"} /\ j.hello /\ j.tracked,
         UNCHANGED <<conn, clients, starting, known, socket, manager, leaving, faults>>
  PROVE  IInv'
  <1> USE DEF IInv
  <1>1. /\ a \in Actors /\ a # Closer /\ job[a] = Idle /\ manager = "open"
        /\ known[h] = (kind # "add")
        /\ kind = "add" => \A b \in Workers : job[b].kind = "add" => job[b].host # h
    BY DEF Begin, Actors
  <1>2. Hop(a) /\ job'[a] = j
    BY <1>1 DEF TypeOK, Hop, Others
  <1>3. ~Starter(a) /\ ~Starter(a)' /\ ~Owner(a) /\ (Owner(a)' => j.tracked)
    BY <1>1, <1>2, IdleFacts DEF Starter, Owner, At
  <1>4. TypeOK'
    BY <1>2 DEF TypeOK, Hop
  <1>5. JobOK(a)'
    BY <1>1, <1>2, <1>3 DEF JobOK, At, Holding, Using, Live
  <1>6. JobsOK'
    BY <1>1, <1>2, <1>5, JobsFrame
  <1>7. StartsOK'
    <2>1. \A b \in Workers \ {a} : job'[b] = job[b] /\ (Starter(b)' <=> Starter(b))
      BY <1>2 DEF Hop, Others, Starter, At, Actors
    <2>2. \A b \in Workers, x \in Hosts : starting'[x] = b <=> Starter(b)' /\ job'[b].host = x
      BY <1>3, <2>1 DEF StartsOK
    <2>3. \A b, d \in Workers : b # d /\ job'[b].kind = "add" /\ job'[d].kind = "add" =>
            job'[b].host # job'[d].host
      BY <1>1, <1>2, <2>1 DEF StartsOK
    <2> QED BY <2>2, <2>3 DEF StartsOK
  <1>8. GatesOK'
    BY <1>1, <1>2, IdleFacts, GatesStay
  <1>9. leaving = {}
    BY <1>1 DEF ManagerOK
  <1>10. OwnersOK'
    <2>1. \A b \in Actors \ {a} : job'[b] = job[b] /\ (Owner(b)' <=> Owner(b)) /\ Conn(b)' = Conn(b)
      BY <1>2 DEF Hop, Others, Owner, At, Conn
    <2>2. \A b, d \in Actors : b # d /\ Owner(b)' /\ job'[b].conn # None => job'[d].conn # job'[b].conn
      BY <1>2, <2>1 DEF OwnersOK
    <2>3. \A b \in Actors : Owner(b)' \/ job'[b].at \in {"close", "reap"} =>
            \A x \in Hosts : clients'[x] # None => clients'[x] # job'[b].conn
      BY <1>2, <2>1 DEF OwnersOK
    <2>4. \A b \in Actors : job'[b].at \in Using =>
            Conn(b)'.host = job'[b].host \/ (~Owner(b)' /\ Conn(b)'.closed)
      BY <1>2, <2>1 DEF OwnersOK, Using, Live
    <2>5. \A b \in Actors : job'[b].at \in {"sweep", "failed"} /\ job'[b].conn # None => Conn(b)'.closed
      BY <1>2, <2>1 DEF OwnersOK
    <2> QED BY <1>9, <2>2, <2>3, <2>4, <2>5 DEF OwnersOK
  <1>11. MapOK'
    BY MapFrame DEF Lasting
  <1>12. ManagerOK'
    BY <1>1, <1>2 DEF ManagerOK, Hop, Others, Actors
  <1>13. NothingLeaks'
    <2>1. \A c \in Conns : ~InHandsOf(c, a)
      BY <1>1, IdleFacts DEF InHandsOf
    <2> QED BY <1>1, <1>2, <2>1, LeaksFrame
  <1> QED BY <1>4, <1>6, <1>7, <1>8, <1>10, <1>11, <1>12, <1>13

(* The four kinds of request.                                               *)
LEMMA RequestKeeps ==
  ASSUME IInv, NEW a \in Workers, NEW kind \in Kinds, NEW h \in Hosts,
         Request(a, kind, h) \/ RequestOwn(a, kind, h)
  PROVE  IInv'
  <1>1. CASE Request(a, kind, h)
    <2> DEFINE j == [Idle EXCEPT !.at = "client", !.kind = kind, !.host = h]
    <2>1. /\ j \in Jobs /\ j.at = "client" /\ j.kind = kind /\ j.host = h /\ j.conn = None
          /\ ~j.hello /\ ~j.tracked
      BY DEF Idle, Jobs, Stages, Kinds
    <2>2. job' = [job EXCEPT ![a] = j]
      BY <1>1 DEF Request
    <2> HIDE DEF j
    <2> QED BY <1>1, <2>1, <2>2, RequestBegins DEF Request
  <1>2. CASE RequestOwn(a, kind, h)
    <2> DEFINE j == [Idle EXCEPT !.at = "start", !.kind = kind, !.host = h,
                                 !.hello = TRUE, !.tracked = TRUE]
    <2>1. /\ j \in Jobs /\ j.at = "start" /\ j.kind = kind /\ j.host = h /\ j.conn = None
          /\ j.hello /\ j.tracked
      BY DEF Idle, Jobs, Stages, Kinds
    <2>2. job' = [job EXCEPT ![a] = j]
      BY <1>2 DEF RequestOwn
    <2> HIDE DEF j
    <2> QED BY <1>2, <2>1, <2>2, RequestBegins DEF RequestOwn
  <1> QED BY <1>1, <1>2

-----------------------------------------------------------------------------
(* The manager closes and opens again.                                      *)

(* Close empties the map into its list: one connection per known host, none *)
(* of which is in an owner's hands.                                         *)
LEMMA ShutdownKeeps ==
  ASSUME IInv, Shutdown
  PROVE  IInv'
  <1> USE DEF IInv
  <1>1. ASSUME NEW a \in Actors
        PROVE  /\ job'[a] \in Jobs /\ Same(a)
               /\ job'[a].at = job[a].at /\ job'[a].after = job[a].after
               /\ job[a] = Idle => job'[a] = Idle
    <2>1. job[a] \in Jobs
      BY DEF TypeOK
    <2>2. job'[a] = IF job[a] = Idle THEN Idle ELSE [job[a] EXCEPT !.expired = TRUE]
      BY DEF Shutdown
    <2> QED BY <2>1, <2>2 DEF Same, Jobs
  <1>2. /\ manager = "open" /\ manager' = "waiting" /\ leaving = {}
        /\ leaving' = {clients[h] : h \in Hosts} \ {None}
        /\ \A h \in Hosts : clients'[h] = None
        /\ UNCHANGED <<conn, starting, known, socket, faults>>
    BY DEF Shutdown, ManagerOK
  <1>3. \A a \in Actors : (Starter(a)' <=> Starter(a)) /\ (Owner(a)' <=> Owner(a))
    BY <1>1 DEF Same, Starter, Owner, At
  <1>4. \A a \in Workers : a \in Actors
    BY DEF Actors
  <1>5. TypeOK'
    <2>1. job' \in [Actors -> Jobs]
      BY <1>1 DEF Shutdown
    <2>2. clients' \in [Hosts -> Conns \cup {None}]
      BY DEF Shutdown
    <2>3. leaving' \in SUBSET Conns
      BY <1>2 DEF TypeOK
    <2> QED BY <1>2, <2>1, <2>2, <2>3 DEF TypeOK
  <1>6. JobsOK'
    BY <1>1, <1>2, <1>3 DEF JobsOK, JobOK, Same, At
  <1>7. StartsOK'
    BY <1>1, <1>2, <1>3, <1>4 DEF StartsOK, Same
  <1>8. GatesOK'
    <2>1. ASSUME NEW c \in Conns
          PROVE  GateOK(c)'
      <3>1. GateOK(c) /\ conn[c].gate \in Actors \cup {None}
        BY DEF GatesOK, TypeOK, Connections
      <3> QED BY <1>1, <1>2, <3>1 DEF GateOK, Same, At
    <2>2. ASSUME NEW a \in Actors
          PROVE  GateHeld(a)'
      BY <1>1, <1>2 DEF GatesOK, GateHeld, Same, At, Conn
    <2> QED BY <2>1, <2>2 DEF GatesOK
  <1>9. OwnersOK'
    BY <1>1, <1>2, <1>3 DEF OwnersOK, Same, Conn
  <1>10. MapOK'
    <2>1. \A c \in leaving' : \E h \in Hosts : clients[h] = c /\ conn[c].host = h /\ known[h]
                                               /\ starting[h] = None
      BY <1>2 DEF MapOK, StartsOK
    <2> QED BY <1>2, <2>1 DEF MapOK
  <1>11. ManagerOK'
    BY <1>1, <1>2 DEF ManagerOK, Actors
  <1>12. NothingLeaks'
    <2>1. \A a \in Actors, c \in Conns : InHandsOf(c, a) => InHandsOf(c, a)'
      BY <1>1 DEF InHandsOf, Same
    <2>2. \A h \in Hosts, c \in Conns : clients[h] = c => c \in leaving'
      BY <1>2
    <2> QED BY <1>2, <2>1, <2>2 DEF NothingLeaks
  <1> QED BY <1>5, <1>6, <1>7, <1>8, <1>9, <1>10, <1>11, <1>12

(* Close takes the next client of its list.                                 *)
LEMMA CloserKeeps ==
  ASSUME IInv, CloseNext
  PROVE  IInv'
  <1> USE DEF IInv
  <1>1. PICK c \in leaving :
          /\ leaving' = leaving \ {c}
          /\ job' = [job EXCEPT ![Closer] =
               [Idle EXCEPT !.at = "close", !.kind = "shutdown", !.conn = c]]
    BY DEF CloseNext
  <1> DEFINE j == [Idle EXCEPT !.at = "close", !.kind = "shutdown", !.conn = c]
  <1>2. c \in Conns /\ Closer \in Actors /\ job[Closer] = Idle /\ manager = "closing"
        /\ \A h \in Hosts : clients[h] = None
    BY <1>1 DEF TypeOK, Actors, CloseNext, ManagerOK
  <1>3. /\ j \in Jobs /\ j.at = "close" /\ j.kind = "shutdown" /\ j.conn = c /\ j.after = "idle"
        /\ ~j.hello /\ ~j.tracked
    BY <1>2 DEF Idle, Jobs, Stages
  <1>4. job' = [job EXCEPT ![Closer] = j]
    BY <1>1
  <1> HIDE DEF j
  <1>5. Hop(Closer) /\ job'[Closer] = j
    BY <1>2, <1>3, <1>4 DEF TypeOK, Hop, Others
  <1>6. ~Starter(Closer) /\ ~Starter(Closer)' /\ ~Owner(Closer)'
    BY <1>2, <1>3, <1>5, IdleFacts DEF Starter, Owner, At
  <1>7. TypeOK'
    BY <1>1, <1>5 DEF TypeOK, Hop, CloseNext
  <1>8. JobOK(Closer)'
    BY <1>2, <1>3, <1>5, <1>6 DEF JobOK, At, Holding, Using, Live
  <1>9. JobsOK'
    BY <1>2, <1>5, <1>8, JobsFrame DEF CloseNext
  <1>10. StartsOK'
    BY <1>2, <1>3, <1>5, <1>6, StartsFrame DEF CloseNext
  <1>11. GatesOK'
    BY <1>2, <1>3, <1>5, IdleFacts, GatesStay DEF CloseNext
  <1>12. OwnersOK'
    <2>1. \A b \in Actors \ {Closer} :
            job'[b] = job[b] /\ (Owner(b)' <=> Owner(b)) /\ Conn(b)' = Conn(b)
      BY <1>5 DEF Hop, Others, Owner, At, Conn, CloseNext
    <2>2. \A b \in Actors : Owner(b) => job[b].conn # c
      BY <1>1 DEF OwnersOK
    <2>3. \A b, d \in Actors : b # d /\ Owner(b)' /\ job'[b].conn # None => job'[d].conn # job'[b].conn
      BY <1>3, <1>5, <1>6, <2>1, <2>2 DEF OwnersOK
    <2>4. \A b \in Actors : Owner(b)' => job'[b].conn \notin leaving'
      BY <1>1, <1>6, <2>1 DEF OwnersOK
    <2>5. \A h \in Hosts : clients'[h] = None
      BY <1>2 DEF CloseNext
    <2>6. \A b \in Actors : job'[b].at \in Using =>
            Conn(b)'.host = job'[b].host \/ (~Owner(b)' /\ Conn(b)'.closed)
      BY <1>3, <1>5, <2>1 DEF OwnersOK, Using, Live
    <2>7. \A b \in Actors : job'[b].at \in {"sweep", "failed"} /\ job'[b].conn # None => Conn(b)'.closed
      BY <1>3, <1>5, <2>1 DEF OwnersOK
    <2> QED BY <2>3, <2>4, <2>5, <2>6, <2>7 DEF OwnersOK
  <1>13. MapOK'
    BY <1>1, MapFrame DEF Lasting, CloseNext
  <1>14. ManagerOK'
    BY <1>2, <1>5 DEF ManagerOK, CloseNext, Hop, Others, Actors
  <1>15. NothingLeaks'
    <2>1. InHandsOf(c, Closer)'
      BY <1>3, <1>5 DEF InHandsOf
    <2>2. \A b \in Actors \ {Closer}, d \in Conns : InHandsOf(d, b) => InHandsOf(d, b)'
      BY <1>5 DEF Hop, Others, InHandsOf
    <2>3. \A d \in Conns : ~InHandsOf(d, Closer)
      BY <1>2, IdleFacts DEF InHandsOf
    <2> QED BY <1>1, <1>2, <2>1, <2>2, <2>3 DEF NothingLeaks, CloseNext
  <1> QED BY <1>7, <1>9, <1>10, <1>11, <1>12, <1>13, <1>14, <1>15

(* The other stages of Close, and the next start of the editor.             *)
LEMMA ManagerKeeps ==
  ASSUME IInv, StartsDone \/ Closed \/ Reopen
  PROVE  IInv'
  <1> USE DEF IInv
  <1>1. UNCHANGED <<conn, clients, starting, known, leaving, job, faults>>
    BY DEF StartsDone, Closed, Reopen
  <1>2. TypeOK'
    BY <1>1 DEF TypeOK, StartsDone, Closed, Reopen
  <1>3. JobsOK' /\ StartsOK' /\ MapOK'
    BY <1>1 DEF JobsOK, JobOK, StartsOK, MapOK, Starter, Owner, At
  <1>4. GatesOK' /\ OwnersOK'
    BY <1>1 DEF GatesOK, GateOK, GateHeld, OwnersOK, Owner, At, Conn
  <1>5. ManagerOK'
    BY <1>1 DEF ManagerOK, StartsDone, Closed, Reopen
  <1>6. NothingLeaks'
    BY <1>1 DEF NothingLeaks, InHandsOf
  <1> QED BY <1>2, <1>3, <1>4, <1>5, <1>6

-----------------------------------------------------------------------------
(* The invariant is inductive.                                              *)

(* The invariant holds of an editor that has just started.                  *)
LEMMA InitHolds == Init => IInv
  <1> SUFFICES ASSUME Init
               PROVE  IInv
    OBVIOUS
  <1>1. \A a \in Actors : job[a] = Idle
    BY DEF Init
  <1>2. \A c \in Conns : conn[c] = Gone
    BY DEF Init
  <1>3. Closer \in Actors /\ (\A a \in Workers : a \in Actors)
    BY DEF Actors
  <1>4. TypeOK
    BY IdleFacts, GoneFacts DEF Init, TypeOK
  <1>5. JobsOK
    BY <1>1, IdleFacts DEF JobsOK, JobOK, Starter, Owner, At, Holding, Using, Live
  <1>6. StartsOK
    <2>1. \A a \in Workers : ~Starter(a) /\ job[a].kind # "add" /\ a # None
      BY <1>1, <1>3, IdleFacts DEF Starter, At
    <2> QED BY <2>1 DEF StartsOK, Init
  <1>7. GatesOK
    <2>1. \A c \in Conns : GateOK(c)
      BY <1>2, GoneFacts DEF GateOK
    <2>2. \A a \in Actors : GateHeld(a)
      BY <1>1, IdleFacts DEF GateHeld, At
    <2> QED BY <2>1, <2>2 DEF GatesOK
  <1>8. OwnersOK
    <2>1. \A a \in Actors : ~Owner(a) /\ job[a].at = "idle"
      BY <1>1, IdleFacts DEF Owner, At
    <2> QED BY <2>1 DEF OwnersOK, Using, Live
  <1>9. MapOK
    BY DEF Init, MapOK
  <1>10. ManagerOK
    BY <1>1, <1>3, IdleFacts DEF Init, ManagerOK
  <1>11. NothingLeaks
    BY <1>2, GoneFacts DEF NothingLeaks
  <1> QED BY <1>4, <1>5, <1>6, <1>7, <1>8, <1>9, <1>10, <1>11 DEF IInv

(* The steps of one goroutine.                                              *)
LEMMA AdvanceKeeps ==
  ASSUME IInv, NEW a \in Actors, Advance(a)
  PROVE  IInv'
  <1>1. CASE GiveUp(a) \/ TakeGate(a) \/ Send(a) \/ Receive(a) \/ Watch(a)
    BY <1>1, GiveUpKeeps, TakeGateKeeps, SendKeeps, ReceiveKeeps, WatchKeeps
  <1>2. CASE Close(a) \/ Reap(a) \/ Sweep(a)
    BY <1>2, CloseKeeps, ReapKeeps, SweepKeeps
  <1>3. CASE Client(a) \/ Await(a) \/ Start(a) \/ Hello(a)
    BY <1>3, ClientKeeps, AwaitKeeps, StartKeeps, HelloKeeps
  <1>4. CASE Register(a) \/ Failed(a) \/ Commit(a) \/ Drop(a)
    BY <1>4, RegisterKeeps, FailedKeeps, CommitKeeps, DropKeeps
  <1> QED BY <1>1, <1>2, <1>3, <1>4 DEF Advance

(* Nothing changes.                                                         *)
LEMMA StutterKeeps ==
  ASSUME IInv, UNCHANGED vars
  PROVE  IInv'
  BY DEF IInv, vars, TypeOK, JobsOK, JobOK, StartsOK, GatesOK, GateOK, GateHeld, OwnersOK, MapOK,
         ManagerOK, NothingLeaks, InHandsOf, Starter, Owner, At, Conn

(* Every step keeps the invariant.                                          *)
LEMMA NextKeeps == IInv /\ [Next]_vars => IInv'
  <1> SUFFICES ASSUME IInv, [Next]_vars
               PROVE  IInv'
    OBVIOUS
  <1>1. ASSUME NEW a \in Workers, NEW kind \in Kinds, NEW h \in Hosts,
               Request(a, kind, h) \/ RequestOwn(a, kind, h)
        PROVE  IInv'
    BY <1>1, RequestKeeps
  <1>2. ASSUME NEW a \in Actors, Advance(a) \/ Expire(a)
        PROVE  IInv'
    BY <1>2, AdvanceKeeps, ExpireKeeps
  <1>3. ASSUME NEW c \in Conns, HostStep(c) \/ Break(c)
        PROVE  IInv'
    BY <1>3, ServeKeeps, AnswerKeeps, BreakKeeps DEF HostStep
  <1>4. CASE ManagerStep \/ Shutdown \/ Reopen
    BY <1>4, ManagerKeeps, CloserKeeps, ShutdownKeeps DEF ManagerStep
  <1>5. CASE UNCHANGED vars
    BY <1>5, StutterKeeps
  <1> QED BY <1>1, <1>2, <1>3, <1>4, <1>5 DEF Next

(* The invariant holds of every reachable state.                            *)
LEMMA Inductive == Spec => []IInv
  BY InitHolds, NextKeeps, PTL DEF Spec

-----------------------------------------------------------------------------
(* What follows from it.                                                    *)

(* A usable connection that nobody closes, and that no cleanup keeps to     *)
(* itself, is the map's, or was when Close emptied it, or is being started  *)
(* for its host by the goroutine that the manager names, or for a new host  *)
(* by the one that adds it.                                                 *)
LEMMA WhoHolds ==
  ASSUME IInv, NEW c \in Conns, conn[c].proc # "gone", conn[c].stdin = "open",
         \A a \in Actors : job[a].conn = c => job[a].at # "close" /\ job[a].kind # "cleanup"
  PROVE  \/ clients[conn[c].host] = c /\ conn[c].host \in Hosts /\ known[conn[c].host]
         \/ /\ c \in leaving /\ ~conn[c].closed /\ conn[c].host \in Hosts
            /\ known[conn[c].host] /\ starting[conn[c].host] = None
         \/ \E a \in Workers : /\ job[a].conn = c /\ job[a].host = conn[c].host
                               /\ conn[c].host \in Hosts
                               /\ \/ starting[conn[c].host] = a /\ known[conn[c].host]
                                  \/ job[a].kind = "add" /\ ~known[conn[c].host]
  <1> USE DEF IInv
  <1>1. ~conn[c].closed
    BY DEF GatesOK, GateOK
  <1>2. ASSUME NEW h \in Hosts, clients[h] = c
        PROVE  clients[conn[c].host] = c /\ conn[c].host \in Hosts /\ known[conn[c].host]
    BY <1>2 DEF MapOK
  <1>3. ASSUME c \in leaving
        PROVE  conn[c].host \in Hosts /\ known[conn[c].host] /\ starting[conn[c].host] = None
    BY <1>1, <1>3 DEF MapOK
  <1>4. ASSUME NEW a \in Actors, InHandsOf(c, a)
        PROVE  /\ a \in Workers /\ job[a].conn = c /\ job[a].host = conn[c].host
               /\ conn[c].host \in Hosts
               /\ \/ starting[conn[c].host] = a /\ known[conn[c].host]
                  \/ job[a].kind = "add" /\ ~known[conn[c].host]
    <2>1. JobOK(a) /\ GateHeld(a) /\ job[a] \in Jobs /\ job[a].conn = c
      BY <1>4 DEF JobsOK, GatesOK, TypeOK, InHandsOf
    <2>2. job[a].at # "reap" /\ job[a].at # "close" /\ job[a].kind # "cleanup"
      BY <2>1 DEF GateHeld, At, Conn
    <2>3. a # Closer
      BY <1>4, <2>1, <2>2 DEF InHandsOf, JobOK
    <2>4. Owner(a)
      BY <1>4, <2>1, <2>2 DEF InHandsOf, Owner, JobOK, At
    <2>5. job[a].at \notin {"sweep", "failed"}
      BY <1>1, <2>1 DEF OwnersOK, Conn
    <2>6. job[a].at \notin {"idle", "start", "client", "await"}
      BY <2>1, IdleFacts DEF JobOK, At
    <2>7. job[a].at \in Using
      BY <2>1, <2>2, <2>5, <2>6 DEF Jobs, Stages, Using, Live
    <2>8. conn[c].host = job[a].host
      BY <2>1, <2>4, <2>7 DEF OwnersOK, Conn
    <2>9. /\ a \in Workers /\ job[a].host \in Hosts /\ job[a].kind \in Kinds
          /\ known[job[a].host] <=> job[a].kind # "add"
      BY <2>1, <2>3, <2>6 DEF JobOK, At, Actors
    <2>10. job[a].kind # "add" => Starter(a)
      BY <2>2, <2>4, <2>9 DEF Starter, Owner, Kinds
    <2>11. Starter(a) => starting[job[a].host] = a
      BY <2>9 DEF StartsOK
    <2> QED BY <2>1, <2>8, <2>9, <2>10, <2>11
  <1> QED BY <1>1, <1>2, <1>3, <1>4 DEF NothingLeaks

(* Two usable connections of one host would be held in two of the ways      *)
(* WhoHolds lists, or twice in the same way; the starts, the map, the list  *)
(* of Close and the saved state exclude each pair.                          *)
LEMMA SharedAlone ==
  ASSUME IInv
  PROVE  OneConnectionPerHost
  <1> SUFFICES ASSUME NEW c \in Conns, NEW d \in Conns, c # d, conn[c].host = conn[d].host,
                      \A x \in {c, d} :
                        /\ conn[x].proc # "gone" /\ conn[x].stdin = "open"
                        /\ \A a \in Actors :
                             job[a].conn = x => job[a].at # "close" /\ job[a].kind # "cleanup"
               PROVE  FALSE
    BY DEF OneConnectionPerHost
  <1> USE DEF IInv
  <1> DEFINE Mapped(x) == clients[conn[x].host] = x /\ conn[x].host \in Hosts /\ known[conn[x].host]
             Taken(x) == /\ x \in leaving /\ ~conn[x].closed /\ conn[x].host \in Hosts
                         /\ known[conn[x].host] /\ starting[conn[x].host] = None
             Starting(x) == \E a \in Workers :
                              job[a].conn = x /\ conn[x].host \in Hosts
                              /\ starting[conn[x].host] = a /\ known[conn[x].host]
             Adding(x) == \E a \in Workers :
                            /\ job[a].conn = x /\ job[a].host = conn[x].host
                            /\ job[a].kind = "add" /\ ~known[conn[x].host]
  <1>1. ASSUME NEW x \in {c, d}
        PROVE  Mapped(x) \/ Taken(x) \/ Starting(x) \/ Adding(x)
    BY WhoHolds
  <1>2. None \notin Workers /\ None \notin Conns
    BY DEF Actors
  <1>3. ASSUME NEW x \in {c, d}, NEW y \in {c, d}, x # y, Mapped(x)
        PROVE  FALSE
    <2>1. ~Mapped(y)
      BY <1>3
    <2>2. ~Taken(y)
      BY <1>2, <1>3 DEF ManagerOK, TypeOK
    <2>3. ~Starting(y)
      BY <1>2, <1>3 DEF StartsOK
    <2>4. ~Adding(y)
      BY <1>3
    <2> QED BY <1>1, <2>1, <2>2, <2>3, <2>4
  <1>4. ASSUME NEW x \in {c, d}, NEW y \in {c, d}, x # y, Taken(x)
        PROVE  FALSE
    <2>1. ~Taken(y)
      BY <1>4 DEF MapOK
    <2>2. ~Starting(y)
      BY <1>2, <1>4
    <2>3. ~Adding(y)
      BY <1>4
    <2> QED BY <1>1, <1>3, <2>1, <2>2, <2>3
  <1>5. ~(Starting(c) /\ Starting(d))
    OBVIOUS
  <1>6. ~(Adding(c) /\ Adding(d))
    BY DEF StartsOK
  <1>7. ASSUME NEW x \in {c, d}, NEW y \in {c, d}
        PROVE  ~(Starting(x) /\ Adding(y))
    OBVIOUS
  <1> HIDE DEF Mapped, Taken, Starting, Adding
  <1> QED BY <1>1, <1>3, <1>4, <1>5, <1>6, <1>7

(* Once Close is over no request is tracked, so nobody is starting or       *)
(* registering a connection.                                                *)
LEMMA ClosedEmpty ==
  ASSUME IInv
  PROVE  CloseLeavesNothing
  <1> SUFFICES ASSUME manager = "closed"
               PROVE  /\ \A h \in Hosts : clients[h] = None /\ starting[h] = None /\ socket[h] = None
                      /\ \A c \in Conns : conn[c].proc # "gone" =>
                           \E a \in Workers : job[a].conn = c /\ job[a].at \in {"close", "reap"}
    BY DEF CloseLeavesNothing
  <1> USE DEF IInv
  <1>1. /\ leaving = {} /\ job[Closer] = Idle
        /\ \A h \in Hosts : clients[h] = None /\ socket[h] = None
        /\ \A a \in Workers : ~job[a].tracked
    BY DEF ManagerOK
  <1>2. \A a \in Workers : ~Owner(a)
    BY <1>1 DEF JobsOK, JobOK, Actors
  <1>3. ASSUME NEW h \in Hosts
        PROVE  starting[h] = None
    BY <1>2 DEF StartsOK, TypeOK, Starter, Owner
  <1>4. ASSUME NEW c \in Conns, conn[c].proc # "gone"
        PROVE  \E a \in Workers : job[a].conn = c /\ job[a].at \in {"close", "reap"}
    <2>1. PICK a \in Actors : InHandsOf(c, a)
      BY <1>1, <1>4 DEF NothingLeaks
    <2>2. a \in Workers
      BY <1>1, <2>1, IdleFacts DEF InHandsOf, Actors
    <2>3. job[a].conn = c /\ job[a].at \in {"close", "reap"}
      <3>1. JobOK(a)
        BY DEF JobsOK
      <3> QED BY <1>2, <2>1, <2>2, <3>1 DEF InHandsOf, Owner, JobOK, At
    <2> QED BY <2>2, <2>3
  <1> QED BY <1>1, <1>3, <1>4

(* Whatever the numbers of hosts, workers and connections, every variable   *)
(* of the connections keeps its type.                                       *)
THEOREM TypeCorrect == Spec => []TypeOK
  BY Inductive, PTL DEF IInv

(* HostClient.Call: no call finds the late answer of one that gave up       *)
(* before it on the same connection, because the gate is given up only by   *)
(* a call with nothing under way, or with its process gone.                 *)
THEOREM OwnAnswers == Spec => []AnswersAreOwn
  <1>1. IInv => AnswersAreOwn
    BY DEF IInv, GatesOK, GateHeld, GateOK, AnswersAreOwn, JobsOK, JobOK, Actors, At, Conn,
           Holding, Using, Live
  <1> QED BY <1>1, Inductive, PTL

(* Manager and HostClient: a connection process that runs is in the map, on *)
(* the list of Close, or in the hands of one who will close or register it. *)
THEOREM NoLeak == Spec => []NothingLeaks
  BY Inductive, PTL DEF IInv

(* Manager.client and Manager.AddHost: of the connections that share the    *)
(* control socket of a host, at most one is usable and not being closed.    *)
THEOREM OnePerHost == Spec => []OneConnectionPerHost
  BY SharedAlone, Inductive, PTL

(* Manager.Close: when it returns, the map, the starts and the sockets are  *)
(* empty, and what still runs is being closed by the refresh that dropped it. *)
THEOREM CleanClose == Spec => []CloseLeavesNothing
  BY ClosedEmpty, Inductive, PTL
=============================================================================
