-------------------------- MODULE AccountSelection --------------------------
(* The choice of the account a command runs on                              *)
(* (internal/monitor/usage/select.go): the code's passes over the measured  *)
(* accounts, and the order that the documentation promises.                 *)
(*                                                                          *)
(* A measurement m maps every account that was asked to a record            *)
(*   [fetched, used, reset, model]                                          *)
(* fetched: the usage of the account could be read; used: percent of its    *)
(* week, Unavailable when the answer has none; reset: seconds until the     *)
(* week ends, NoReset when unknown; model: the window is the requested      *)
(* model's own.  "spark" says that the requested model is one that needs a  *)
(* window of its own.                                                       *)
EXTENDS Integers, FiniteSets

CONSTANTS DefaultAccount,
          DefaultPriority   \* 100 in the code; profiles have 0, the best

ASSUME PriorityAssumption == DefaultPriority \in Nat \ {0}

Priority(a) == IF a = DefaultAccount THEN DefaultPriority ELSE 0

Unavailable == -1
NoReset == -1
Measured == [fetched : BOOLEAN, used : Nat \cup {Unavailable}, reset : Int, model : BOOLEAN]
NoAccount == "none"

(* The window counts for the request.                                       *)
Counts(r, spark) == r.fetched /\ (spark => r.model)

(* Mutant: an account at exactly 100 % is still taken.                      *)
ExhaustedOver(r) == r.used # Unavailable /\ r.used > 100

Exhausted(r) == r.used # Unavailable /\ r.used >= 100

HasRoom(r, spark) ==
  Counts(r, spark) /\ r.used # Unavailable /\ ~Exhausted(r)

(* An account of a better priority has room.                                *)
Blocked(m, a, spark) ==
  \E b \in DOMAIN m : Priority(b) < Priority(a) /\ HasRoom(m[b], spark)

Candidates(m, spark) ==
  {a \in DOMAIN m : HasRoom(m[a], spark) /\ ~Blocked(m, a, spark)}

(* A reset that passed already counts as due now.                           *)
SecondsUntilReset(r) == IF r.reset < 0 THEN 0 ELSE r.reset

OfPriority(accounts, k) == {a \in accounts : Priority(a) = k}

Soonest(m, accounts) ==
  {a \in accounts : \A b \in accounts :
     SecondsUntilReset(m[a]) <= SecondsUntilReset(m[b])}

(* The pass over the priorities: in each, the known reset that comes first, *)
(* else any account whose reset is unknown.                                 *)
Prioritized(m, accounts) ==
  LET known == {a \in accounts : m[a].reset # NoReset}
      Pick(k) == IF OfPriority(known, k) # {}
                   THEN Soonest(m, OfPriority(known, k))
                   ELSE OfPriority(accounts \ known, k)
      ks == {Priority(a) : a \in accounts}
  IN  IF accounts = {} THEN {} ELSE Pick(CHOOSE k \in ks : \A l \in ks : k <= l)

(* The reserve stands in when no account qualified, whatever is known of it *)
(* itself.                                                                  *)
ReserveFallback(m, spark) ==
  LET reserves == {a \in DOMAIN m : Priority(a) > 0 /\ ~Blocked(m, a, spark)}
      ks == {Priority(a) : a \in reserves}
  IN  {a \in reserves : \A k \in ks : Priority(a) <= k}

(* The accounts among which chance decides.                                 *)
Choices(m, spark) ==
  LET best == Prioritized(m, Candidates(m, spark)) IN
  IF best # {} THEN best ELSE ReserveFallback(m, spark)

-----------------------------------------------------------------------------
(* The promise: a profile with room before the reserve, the one whose known *)
(* week ends first before the others, one whose end is unknown only when    *)
(* none is known; never a profile that is used up or could not be measured; *)
(* the reserve only when no profile has room.                               *)
Promised(m, a, spark) ==
  LET usable == {b \in DOMAIN m : /\ Priority(b) = 0 /\ m[b].fetched
                                  /\ m[b].used \in 0..99
                                  /\ spark => m[b].model}
  IN  /\ usable = {} => Priority(a) > 0
      /\ usable # {} =>
           /\ a \in usable
           /\ \A b \in usable : m[b].reset # NoReset =>
                /\ m[a].reset # NoReset
                /\ SecondsUntilReset(m[a]) <= SecondsUntilReset(m[b])
=============================================================================
