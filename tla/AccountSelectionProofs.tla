----------------------- MODULE AccountSelectionProofs -----------------------
(* The selection keeps the promise, for any accounts and any measurement.   *)
(* The code looks for the best account in passes, one priority after the    *)
(* other and known resets before unknown ones; the promise compares one     *)
(* account with all others.  What links them is that a profile with room is *)
(* never blocked, so that the candidates' best priority is that of profiles *)
(* whenever one has room.                                                   *)
EXTENDS AccountSelection, WellFoundedInduction, TLAPS

(* The profiles with room, as the promise has them.                         *)
Usable(m, spark) ==
  {b \in DOMAIN m : /\ Priority(b) = 0 /\ m[b].fetched
                    /\ m[b].used \in 0..99
                    /\ spark => m[b].model}

LEMMA PriorityIsNat == \A a : Priority(a) \in Nat
  BY PriorityAssumption DEF Priority

(* The code's test of the window and the promise's bounds agree.            *)
LEMMA RoomIsUsable ==
  ASSUME NEW D, NEW m \in [D -> Measured], NEW spark \in BOOLEAN, NEW a \in D
  PROVE  HasRoom(m[a], spark) <=>
           m[a].fetched /\ m[a].used \in 0..99 /\ (spark => m[a].model)
  <1>1. m[a] \in Measured
    OBVIOUS
  <1>2. /\ m[a].fetched \in BOOLEAN /\ m[a].model \in BOOLEAN
        /\ m[a].used \in Nat \cup {-1}
    BY <1>1 DEF Measured, Unavailable
  <1>3. m[a].used \in 0..99 <=> m[a].used # Unavailable /\ ~Exhausted(m[a])
    BY <1>2 DEF Exhausted, Unavailable
  <1> QED BY <1>3, Zenon DEF HasRoom, Counts

(* No account comes before a profile.                                       *)
LEMMA UsableAreCandidates ==
  ASSUME NEW D, NEW m \in [D -> Measured], NEW spark \in BOOLEAN
  PROVE  Usable(m, spark) = {a \in Candidates(m, spark) : Priority(a) = 0}
  <1>0. DOMAIN m = D
    OBVIOUS
  <1>1. ASSUME NEW a \in D, Priority(a) = 0
        PROVE  ~Blocked(m, a, spark)
    BY <1>1, PriorityIsNat DEF Blocked
  <1> QED BY <1>0, <1>1, RoomIsUsable DEF Usable, Candidates

(* While a profile has room, none but profiles is a candidate.              *)
LEMMA UsableBlockTheRest ==
  ASSUME NEW D, NEW m \in [D -> Measured], NEW spark \in BOOLEAN,
         Usable(m, spark) # {}
  PROVE  Candidates(m, spark) = Usable(m, spark)
  <1>0. DOMAIN m = D
    OBVIOUS
  <1>1. PICK b \in D : b \in Usable(m, spark)
    BY <1>0 DEF Usable
  <1>2. HasRoom(m[b], spark) /\ Priority(b) = 0
    BY <1>1, RoomIsUsable DEF Usable
  <1>3. \A a \in Candidates(m, spark) : Priority(a) = 0
    BY <1>0, <1>1, <1>2, PriorityIsNat DEF Candidates, Blocked
  <1> QED BY <1>3, UsableAreCandidates

(* Of candidates that are all profiles, the pass takes the one whose known  *)
(* end comes first, and one without a known end only when none has it.      *)
LEMMA PassOverProfiles ==
  ASSUME NEW D, NEW m \in [D -> Measured],
         NEW C \in SUBSET D, C # {}, \A c \in C : Priority(c) = 0,
         NEW a \in Prioritized(m, C)
  PROVE  /\ a \in C
         /\ \A b \in C : m[b].reset # NoReset =>
              /\ m[a].reset # NoReset
              /\ SecondsUntilReset(m[a]) <= SecondsUntilReset(m[b])
  <1> DEFINE known == {c \in C : m[c].reset # NoReset}
             Pick(k) == IF OfPriority(known, k) # {}
                          THEN Soonest(m, OfPriority(known, k))
                          ELSE OfPriority(C \ known, k)
             ks == {Priority(c) : c \in C}
             best == CHOOSE k \in ks : \A l \in ks : k <= l
  <1>1. ks = {0}
    OBVIOUS
  <1>2. best = 0
    BY <1>1
  <1>3. a \in Pick(best)
    BY DEF Prioritized
  <1>4. OfPriority(known, 0) = known /\ OfPriority(C \ known, 0) = C \ known
    BY DEF OfPriority
  <1>5. CASE known # {}
    <2>1. a \in Soonest(m, known)
      BY <1>2, <1>3, <1>4, <1>5
    <2> QED BY <2>1 DEF Soonest
  <1>6. CASE known = {}
    <2>1. a \in C
      BY <1>2, <1>3, <1>4, <1>6
    <2> QED BY <2>1, <1>6
  <1> QED BY <1>5, <1>6

(* A pass yields one of its candidates.                                     *)
LEMMA PassIsWithin ==
  ASSUME NEW m, NEW C, NEW a \in Prioritized(m, C)
  PROVE  a \in C
  <1> DEFINE known == {c \in C : m[c].reset # NoReset}
  <1>1. PICK k : a \in IF OfPriority(known, k) # {}
                         THEN Soonest(m, OfPriority(known, k))
                         ELSE OfPriority(C \ known, k)
    BY DEF Prioritized
  <1> QED BY <1>1 DEF OfPriority, Soonest

(* Among the times until a reset, one is least.                             *)
LEMMA SetHasLeast ==
  ASSUME NEW S \in SUBSET Nat, S # {}
  PROVE  \E s \in S : \A t \in S : s <= t
  <1>1. PICK s \in S : \A t \in S : <<t, s>> \notin OpToRel(<, Nat)
    BY NatLessThanWellFounded, WFMin, Zenon
  <1>2. \A t \in S : ~(t < s)
    BY <1>1 DEF OpToRel
  <1> QED BY <1>2

(* A pass over candidates finds one.                                        *)
LEMMA PassFinds ==
  ASSUME NEW D, NEW m \in [D -> Measured],
         NEW C \in SUBSET D, C # {}, \A c \in C : Priority(c) = 0
  PROVE  Prioritized(m, C) # {}
  <1> DEFINE known == {c \in C : m[c].reset # NoReset}
             ks == {Priority(c) : c \in C}
             Until == {SecondsUntilReset(m[c]) : c \in known}
  <1>1. ks = {0} /\ (CHOOSE k \in ks : \A l \in ks : k <= l) = 0
    <2>1. ks = {0}
      OBVIOUS
    <2> QED BY <2>1
  <1>2. OfPriority(known, 0) = known /\ OfPriority(C \ known, 0) = C \ known
    BY DEF OfPriority
  <1>3. CASE known # {}
    <2>1. \A c \in known : SecondsUntilReset(m[c]) \in Nat
      <3>1. \A c \in C : m[c].reset \in Int
        BY DEF Measured
      <3> QED BY <3>1 DEF SecondsUntilReset
    <2>2. Until \in SUBSET Nat /\ Until # {}
      BY <1>3, <2>1
    <2> HIDE DEF Until
    <2>3. PICK s \in Until : \A t \in Until : s <= t
      BY <2>2, SetHasLeast, Zenon
    <2> USE DEF Until
    <2>4. PICK c \in known : SecondsUntilReset(m[c]) = s
      BY <2>3
    <2>5. c \in Soonest(m, known)
      BY <2>3, <2>4 DEF Soonest
    <2> QED BY <1>1, <1>2, <1>3, <2>5 DEF Prioritized
  <1>4. CASE known = {}
    BY <1>1, <1>2, <1>4 DEF Prioritized
  <1> QED BY <1>3, <1>4

(* Whatever is measured, every account the code may choose is one that the  *)
(* documented order allows (selectBestAccountFromResultsForModel): never a  *)
(* used up or unread profile, the reserve only when no profile has room.    *)
THEOREM ChoicesKeepThePromise ==
  ASSUME NEW D, NEW m \in [D -> Measured], NEW spark \in BOOLEAN,
         NEW a \in Choices(m, spark)
  PROVE  Promised(m, a, spark)
  <1> DEFINE C == Candidates(m, spark)
             U == Usable(m, spark)
  <1>0. DOMAIN m = D
    OBVIOUS
  <1>1. C \in SUBSET D
    BY <1>0 DEF Candidates
  <1>2. CASE U # {}
    <2>1. C = U /\ \A c \in C : Priority(c) = 0
      BY <1>2, UsableBlockTheRest DEF Usable
    <2>2. Prioritized(m, C) # {}
      BY <1>1, <1>2, <2>1, PassFinds
    <2>3. a \in Prioritized(m, C)
      BY <2>2 DEF Choices
    <2>4. /\ a \in U
          /\ \A b \in U : m[b].reset # NoReset =>
               /\ m[a].reset # NoReset
               /\ SecondsUntilReset(m[a]) <= SecondsUntilReset(m[b])
      BY <1>1, <1>2, <2>1, <2>3, PassOverProfiles
    <2> QED BY <1>2, <2>4 DEF Promised, Usable
  <1>3. CASE U = {}
    <2>1. ASSUME a \in Prioritized(m, C)
          PROVE  Priority(a) > 0
      <3>1. a \in C
        BY <2>1, PassIsWithin
      <3>2. Priority(a) # 0
        BY <1>3, <3>1, UsableAreCandidates
      <3> QED BY <3>2, PriorityIsNat
    <2>2. ASSUME a \in ReserveFallback(m, spark)
          PROVE  Priority(a) > 0
      BY <2>2 DEF ReserveFallback
    <2>3. Priority(a) > 0
      BY <2>1, <2>2 DEF Choices
    <2> QED BY <1>3, <2>3 DEF Promised, Usable
  <1> QED BY <1>2, <1>3
=============================================================================
