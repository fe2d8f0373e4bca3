--------------------------- MODULE SkillTableProofs ---------------------------
(***************************************************************************)
(* Theorems of SkillTable, for any number of places and skills and any     *)
(* probabilities: every skill has the places its probability says, and the *)
(* two loops that draw a place look for one that exists.                   *)
(***************************************************************************)
EXTENDS SkillTable, FiniteSetTheorems, WellFoundedInduction, TLAPS

(* The inductive invariant, one conjunct per idea.                         *)

\* A skill is placed no more often than its probability says.
NoneTooMany == i \in Skill => j <= probability[i]

\* The table is ready when it was every skill's turn.
ReadyAtTheEnd == pc # "fill" => i = Skills + 1

IInv ==
  /\ TypeOK
  /\ NoneTooMany
  /\ ReadyAtTheEnd
  /\ SharesAreExact

-----------------------------------------------------------------------------
(* The places of a skill.                                                  *)

Share(s) == CASE s < i -> probability[s] [] s = i -> j [] s > i -> 0

\* A skill has finitely many places.
LEMMA PlacesFinite ==
  ASSUME NEW s
  PROVE  IsFiniteSet(Places(s)) /\ Cardinality(Places(s)) \in Nat
<1>1. IsFiniteSet(Place)
  BY SkillTableAssumption, FS_Interval DEF Place
<1>2. Places(s) \in SUBSET Place
  BY DEF Places
<1> QED BY <1>1, <1>2, FS_Subset, FS_CardinalityType

\* Whether a table is exact depends on these variables only.
LEMMA SameTable ==
  ASSUME SharesAreExact, UNCHANGED <<probability, skillArray, i, j>>
  PROVE  SharesAreExact'
BY DEF SharesAreExact, Places

(* What is put in a free place is in no other skill's (fightAction.h:33).  *)
LEMMA PutShares ==
  ASSUME IInv, Put
  PROVE  SharesAreExact'
<1>1. /\ i \in Skill /\ randomNum \in Place /\ skillArray[randomNum] = Ordinary
      /\ skillArray' = [skillArray EXCEPT ![randomNum] = i] /\ j' = j + 1
      /\ UNCHANGED <<probability, i>>
      /\ skillArray \in [Place -> Skill \cup {Ordinary}]
      /\ \A s \in Skill : s # Ordinary /\ s \in Int
  BY SkillTableAssumption DEF IInv, TypeOK, Put, Unplaced, Skill, Ordinary
<1>2. Places(i)' = Places(i) \cup {randomNum} /\ randomNum \notin Places(i)
  BY <1>1 DEF Places
<1>3. \A s \in Skill \ {i} : Places(s)' = Places(s)
  BY <1>1 DEF Places
<1>4. Cardinality(Places(i)') = Cardinality(Places(i)) + 1
  BY <1>2, PlacesFinite, FS_AddElement
<1>5. Cardinality(Places(i)) = j
  BY <1>1 DEF IInv, SharesAreExact
<1>6. ASSUME NEW s \in Skill PROVE Cardinality(Places(s)') = Share(s)'
  <2>1. CASE s = i
    BY <1>1, <1>4, <1>5, <2>1 DEF Share
  <2>2. CASE s # i
    <3>1. Cardinality(Places(s)) = Share(s)
      BY DEF IInv, SharesAreExact, Share
    <3>2. Share(s)' = Share(s)
      BY <1>1, <2>2 DEF Share
    <3> QED BY <1>3, <2>2, <3>1, <3>2
  <2> QED BY <2>1, <2>2
<1> QED BY <1>6 DEF SharesAreExact, Share

(* The turn of the next skill, which has no place yet.                     *)
LEMMA NextSkillShares ==
  ASSUME IInv, NextSkill
  PROVE  SharesAreExact'
<1>1. /\ i \in Skill /\ i' = i + 1 /\ j' = 0 /\ j = probability[i]
      /\ UNCHANGED <<probability, skillArray>>
      /\ \A s \in Skill : s \in Int
  BY DEF IInv, TypeOK, NoneTooMany, NextSkill, Skill
<1>2. ASSUME NEW s \in Skill PROVE Cardinality(Places(s)') = Share(s)'
  <2>1. Places(s)' = Places(s)
    BY <1>1 DEF Places
  <2>2. Cardinality(Places(s)) = Share(s)
    BY DEF IInv, SharesAreExact, Share
  <2>3. Share(s)' = Share(s)
    BY <1>1 DEF Share
  <2> QED BY <2>1, <2>2, <2>3
<1> QED BY <1>2 DEF SharesAreExact, Share

-----------------------------------------------------------------------------
(* IInv is inductive.                                                      *)

\* The invariant holds at first.
LEMMA InitIInv == Init => IInv
<1> SUFFICES ASSUME Init PROVE IInv
  OBVIOUS
<1> USE SkillTableAssumption
<1>1. TypeOK
  BY DEF Init, TypeOK, Ordinary
<1>2. NoneTooMany /\ ReadyAtTheEnd
  BY DEF Init, NoneTooMany, ReadyAtTheEnd, Skill
<1>3. ASSUME NEW s \in Skill PROVE Cardinality(Places(s)) = Share(s)
  <2>1. Places(s) = {}
    BY DEF Init, Places, Skill, Ordinary
  <2>2. Share(s) = 0
    BY DEF Init, Share, Skill
  <2> QED BY <2>1, <2>2, FS_EmptySet
<1> QED BY <1>1, <1>2, <1>3 DEF IInv, SharesAreExact, Share

\* Every step keeps it.
LEMMA NextKeeps == IInv /\ [Next]_vars => IInv'
<1> SUFFICES ASSUME IInv, [Next]_vars PROVE IInv'
  OBVIOUS
<1> USE SkillTableAssumption
<1>1. CASE Put
  <2>1. TypeOK'
    BY <1>1 DEF IInv, TypeOK, Put, Unplaced, Skill
  <2>2. NoneTooMany' /\ ReadyAtTheEnd'
    BY <1>1 DEF IInv, TypeOK, NoneTooMany, ReadyAtTheEnd, Put, Unplaced, Skill
  <2> QED BY <1>1, <2>1, <2>2, PutShares DEF IInv
<1>2. CASE NextSkill
  <2>1. TypeOK'
    BY <1>2 DEF IInv, TypeOK, NextSkill, Skill
  <2>2. NoneTooMany' /\ ReadyAtTheEnd'
    BY <1>2 DEF IInv, TypeOK, NoneTooMany, ReadyAtTheEnd, NextSkill, Skill
  <2> QED BY <1>2, <2>1, <2>2, NextSkillShares DEF IInv
<1>3. CASE /\ \/ Filled
              \/ \E n \in Place : Redraw(n) \/ Return(n)
              \/ \E level \in Level : Call(level)
              \/ UNCHANGED vars
  <2> USE DEF Filled, Redraw, Return, Call, vars, Unplaced
  <2>1. UNCHANGED <<probability, skillArray, i, j>>
    BY <1>3
  <2>2. TypeOK'
    BY <1>3, <2>1 DEF IInv, TypeOK
  <2>3. NoneTooMany' /\ ReadyAtTheEnd'
    BY <1>3, <2>1 DEF IInv, TypeOK, NoneTooMany, ReadyAtTheEnd, Skill
  <2> QED BY <2>1, <2>2, <2>3, SameTable DEF IInv
<1> QED BY <1>1, <1>2, <1>3 DEF Next

(* The inductive invariant holds: the skills before i have their places and *)
(* i as many as were drawn for it (fightAction.h:29-40).                    *)
THEOREM Invariance == Spec => []IInv
BY InitIInv, NextKeeps, PTL DEF Spec

-----------------------------------------------------------------------------
(* The results.                                                            *)

(* The variables have their types, among them i, which goes one past the   *)
(* last skill, and every place drawn (fightAction.h:29-40).                *)
THEOREM TypeCorrect == Spec => []TypeOK
<1>1. IInv => TypeOK
  BY DEF IInv
<1> QED BY Invariance, <1>1, PTL

(* Every skill has exactly the places its probability says, those of other *)
(* skills untouched, whatever numbers are drawn (fightAction.h:29-40).     *)
THEOREM Exact == Spec => []SharesAreExact
<1>1. IInv => SharesAreExact
  BY DEF IInv
<1> QED BY Invariance, <1>1, PTL
-----------------------------------------------------------------------------
(* The places all skills want together.                                    *)

(* A non-empty set of numbers has a least one.                             *)
LEMMA Least ==
  ASSUME NEW T \in SUBSET Nat, T # {}
  PROVE  \E n \in T : \A m \in T : n <= m
<1>1. PICK n \in T : \A m \in T : ~(<<m, n>> \in OpToRel(<, Nat))
  BY NatLessThanWellFounded, WFMin
<1>2. \A m \in T : ~(m < n)
  BY <1>1 DEF OpToRel
<1> QED BY <1>2

\* f sums up the probabilities of the first n skills.
SumsUp(f, n) ==
  /\ f \in [0..n -> Nat]
  /\ f[0] = 0
  /\ \A s \in 1..n : f[s] = f[s - 1] + probability[s]

\* Probabilities add up, for any number of skills.
LEMMA SumsExist ==
  ASSUME probability \in [Skill -> Nat], NEW N \in Nat, N <= Skills
  PROVE  \E f : SumsUp(f, N)
<1> DEFINE T == {n \in 0..N : ~\E f : SumsUp(f, n)}
<1>1. SUFFICES ASSUME T # {} PROVE FALSE
  OBVIOUS
<1>2. PICK n \in T : \A m \in T : n <= m
  <2>1. T \in SUBSET Nat
    OBVIOUS
  <2> HIDE DEF T
  <2> QED BY <1>1, <2>1, Least
<1>3. n # 0
  <2> DEFINE f == [s \in 0..0 |-> 0]
  <2>1. SumsUp(f, 0)
    BY DEF SumsUp
  <2> QED BY <1>2, <2>1
<1>4. n \in 1..N /\ n - 1 \in 0..N /\ n - 1 \notin T /\ n \in Skill
  BY <1>2, <1>3, SkillTableAssumption DEF Skill
<1>5. PICK f : SumsUp(f, n - 1)
  BY <1>4
<1> DEFINE g == [s \in 0..n |-> IF s = n THEN f[n - 1] + probability[n] ELSE f[s]]
<1>6. SumsUp(g, n)
  <2>1. f \in [0..(n - 1) -> Nat] /\ f[0] = 0 /\ probability[n] \in Nat
    BY <1>4, <1>5 DEF SumsUp
  <2>2. g \in [0..n -> Nat] /\ g[0] = 0
    BY <1>4, <2>1
  <2>3. ASSUME NEW s \in 1..n PROVE g[s] = g[s - 1] + probability[s]
    <3>1. CASE s = n
      BY <1>4, <3>1
    <3>2. CASE s # n
      <4>1. s \in 1..(n - 1) /\ s - 1 # n /\ s - 1 \in 0..n
        BY <1>4, <3>2
      <4>2. f[s] = f[s - 1] + probability[s]
        BY <1>5, <4>1 DEF SumsUp
      <4> QED BY <3>2, <4>1, <4>2
    <3> QED BY <3>1, <3>2
  <2> HIDE DEF g
  <2> QED BY <2>2, <2>3 DEF SumsUp
<1> QED BY <1>2, <1>6

(* Wanted is what its recursive definition says it is.                     *)
LEMMA WantedSums ==
  ASSUME probability \in [Skill -> Nat]
  PROVE  SumsUp(Wanted, Skills)
<1> DEFINE Step(f) == [s \in 0..Skills |-> IF s = 0 THEN 0 ELSE f[s - 1] + probability[s]]
<1>1. Skills \in Nat /\ Skill = 1..Skills
  BY SkillTableAssumption DEF Skill
<1>2. PICK f : SumsUp(f, Skills)
  BY <1>1, SumsExist
<1>3. f = Step(f)
  <2>1. ASSUME NEW s \in 0..Skills, s # 0 PROVE f[s] = f[s - 1] + probability[s]
    <3>1. s \in 1..Skills
      BY <1>1, <2>1
    <3> QED BY <1>2, <3>1 DEF SumsUp
  <2> QED BY <1>2, <2>1 DEF SumsUp
<1>4. Wanted = Step(Wanted)
  <2>1. Wanted = CHOOSE h : h = Step(h)
    BY DEF Wanted
  <2> HIDE DEF Step
  <2> QED BY <1>3, <2>1
<1>5. /\ Wanted = [s \in 0..Skills |-> Wanted[s]] /\ Wanted[0] = 0
      /\ \A s \in 1..Skills : Wanted[s] = Wanted[s - 1] + probability[s]
  BY <1>1, <1>4
<1>6. \A s \in 0..Skills : Wanted[s] \in Nat
  <2> DEFINE T == {s \in 0..Skills : Wanted[s] \notin Nat}
  <2>1. SUFFICES ASSUME T # {} PROVE FALSE
    OBVIOUS
  <2>2. PICK s \in T : \A m \in T : s <= m
    <3>1. T \in SUBSET Nat
      OBVIOUS
    <3> HIDE DEF T
    <3> QED BY <2>1, <3>1, Least
  <2>3. s \in 1..Skills /\ s - 1 \in 0..Skills /\ s - 1 \notin T
    BY <1>1, <1>5, <2>2
  <2>4. Wanted[s - 1] \in Nat /\ probability[s] \in Nat
    BY <1>1, <2>3
  <2>5. Wanted[s] = Wanted[s - 1] + probability[s]
    BY <1>5, <2>3
  <2>6. Wanted[s] \in Nat
    BY <2>4, <2>5
  <2> QED BY <2>2, <2>6
<1> QED BY <1>5, <1>6 DEF SumsUp

\* The places of the first k skills.
UsedBy(k) == {n \in Place : skillArray[n] \in 1..k}

(* No more places are used than are wanted, and fewer if a skill that wants *)
(* more than it has is among those counted.                                *)
LEMMA UsedAtMost ==
  ASSUME IInv, NEW N \in 0..Skills
  PROVE  /\ Wanted[N] \in Nat
         /\ IsFiniteSet(UsedBy(N)) /\ Cardinality(UsedBy(N)) \in Nat
         /\ Cardinality(UsedBy(N)) <= Wanted[N]
         /\ (\E s \in 1..N : Cardinality(Places(s)) < probability[s])
              => Cardinality(UsedBy(N)) < Wanted[N]
<1> DEFINE Short(k) == \E s \in 1..k : Cardinality(Places(s)) < probability[s]
           Holds(k) == /\ Cardinality(UsedBy(k)) <= Wanted[k]
                       /\ Short(k) => Cardinality(UsedBy(k)) < Wanted[k]
           T == {k \in 0..Skills : ~Holds(k)}
<1>1. Skills \in Nat /\ Skill = 1..Skills /\ probability \in [Skill -> Nat] /\ MaxProbability \in Nat
  BY SkillTableAssumption DEF Skill, IInv, TypeOK
<1>2. /\ \A k \in 0..Skills : Wanted[k] \in Nat
      /\ Wanted[0] = 0
      /\ \A k \in 1..Skills : Wanted[k] = Wanted[k - 1] + probability[k]
  BY <1>1, WantedSums DEF SumsUp
<1>3. \A k : IsFiniteSet(UsedBy(k)) /\ Cardinality(UsedBy(k)) \in Nat
  <2>1. IsFiniteSet(Place)
    BY SkillTableAssumption, FS_Interval DEF Place
  <2>2. \A k : UsedBy(k) \in SUBSET Place
    BY DEF UsedBy
  <2> QED BY <2>1, <2>2, FS_Subset, FS_CardinalityType
<1>4. \A s \in Skill : Cardinality(Places(s)) \in Nat /\ Cardinality(Places(s)) <= probability[s]
  <2>1. ASSUME NEW s \in Skill
        PROVE  Cardinality(Places(s)) \in Nat /\ Cardinality(Places(s)) <= probability[s]
    <3>1. Cardinality(Places(s)) = Share(s)
      BY DEF IInv, SharesAreExact, Share
    <3>2. probability[s] \in Nat /\ s \in Int /\ i \in Int
      BY <1>1 DEF IInv, TypeOK
    <3>3. Share(s) <= probability[s]
      BY <3>2 DEF Share, IInv, NoneTooMany
    <3> QED BY <3>1, <3>3, PlacesFinite
  <2> QED BY <2>1
<1>5. T = {}
  <2> SUFFICES ASSUME T # {} PROVE FALSE
    OBVIOUS
  <2>1. PICK k \in T : \A m \in T : k <= m
    <3>1. T \in SUBSET Nat
      BY <1>1
    <3> HIDE DEF T
    <3> QED BY <3>1, Least
  <2>2. CASE k = 0
    <3>1. UsedBy(0) = {}
      BY DEF UsedBy
    <3>2. Cardinality(UsedBy(0)) = 0 /\ ~Short(0)
      BY <3>1, FS_EmptySet
    <3> QED BY <1>2, <2>1, <2>2, <3>2
  <2>3. CASE k # 0
    <3>1. k \in 1..Skills /\ k - 1 \in 0..Skills /\ k - 1 \notin T /\ k \in Skill
      BY <1>1, <2>1, <2>3
    <3>2. Holds(k - 1)
      BY <3>1
    <3>3. UsedBy(k) = UsedBy(k - 1) \cup Places(k) /\ UsedBy(k - 1) \cap Places(k) = {}
      BY <3>1 DEF UsedBy, Places
    <3>4. Cardinality(UsedBy(k)) = Cardinality(UsedBy(k - 1)) + Cardinality(Places(k))
      <4>1. Cardinality(UsedBy(k - 1) \cup Places(k)) =
              Cardinality(UsedBy(k - 1)) + Cardinality(Places(k))
                - Cardinality(UsedBy(k - 1) \cap Places(k))
        BY <1>3, PlacesFinite, FS_Union
      <4>2. Cardinality(UsedBy(k - 1) \cap Places(k)) = 0
        BY <3>3, FS_EmptySet
      <4> QED BY <1>3, <3>3, <4>1, <4>2, PlacesFinite
    <3>5. Short(k) => Short(k - 1) \/ Cardinality(Places(k)) < probability[k]
      <4>1. 1..k = 1..(k - 1) \cup {k}
        BY <3>1
      <4> QED BY <4>1
    <3> DEFINE C == Cardinality(UsedBy(k - 1))
               P == Cardinality(Places(k))
    <3>6. C \in Nat /\ P \in Nat /\ P <= probability[k] /\ probability[k] \in Nat
          /\ Wanted[k - 1] \in Nat /\ Wanted[k] = Wanted[k - 1] + probability[k]
      BY <1>1, <1>2, <1>3, <1>4, <3>1
    <3>7. C <= Wanted[k - 1] /\ (Short(k - 1) => C < Wanted[k - 1])
      BY <3>2
    <3>8. Cardinality(UsedBy(k)) = C + P
      BY <3>4
    <3>9. Short(k) => Short(k - 1) \/ P < probability[k]
      BY <3>5
    <3>10. k \in T => ~(/\ Cardinality(UsedBy(k)) <= Wanted[k]
                        /\ Short(k) => Cardinality(UsedBy(k)) < Wanted[k])
      OBVIOUS
    <3> HIDE DEF C, P, Short, T
    <3> QED BY <2>1, <3>6, <3>7, <3>8, <3>9, <3>10
  <2> QED BY <2>2, <2>3
<1>6. Holds(N)
  BY <1>5
<1> QED BY <1>2, <1>3, <1>6

(* Fewer places used than there are leave one free.                        *)
LEMMA OneIsFree ==
  ASSUME IInv, Cardinality(UsedBy(Skills)) < RANGE
  PROVE  \E n \in Place : skillArray[n] = Ordinary
<1> SUFFICES ASSUME \A n \in Place : skillArray[n] # Ordinary PROVE FALSE
  OBVIOUS
<1>1. UsedBy(Skills) = Place
  BY DEF UsedBy, IInv, TypeOK, Skill
<1>2. Cardinality(Place) = RANGE
  BY SkillTableAssumption, FS_Interval DEF Place
<1> QED BY <1>1, <1>2, SkillTableAssumption

-----------------------------------------------------------------------------
(* What makes the two searches end.                                        *)

(* While initSkillArray looks for a free place there is one, if the places *)
(* suffice for all skills (fightAction.h:33): with a generator that leaves *)
(* no place out it draws one at last, which is TableIsFilled.              *)
FreePlaceExists ==
  Unplaced /\ Total <= RANGE => \E n \in Place : skillArray[n] = Ordinary

THEOREM SearchIsNotInVain == Spec => []FreePlaceExists
<1>1. IInv => FreePlaceExists
  <2> SUFFICES ASSUME IInv, Unplaced, Total <= RANGE
               PROVE  \E n \in Place : skillArray[n] = Ordinary
    BY DEF FreePlaceExists
  <2>1. Skills \in 0..Skills /\ Skill = 1..Skills /\ RANGE \in Nat
    BY SkillTableAssumption DEF Skill
  <2>2. i \in Skill /\ j < probability[i]
    BY DEF Unplaced
  <2>3. Cardinality(Places(i)) = j
    BY <2>2 DEF IInv, SharesAreExact, TypeOK, Skill
  <2>4. \E s \in 1..Skills : Cardinality(Places(s)) < probability[s]
    BY <2>1, <2>2, <2>3
  <2>5. /\ Cardinality(UsedBy(Skills)) < Wanted[Skills]
        /\ Wanted[Skills] \in Nat /\ Cardinality(UsedBy(Skills)) \in Nat
    BY <2>1, <2>4, UsedAtMost
  <2>6. Cardinality(UsedBy(Skills)) < RANGE
    BY <2>1, <2>5 DEF Total
  <2> QED BY <2>6, OneIsFree
<1> QED BY Invariance, <1>1, PTL

(* While getAttackMode looks for an attack there is a place it allows, if  *)
(* places are left for the ordinary attack or a skill of the attacker's    *)
(* level has one (fightAction.h:69-91): the premise of AttackIsFound.      *)
AttackExists ==
  /\ pc = "attack"
  /\ \/ Total < RANGE
     \/ \E s \in Skill : probability[s] > 0 /\ RequiredLevel[s] <= userLevel
  => \E n \in Place : Allowed(n)

THEOREM AttackIsNotInVain == Spec => []AttackExists
<1>1. IInv => AttackExists
  <2> SUFFICES ASSUME IInv, pc = "attack",
                      \/ Total < RANGE
                      \/ \E s \in Skill : probability[s] > 0 /\ RequiredLevel[s] <= userLevel
               PROVE  \E n \in Place : Allowed(n)
    BY DEF AttackExists
  <2>1. Skills \in 0..Skills /\ Skill = 1..Skills /\ RANGE \in Nat
    BY SkillTableAssumption DEF Skill
  <2>2. CASE Total < RANGE
    <3>1. /\ Cardinality(UsedBy(Skills)) <= Wanted[Skills]
          /\ Wanted[Skills] \in Nat /\ Cardinality(UsedBy(Skills)) \in Nat
      BY <2>1, UsedAtMost
    <3>2. Cardinality(UsedBy(Skills)) < RANGE
      BY <2>1, <2>2, <3>1 DEF Total
    <3> QED BY <3>2, OneIsFree DEF Allowed
  <2>3. CASE \E s \in Skill : probability[s] > 0 /\ RequiredLevel[s] <= userLevel
    <3>1. PICK s \in Skill : probability[s] > 0 /\ RequiredLevel[s] <= userLevel
      BY <2>3
    <3>2. s < i /\ s \in Nat
      BY <2>1 DEF IInv, ReadyAtTheEnd
    <3>3. Cardinality(Places(s)) = probability[s]
      <4>1. Cardinality(Places(s)) = Share(s)
        BY DEF IInv, SharesAreExact, Share
      <4>2. ~(s = i) /\ ~(s > i)
        BY <3>2 DEF IInv, TypeOK
      <4> QED BY <3>2, <4>1, <4>2 DEF Share
    <3>4. Places(s) # {}
      BY <3>1, <3>3, FS_EmptySet
    <3>5. PICK n \in Place : skillArray[n] = s
      BY <3>4 DEF Places
    <3> QED BY <3>1, <3>5 DEF Allowed
  <2> QED BY <2>2, <2>3
<1> QED BY Invariance, <1>1, PTL
=============================================================================
