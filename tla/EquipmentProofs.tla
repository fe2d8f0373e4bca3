--------------------------- MODULE EquipmentProofs ----------------------------
(***************************************************************************)
(* Theorems of Equipment, for any equipments, types, sums and numbers of   *)
(* connections: what is worn and what it adds.  What the fold that sums up *)
(* computes is proved from minimal counterexamples among the sets of       *)
(* equipments, which are finite.                                           *)
(***************************************************************************)
EXTENDS Equipment, FiniteSetTheorems, WellFoundedInduction, TLAPS

(* The inductive invariant, one conjunct per idea.                         *)

\* A connection left open has been left by a request to wear.
Connected == left + busy <= MaxConnections /\ left <= wears

\* What the table has worn, the session believes worn.
Covered ==
  online /\ honest /\ faults \cap {"takeOff", "getByUserid"} = {} =>
    Worn(rows) \subseteq Worn(list)

IInv ==
  /\ TypeOK
  /\ Connected
  /\ Covered
  /\ AttachIsWorn
  /\ OneWornPerType
  /\ ListIsTable

-----------------------------------------------------------------------------
(* Sums over sets of equipments.                                           *)

\* total sums up the sets of S, each element on top of the others.
Additive(total, S) ==
  /\ total \in [SUBSET S -> Nat]
  /\ total[{}] = 0
  /\ \A s \in SUBSET S : \A e \in S \ s : total[s \cup {e}] = total[s] + Bonus[e]

(* A non-empty set of subsets of a finite set has a minimal element.       *)
LEMMA Smallest ==
  ASSUME NEW S, IsFiniteSet(S), NEW T \in SUBSET SUBSET S, T # {}
  PROVE  \E s \in T : \A t \in T : ~(t \subseteq s /\ t # s)
<1>1. FiniteSubsetsOf(S) = SUBSET S
  BY FS_FiniteSubsetsOfFinite
<1>2. IsWellFoundedOn(StrictSubsetOrdering(S), SUBSET S)
  BY <1>1, FS_StrictSubsetOrderingWellFounded
<1>3. PICK s \in T : \A t \in T : ~(<<t, s>> \in StrictSubsetOrdering(S))
  BY <1>2, WFMin
<1> QED BY <1>3 DEF StrictSubsetOrdering

(* A minimal set without a sum would have one: that of the set without one *)
(* of its elements, and this element.                                      *)
LEMMA AdditiveExists == \E total : Additive(total, Equip)
<1> DEFINE T == {s \in SUBSET Equip : ~ \E total : Additive(total, s)}
<1>1. SUFFICES ASSUME T # {} PROVE FALSE
  BY DEF Additive
<1>2. PICK s \in T : \A t \in T : ~(t \subseteq s /\ t # s)
  <2>1. T \in SUBSET SUBSET Equip
    OBVIOUS
  <2> HIDE DEF T
  <2> QED BY <1>1, <2>1, Smallest, EquipmentAssumption
<1>3. s # {}
  <2> DEFINE g == [x \in {{}} |-> 0]
  <2>1. Additive(g, {})
    BY DEF Additive
  <2> QED BY <1>2, <2>1
<1>4. PICK e \in s : TRUE
  BY <1>3
<1>5. e \in Equip /\ s \ {e} \in SUBSET Equip
  BY <1>2, <1>4
<1>6. PICK rest : Additive(rest, s \ {e})
  BY <1>2, <1>4, <1>5
<1> DEFINE g == [u \in SUBSET s |-> rest[u \ {e}] + (IF e \in u THEN Bonus[e] ELSE 0)]
<1>7. Additive(g, s)
  <2>1. Bonus \in [Equip -> Nat] /\ s \subseteq Equip
    BY <1>2, EquipmentAssumption
  <2>2. \A u \in SUBSET s : u \ {e} \in SUBSET (s \ {e})
    OBVIOUS
  <2>3. \A u \in SUBSET s : rest[u \ {e}] \in Nat
    BY <1>6, <2>2 DEF Additive
  <2>4. g \in [SUBSET s -> Nat]
    BY <1>5, <2>1, <2>3
  <2>5. g[{}] = 0
    <3>1. {} \ {e} = {}
      OBVIOUS
    <3> QED BY <1>6, <3>1 DEF Additive
  <2>6. ASSUME NEW u \in SUBSET s, NEW f \in s \ u PROVE g[u \cup {f}] = g[u] + Bonus[f]
    <3>0. u \cup {f} \in SUBSET s /\ Bonus[f] \in Nat /\ rest[u \ {e}] \in Nat
      BY <2>1, <2>3
    <3>1. CASE f = e
      <4>1. (u \cup {f}) \ {e} = u \ {e} /\ e \in u \cup {f} /\ e \notin u
        BY <3>1
      <4>2. g[u] = rest[u \ {e}] + 0 /\ g[u \cup {f}] = rest[u \ {e}] + Bonus[e]
        BY <3>0, <4>1
      <4> HIDE DEF g
      <4> QED BY <3>0, <3>1, <4>2
    <3>2. CASE f # e
      <4>1. (u \cup {f}) \ {e} = (u \ {e}) \cup {f} /\ (e \in u \cup {f} <=> e \in u)
        BY <3>2
      <4>2. u \ {e} \in SUBSET (s \ {e}) /\ f \in (s \ {e}) \ (u \ {e})
        BY <3>2
      <4>3. rest[(u \ {e}) \cup {f}] = rest[u \ {e}] + Bonus[f]
        BY <1>6, <4>2 DEF Additive
      <4>4. Bonus[e] \in Nat
        BY <1>5, <2>1
      <4>5. g[u] = rest[u \ {e}] + (IF e \in u THEN Bonus[e] ELSE 0)
        OBVIOUS
      <4>6. g[u \cup {f}] = (rest[u \ {e}] + Bonus[f]) + (IF e \in u THEN Bonus[e] ELSE 0)
        BY <3>0, <4>1, <4>3
      <4> HIDE DEF g
      <4> QED BY <3>0, <4>4, <4>5, <4>6
    <3> QED BY <3>1, <3>2
  <2> HIDE DEF g
  <2> QED BY <2>4, <2>5, <2>6 DEF Additive
<1> QED BY <1>2, <1>7

(* The fold of Sum adds up the equipments worn, in whichever order it      *)
(* picks them.                                                             *)
LEMMA SumOf ==
  ASSUME NEW total, Additive(total, Equip), NEW wear
  PROVE  Sum(wear) = total[Worn(wear)]
<1> DEFINE W == Worn(wear)
           first(s) == CHOOSE x \in s : TRUE
           Step(f) == [s \in SUBSET W |->
                         IF s = {} THEN 0 ELSE Bonus[first(s)] + f[s \ {first(s)}]]
           iter == CHOOSE f : f = Step(f)
           g == [s \in SUBSET W |-> total[s]]
<1>1. Sum(wear) = iter[W]
  BY DEF Sum, MapThenSumSet, MapThenFoldSet
<1>2. W \subseteq Equip
  BY DEF Worn
<1>3. g = Step(g)
  <2>1. ASSUME NEW s \in SUBSET W
        PROVE  g[s] = IF s = {} THEN 0 ELSE Bonus[first(s)] + g[s \ {first(s)}]
    <3>1. CASE s = {}
      BY <3>1 DEF Additive
    <3>2. CASE s # {}
      <4>1. PICK e : e = first(s) /\ e \in s
        BY <3>2
      <4>2. /\ s \ {e} \in SUBSET Equip /\ e \in Equip \ (s \ {e})
            /\ (s \ {e}) \cup {e} = s
        BY <1>2, <4>1
      <4>3. total[s] = total[s \ {e}] + Bonus[e]
        BY <4>2 DEF Additive
      <4>4. total[s \ {e}] \in Nat /\ Bonus[e] \in Nat
        BY <4>2, EquipmentAssumption DEF Additive
      <4>5. g[s] = total[s] /\ g[s \ {e}] = total[s \ {e}]
        BY <4>1
      <4> HIDE DEF first, g
      <4> QED BY <3>2, <4>1, <4>3, <4>4, <4>5
    <3> QED BY <3>1, <3>2
  <2> QED BY <2>1
<1>4. iter = Step(iter)
  <2> HIDE DEF Step, g
  <2> QED BY <1>3
<1>5. \A s \in SUBSET W : iter[s] = total[s]
  <2> DEFINE T == {s \in SUBSET W : iter[s] # total[s]}
  <2>1. SUFFICES ASSUME T # {} PROVE FALSE
    OBVIOUS
  <2>2. PICK s \in T : \A t \in T : ~(t \subseteq s /\ t # s)
    <3>1. T \in SUBSET SUBSET W
      OBVIOUS
    <3>2. IsFiniteSet(W)
      BY <1>2, EquipmentAssumption, FS_Subset
    <3> HIDE DEF T
    <3> QED BY <2>1, <3>1, <3>2, Smallest
  <2> HIDE DEF iter
  <2>3. iter[s] = IF s = {} THEN 0 ELSE Bonus[first(s)] + iter[s \ {first(s)}]
    BY <1>4, <2>2
  <2>4. total[s] = IF s = {} THEN 0 ELSE Bonus[first(s)] + total[s \ {first(s)}]
    <3>1. s \in SUBSET W /\ s \ {first(s)} \in SUBSET W
      BY <2>2
    <3> QED BY <1>3, <3>1
  <2>5. CASE s = {}
    BY <2>2, <2>3, <2>4, <2>5
  <2>6. CASE s # {}
    <3>1. first(s) \in s
      BY <2>6
    <3>2. s \ {first(s)} \in SUBSET W /\ s \ {first(s)} \subseteq s /\ s \ {first(s)} # s
      BY <2>2, <3>1
    <3>3. iter[s \ {first(s)}] = total[s \ {first(s)}]
      BY <2>2, <3>2
    <3> HIDE DEF first
    <3> QED BY <2>2, <2>3, <2>4, <2>6, <3>3
  <2> QED BY <2>5, <2>6
<1> QED BY <1>1, <1>5
-----------------------------------------------------------------------------
(* What the operations change.                                             *)

\* Changing whether one equipment is worn leaves the others.
LEMMA SetWearType ==
  ASSUME NEW wear \in [Equip -> Wear], NEW e \in Equip, NEW w \in {"off", "on"}
  PROVE  /\ SetWear(wear, e, w) \in [Equip -> Wear]
         /\ SetWear(wear, e, w) = wear \/ SetWear(wear, e, w) = [wear EXCEPT ![e] = w]
         /\ wear[e] # "none" => SetWear(wear, e, w) = [wear EXCEPT ![e] = w]
         /\ w = "off" => Worn(SetWear(wear, e, w)) = Worn(wear) \ {e}
         /\ w = "on" => Worn(SetWear(wear, e, w)) \subseteq Worn(wear) \cup {e}
BY DEF SetWear, Worn, Wear

\* A sum of no equipment, of one more, and of one instead of another.
LEMMA Sums ==
  /\ \A wear \in [Equip -> Wear] : Sum(wear) \in Nat
  /\ \A wear, next \in [Equip -> Wear], new \in Equip :
       new \notin Worn(wear) /\ Worn(next) = Worn(wear) \cup {new} =>
         Sum(next) = Sum(wear) + Bonus[new]
  /\ \A wear, next \in [Equip -> Wear], new, old \in Equip :
       /\ new \notin Worn(wear) /\ old \in Worn(wear)
       /\ Worn(next) = (Worn(wear) \cup {new}) \ {old}
       => Sum(next) = Sum(wear) + Bonus[new] - Bonus[old]
  /\ \A wear, next : Worn(wear) = Worn(next) => Sum(wear) = Sum(next)
<1>1. PICK total : Additive(total, Equip)
  BY AdditiveExists
<1>2. \A wear : Sum(wear) = total[Worn(wear)] /\ Worn(wear) \in SUBSET Equip
  BY <1>1, SumOf DEF Worn
<1>3. /\ total \in [SUBSET Equip -> Nat] /\ Bonus \in [Equip -> Nat]
      /\ \A s \in SUBSET Equip : \A e \in Equip \ s : total[s \cup {e}] = total[s] + Bonus[e]
  BY <1>1, EquipmentAssumption DEF Additive
<1>4. ASSUME NEW wear, NEW next, NEW new \in Equip, NEW old \in Equip,
             new \notin Worn(wear), old \in Worn(wear),
             Worn(next) = (Worn(wear) \cup {new}) \ {old}
      PROVE  Sum(next) = Sum(wear) + Bonus[new] - Bonus[old]
  <2>1. PICK s \in SUBSET Equip : s = Worn(wear) \ {old}
    BY <1>2
  <2>2. Worn(wear) = s \cup {old} /\ old \in Equip \ s
    BY <1>4, <2>1
  <2>3. Worn(next) = s \cup {new} /\ new \in Equip \ s
    BY <1>4, <2>1
  <2>4. Sum(wear) = total[s] + Bonus[old] /\ Sum(next) = total[s] + Bonus[new]
    BY <1>2, <1>3, <2>2, <2>3
  <2>5. total[s] \in Nat /\ Bonus[new] \in Nat /\ Bonus[old] \in Nat
    BY <1>3
  <2> QED BY <2>4, <2>5
<1> QED BY <1>2, <1>3, <1>4

-----------------------------------------------------------------------------
(* IInv is inductive.                                                      *)

\* The invariant holds at first.
LEMMA InitIInv == Init => IInv
<1> SUFFICES ASSUME Init PROVE IInv
  OBVIOUS
<1>1. rows \in [Equip -> Wear] /\ list \in [Equip -> Wear]
  BY DEF Init, Wear
<1>2. OneWornPerType
  BY DEF Init, OneWornPerType, Worn
<1>3. TypeOK /\ Connected
  <2>1. MaxConnections \in Nat /\ MaxBusy \in Nat
    BY EquipmentAssumption
  <2>2. left = 0 /\ busy = 0 /\ wears = 0 /\ attach = 0
    BY DEF Init
  <2>3. online \in BOOLEAN /\ honest \in BOOLEAN /\ faults = {}
    BY DEF Init
  <2> QED BY <1>1, <2>1, <2>2, <2>3 DEF TypeOK, Connected
<1>4. Covered /\ AttachIsWorn /\ ListIsTable
  BY DEF Init, Covered, AttachIsWorn, ListIsTable
<1> QED BY <1>2, <1>3, <1>4 DEF IInv

\* What a session does not touch: connections, and the end of the process.
LEMMA ConnectionsKeep ==
  ASSUME IInv,
         \/ LeaveOpen \/ Restart
         \/ UNCHANGED connections
         \/ Others
  PROVE  /\ Connected'
         /\ left' \in 0..MaxConnections /\ busy' \in 0..MaxBusy
         /\ wears' \in 0..MaxConnections
BY EquipmentAssumption
DEF IInv, TypeOK, Connected, CanConnect, LeaveOpen, Restart, connections, Others

\* Steps that end a session or the process, and those of other users.
LEMMA LeavingKeeps ==
  ASSUME IInv,
         \/ Offline \/ Crash \/ QueryNull \/ Others
         \/ UNCHANGED vars
  PROVE  IInv'
<1>1. /\ UNCHANGED <<rows, list, attach, faults, honest>>
      /\ online' = online \/ online' = FALSE
  BY DEF Offline, Crash, QueryNull, Others, Restart, vars, connections
<1>2. /\ Connected'
      /\ left' \in 0..MaxConnections /\ busy' \in 0..MaxBusy
      /\ wears' \in 0..MaxConnections
  BY ConnectionsKeep DEF Offline, Crash, QueryNull, vars
<1>3. TypeOK'
  BY <1>1, <1>2 DEF IInv, TypeOK
<1>4. Covered' /\ OneWornPerType' /\ ListIsTable'
  BY <1>1 DEF IInv, TypeOK, Covered, OneWornPerType, ListIsTable, Worn
<1>5. AttachIsWorn'
  BY <1>1 DEF IInv, TypeOK, AttachIsWorn
<1> QED BY <1>2, <1>3, <1>4, <1>5 DEF IInv

\* The list is read again.
LEMMA LoginKeeps ==
  ASSUME IInv, NEW failed \in SUBSET {"getByUserid"}, Login(failed)
  PROVE  IInv'
<1>1. list' \in [Equip -> Wear]
  BY DEF Login, IInv, TypeOK, Wear
<1>2. attach' = Sum(list') /\ attach' \in Nat
  BY <1>1, Sums DEF Login
<1>3. TypeOK' /\ Connected'
  BY <1>1, <1>2, ConnectionsKeep DEF Login, IInv, TypeOK
<1>4. AttachIsWorn'
  BY <1>2 DEF AttachIsWorn
<1>5. ListIsTable' /\ Covered'
  BY DEF Login, ListIsTable, Covered, Worn
<1>6. OneWornPerType'
  BY DEF Login, IInv, OneWornPerType, Worn
<1> QED BY <1>3, <1>4, <1>5, <1>6 DEF IInv

\* An equipment more, in the list and perhaps not in the table.
LEMMA GainKeeps ==
  ASSUME IInv, NEW e \in Equip, NEW failed \in SUBSET {"addUserEquip"}, Gain(e, failed)
  PROVE  IInv'
<1>1. list \in [Equip -> Wear] /\ rows \in [Equip -> Wear]
  BY DEF IInv, TypeOK
<1>2. list' \in [Equip -> Wear] /\ rows' \in [Equip -> Wear]
  BY <1>1 DEF Gain, Wear
<1>3. Worn(list') = Worn(list) /\ Worn(rows') = Worn(rows)
  BY <1>1 DEF Gain, Worn
<1>4. TypeOK' /\ Connected'
  BY <1>2, ConnectionsKeep DEF Gain, IInv, TypeOK
<1>5. AttachIsWorn'
  BY <1>3, Sums DEF Gain, IInv, AttachIsWorn
<1>6. ListIsTable'
  BY DEF Gain, IInv, ListIsTable
<1>7. Covered' /\ OneWornPerType'
  BY <1>3 DEF Gain, IInv, Covered, OneWornPerType
<1> QED BY <1>4, <1>5, <1>6, <1>7 DEF IInv

\* The first of its type is put on.
LEMMA WearFirstKeeps ==
  ASSUME IInv, NEW new \in Equip, NEW type \in SentType,
         NEW failed \in SUBSET {"putOn"}, WearFirst(new, type, failed)
  PROVE  IInv'
<1>1. list \in [Equip -> Wear] /\ rows \in [Equip -> Wear] /\ list[new] = "off" /\ online
  BY DEF IInv, TypeOK, WearFirst, Wearable
<1>2. /\ list' = [list EXCEPT ![new] = "on"]
      /\ list' \in [Equip -> Wear] /\ rows' \in [Equip -> Wear]
      /\ Worn(list') = Worn(list) \cup {new} /\ new \notin Worn(list)
      /\ Worn(rows') \subseteq Worn(rows) \cup {new}
  <2>1. list' = [list EXCEPT ![new] = "on"]
    BY DEF WearFirst
  <2>2. rows' = SetWear(rows, new, "on") \/ rows' = rows
    BY DEF WearFirst
  <2>3. rows' \in [Equip -> Wear] /\ Worn(rows') \subseteq Worn(rows) \cup {new}
    BY <1>1, <2>2, SetWearType
  <2> QED BY <1>1, <2>1, <2>3 DEF Worn, Wear
<1>3. /\ UNCHANGED online /\ attach' = attach + Bonus[new]
      /\ faults' = faults \cup failed /\ honest' = (honest /\ type = TypeOf[new])
  BY DEF WearFirst
<1>4. AttachIsWorn' /\ attach' \in Nat
  <2>1. Sum(list') = Sum(list) + Bonus[new] /\ Sum(list') \in Nat
    BY <1>1, <1>2, Sums
  <2> QED BY <1>1, <1>3, <2>1 DEF IInv, AttachIsWorn
<1>5. TypeOK' /\ Connected'
  BY <1>2, <1>3, <1>4, ConnectionsKeep DEF WearFirst, IInv, TypeOK
<1>6. ListIsTable'
  <2> SUFFICES ASSUME online', faults' = {} PROVE list' = rows'
    BY DEF ListIsTable
  <2>1. faults = {} /\ failed = {} /\ list = rows
    BY <1>1, <1>3 DEF IInv, ListIsTable
  <2> QED BY <1>1, <1>2, <2>1 DEF WearFirst, SetWear
<1>7. ASSUME honest', faults' \cap {"takeOff", "getByUserid"} = {}
      PROVE  /\ Worn(rows') \subseteq Worn(list')
             /\ \A e, f \in Worn(list') : TypeOf[e] = TypeOf[f] => e = f
  <2>1. /\ Worn(rows) \subseteq Worn(list)
        /\ \A e, f \in Worn(list) : TypeOf[e] = TypeOf[f] => e = f
    BY <1>1, <1>3, <1>7 DEF IInv, Covered, OneWornPerType
  <2>2. \A e \in Worn(list) : TypeOf[e] # TypeOf[new]
    BY <1>2, <1>3, <1>7 DEF WearFirst, ToTakeOff
  <2> QED BY <1>2, <2>1, <2>2
<1>8. Covered' /\ OneWornPerType'
  BY <1>7 DEF Covered, OneWornPerType, Worn
<1> QED BY <1>4, <1>5, <1>6, <1>8 DEF IInv

\* The exchange in the table is of worn equipments for less.
LEMMA Exchanged ==
  ASSUME NEW new \in Equip, NEW old \in Equip, old # new, NEW done \in 0..2,
         rows \in [Equip -> Wear]
  PROVE  /\ Exchange(old, new, done) \in [Equip -> Wear]
         /\ done > 0 => Worn(Exchange(old, new, done)) \subseteq (Worn(rows) \cup {new}) \ {old}
         /\ done = 1 => Worn(Exchange(old, new, done)) \subseteq Worn(rows)
<1>1. CASE done = 0
  BY <1>1 DEF Exchange
<1>2. CASE done = 1
  BY <1>2, SetWearType DEF Exchange
<1>3. CASE done = 2
  <2>1. PICK less \in [Equip -> Wear] :
          less = SetWear(rows, old, "off") /\ Worn(less) = Worn(rows) \ {old}
    BY SetWearType
  <2>2. /\ SetWear(less, new, "on") \in [Equip -> Wear]
        /\ Worn(SetWear(less, new, "on")) \subseteq Worn(less) \cup {new}
    BY SetWearType
  <2> QED BY <1>3, <2>1, <2>2 DEF Exchange
<1> QED BY <1>1, <1>2, <1>3

\* It is exchanged for another, by two updates of which either may fail.
LEMMA WearInsteadKeeps ==
  ASSUME IInv, NEW new \in Equip, NEW type \in SentType,
         NEW done \in 0..2, WearInstead(new, type, done)
  PROVE  IInv'
<1>1. PICK old \in ToTakeOff(new, type) :
        /\ Wearable(new) /\ LeaveOpen
        /\ rows' = Exchange(old, new, done)
        /\ list' = [list EXCEPT ![new] = "on", ![old] = "off"]
        /\ attach' = attach + Bonus[new] - Bonus[old]
        /\ faults' = faults \cup (CASE done = 0 -> {"takeOff"}
                                    [] done = 1 -> {"putOn"}
                                    [] done = 2 -> {})
        /\ honest' = (honest /\ type = TypeOf[new])
        /\ UNCHANGED online
  BY DEF WearInstead
<1>2. /\ list \in [Equip -> Wear] /\ rows \in [Equip -> Wear]
      /\ list[new] = "off" /\ online
      /\ old \in Equip /\ old \in Worn(list) /\ old # new /\ TypeOf[old] = type
  BY <1>1 DEF IInv, TypeOK, Wearable, ToTakeOff, Worn
<1>3. /\ list' \in [Equip -> Wear] /\ rows' \in [Equip -> Wear]
      /\ Worn(list') = (Worn(list) \cup {new}) \ {old} /\ new \notin Worn(list)
      /\ done > 0 => Worn(rows') \subseteq (Worn(rows) \cup {new}) \ {old}
  <2>1. list' \in [Equip -> Wear] /\ new \notin Worn(list)
    BY <1>1, <1>2 DEF Wear, Worn
  <2>2. \A e \in Equip : list'[e] = "on" <=> e = new \/ (list[e] = "on" /\ e # old)
    BY <1>1, <1>2
  <2>3. Worn(list') = (Worn(list) \cup {new}) \ {old}
    BY <1>2, <2>2 DEF Worn
  <2> QED BY <1>1, <1>2, <2>1, <2>3, Exchanged
<1>4. AttachIsWorn' /\ attach' \in Nat
  <2>1. Sum(list') = Sum(list) + Bonus[new] - Bonus[old] /\ Sum(list') \in Nat
    BY <1>2, <1>3, Sums
  <2> QED BY <1>1, <1>2, <2>1 DEF IInv, AttachIsWorn
<1>5. TypeOK' /\ Connected'
  <2>1. honest' \in BOOLEAN /\ faults' \subseteq {"getByUserid", "addUserEquip", "takeOff", "putOn"}
    BY <1>1 DEF IInv, TypeOK
  <2> QED BY <1>1, <1>3, <1>4, <2>1, ConnectionsKeep DEF IInv, TypeOK
<1>6. ListIsTable'
  <2> SUFFICES ASSUME online', faults' = {} PROVE list' = rows'
    BY DEF ListIsTable
  <2>1. faults = {} /\ done = 2 /\ list = rows
    BY <1>1, <1>2 DEF IInv, ListIsTable
  <2>2. rows' = SetWear(SetWear(rows, old, "off"), new, "on")
    BY <1>1, <2>1 DEF Exchange
  <2>3. rows' = [[rows EXCEPT ![old] = "off"] EXCEPT ![new] = "on"]
    BY <1>2, <2>1, <2>2 DEF SetWear, Worn
  <2> QED BY <1>1, <1>2, <2>1, <2>3
<1>7. ASSUME honest', faults' \cap {"takeOff", "getByUserid"} = {}
      PROVE  /\ Worn(rows') \subseteq Worn(list')
             /\ \A e, f \in Worn(list') : TypeOf[e] = TypeOf[f] => e = f
  <2>1. /\ Worn(rows) \subseteq Worn(list)
        /\ \A e, f \in Worn(list) : TypeOf[e] = TypeOf[f] => e = f
    BY <1>1, <1>2, <1>7 DEF IInv, Covered, OneWornPerType
  <2>2. \A e \in Worn(list) : TypeOf[e] = TypeOf[new] => e = old
    BY <1>1, <1>2, <1>7, <2>1
  <2>3. done > 0
    BY <1>1, <1>7
  <2> QED BY <1>3, <2>1, <2>2, <2>3
<1>8. Covered' /\ OneWornPerType'
  BY <1>7 DEF Covered, OneWornPerType, Worn
<1> QED BY <1>4, <1>5, <1>6, <1>8 DEF IInv

\* The process ends between the two.
LEMMA CrashBetweenKeeps ==
  ASSUME IInv, NEW new \in Equip, NEW type \in SentType, CrashBetween(new, type)
  PROVE  IInv'
<1>1. PICK old \in ToTakeOff(new, type) :
        /\ rows' = Exchange(old, new, 1)
        /\ Restart
        /\ honest' = (honest /\ type = TypeOf[new])
        /\ UNCHANGED <<list, attach, faults>>
  BY DEF CrashBetween
<1>2. old \in Equip /\ old # new /\ rows \in [Equip -> Wear]
  BY DEF ToTakeOff, Worn, IInv, TypeOK
<1>3. rows' \in [Equip -> Wear] /\ Worn(rows') \subseteq Worn(rows)
  BY <1>1, <1>2, Exchanged
<1>4. TypeOK' /\ Connected'
  BY <1>1, <1>3, ConnectionsKeep DEF IInv, TypeOK, Restart
<1>5. ListIsTable' /\ Covered' /\ AttachIsWorn'
  BY <1>1 DEF Restart, ListIsTable, Covered, AttachIsWorn
<1>6. OneWornPerType'
  BY <1>1, <1>3 DEF IInv, OneWornPerType, Worn
<1> QED BY <1>4, <1>5, <1>6 DEF IInv

(* One step per action.                                                    *)
LEMMA NextKeeps == IInv /\ [Next]_vars => IInv'
<1> SUFFICES ASSUME IInv, [Next]_vars PROVE IInv'
  OBVIOUS
<1> QED
  BY LeavingKeeps, LoginKeeps, GainKeeps, WearFirstKeeps, WearInsteadKeeps, CrashBetweenKeeps
  DEF Next

(* The inductive invariant holds: list, table and attached values agree as  *)
(* far as calls succeeded, and every connection in use is accounted for     *)
(* (userAction.h:60-110, equipmentDao.h:118-196).                           *)
THEOREM Invariance == Spec => []IInv
BY InitIInv, NextKeeps, PTL DEF Spec

-----------------------------------------------------------------------------
(* The results.                                                            *)

(* The attached values are those of the equipments the session believes    *)
(* worn, for any number of equipments and whatever they add, whatever      *)
(* failed and whatever types were sent (userAction.h:71-104).              *)
THEOREM Attached == Spec => []AttachIsWorn
<1>1. IInv => AttachIsWorn
  BY DEF IInv
<1> QED BY Invariance, <1>1, PTL

(* At most one equipment of a type is worn, in the table and in the list,  *)
(* although an update may fail or the process end between the two of a     *)
(* request (requestHanlder.h:69-80, equipmentDao.h:164-196).               *)
THEOREM OnePerType == Spec => []OneWornPerType
<1>1. IInv => OneWornPerType
  BY DEF IInv
<1> QED BY Invariance, <1>1, PTL

(* Without failed calls the session shows what the table holds, however    *)
(* often the process has ended.                                            *)
THEOREM Shown == Spec => []ListIsTable
<1>1. IInv => ListIsTable
  BY DEF IInv
<1> QED BY Invariance, <1>1, PTL

(* No call goes without a connection before as many equipments have been   *)
(* worn as the database has connections beyond those of the calls in       *)
(* progress, for any of these numbers (sqlTem.h:47-71).                    *)
THEOREM Enough == Spec => []EnoughConnections
<1>1. IInv => EnoughConnections
  BY EquipmentAssumption
  DEF IInv, TypeOK, Connected, EnoughConnections, CanConnect
<1> QED BY Invariance, <1>1, PTL
=============================================================================
