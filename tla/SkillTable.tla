------------------------------ MODULE SkillTable ------------------------------
(***************************************************************************)
(* FightAction (fightAction.h): the table that gives every skill as many   *)
(* of RANGE places as its probability says, filled once by drawing places  *)
(* at random until a free one is found, and the choice of an attack by     *)
(* drawing places until one has a skill the attacker is allowed.  A place  *)
(* without a skill is an ordinary attack.                                  *)
(*                                                                         *)
(* The probabilities are those of the table skill (skillDao.h), which      *)
(* nothing checks; the instance is a local static, and is complete before  *)
(* another thread sees it.                                                 *)
(***************************************************************************)
EXTENDS Integers, FiniteSets

CONSTANTS
  RANGE,            \* the places of the table (1000 in the code)
  Skills,           \* the number of skills
  RequiredLevel,    \* the column requiredLevel of each
  MaxProbability,   \* what the column probability may be (bound)
  Level             \* the levels attackers have

ASSUME SkillTableAssumption ==
  /\ RANGE \in Nat \ {0} /\ Skills \in Nat
  /\ RequiredLevel \in [1..Skills -> Nat]
  /\ MaxProbability \in Nat
  /\ Level \subseteq Nat

Skill    == 1..Skills
Ordinary == 0           \* -1 in the code, where skills are numbered from 0
Place    == 0..RANGE - 1

VARIABLES
  probability,   \* skillList[i]->probability
  skillArray,
  i, j,          \* the skill being placed, and how often it has been
  randomNum,     \* the place drawn last
  pc,            \* "fill", "ready", or "attack" in getAttackMode
  userLevel      \* its argument

vars == <<probability, skillArray, i, j, randomNum, pc, userLevel>>

Init ==
  /\ probability \in [Skill -> 0..MaxProbability]
  /\ skillArray = [n \in Place |-> Ordinary]
  /\ i = 1 /\ j = 0
  /\ randomNum \in Place
  /\ pc = "fill"
  /\ userLevel \in Level

-----------------------------------------------------------------------------
(* initSkillArray.                                                         *)

Unplaced == pc = "fill" /\ i \in Skill /\ j < probability[i]

\* Mutant: the last place is never drawn.
RedrawShort(n) ==
  /\ Unplaced
  /\ skillArray[randomNum] # Ordinary
  /\ n < RANGE - 1 /\ randomNum' = n
  /\ UNCHANGED <<probability, skillArray, i, j, pc, userLevel>>

\* The place is taken: draw again.
Redraw(n) ==
  /\ Unplaced
  /\ skillArray[randomNum] # Ordinary
  /\ randomNum' = n
  /\ UNCHANGED <<probability, skillArray, i, j, pc, userLevel>>

\* Mutant: a place is taken without a look at it.
PutAnywhere ==
  /\ Unplaced
  /\ skillArray' = [skillArray EXCEPT ![randomNum] = i]
  /\ j' = j + 1
  /\ randomNum' \in Place
  /\ UNCHANGED <<probability, i, pc, userLevel>>

Put ==
  /\ Unplaced
  /\ skillArray[randomNum] = Ordinary
  /\ skillArray' = [skillArray EXCEPT ![randomNum] = i]
  /\ j' = j + 1
  /\ UNCHANGED <<probability, i, randomNum, pc, userLevel>>

\* Mutant: j is not reset.
NextSkillFrom ==
  /\ pc = "fill" /\ i \in Skill
  /\ j >= probability[i]
  /\ i' = i + 1
  /\ UNCHANGED <<probability, skillArray, j, randomNum, pc, userLevel>>

NextSkill ==
  /\ pc = "fill" /\ i \in Skill
  /\ j >= probability[i]
  /\ i' = i + 1 /\ j' = 0
  /\ UNCHANGED <<probability, skillArray, randomNum, pc, userLevel>>

Filled ==
  /\ pc = "fill" /\ i > Skills
  /\ pc' = "ready"
  /\ UNCHANGED <<probability, skillArray, i, j, randomNum, userLevel>>

-----------------------------------------------------------------------------
(* getAttackMode.                                                          *)

Call(level) ==
  /\ pc = "ready" /\ pc' = "attack"
  /\ userLevel' = level
  /\ UNCHANGED <<probability, skillArray, i, j, randomNum>>

\* Mutant: the required level must be exceeded.
Exceeded(n) ==
  skillArray[n] # Ordinary => RequiredLevel[skillArray[n]] < userLevel

Allowed(n) ==
  skillArray[n] # Ordinary => RequiredLevel[skillArray[n]] <= userLevel

\* A place that is not allowed is drawn in vain.
Return(n) ==
  /\ pc = "attack" /\ Allowed(n)
  /\ pc' = "ready" /\ randomNum' = n
  /\ UNCHANGED <<probability, skillArray, i, j, userLevel>>

-----------------------------------------------------------------------------

Next ==
  \/ Put \/ NextSkill \/ Filled
  \/ \E n \in Place : Redraw(n) \/ Return(n)
  \/ \E level \in Level : Call(level)

Spec == Init /\ [][Next]_vars

(* rand() draws every place again and again.                               *)
FairSpec ==
  /\ Spec
  /\ WF_vars(Put \/ NextSkill \/ Filled)
  /\ \A n \in Place : SF_vars(Redraw(n)) /\ WF_vars(Return(n))

-----------------------------------------------------------------------------
(* Properties.                                                             *)

TypeOK ==
  /\ probability \in [Skill -> 0..MaxProbability]
  /\ skillArray \in [Place -> Skill \cup {Ordinary}]
  /\ i \in 1..(Skills + 1)
  /\ j \in 0..MaxProbability
  /\ randomNum \in Place
  /\ pc \in {"fill", "ready", "attack"}
  /\ userLevel \in Level

Places(s) == {n \in Place : skillArray[n] = s}

(* Every skill has the places its probability says, those of other skills  *)
(* untouched: all of them once it was its turn (fightAction.h:29-40).      *)
SharesAreExact ==
  \A s \in Skill :
    Cardinality(Places(s)) = CASE s < i -> probability[s]
                               [] s = i -> j
                               [] s > i -> 0

\* The places that the first skills want.
Wanted[s \in 0..Skills] == IF s = 0 THEN 0 ELSE Wanted[s - 1] + probability[s]

Total == Wanted[Skills]

(* The table is filled, if its places suffice for the probabilities of all *)
(* skills together; the search for a free place ends (fightAction.h:33).   *)
TableIsFilled == Total <= RANGE => <>(pc # "fill")

(* An attack is found whenever the attacker is allowed one: a place is     *)
(* left for the ordinary attack, or a skill of its level has one           *)
(* (fightAction.h:69-91).                                                  *)
AttackIsFound ==
  \A level \in Level :
    /\ pc = "attack" /\ userLevel = level
    /\ \/ Total < RANGE
       \/ \E s \in Skill : probability[s] > 0 /\ RequiredLevel[s] <= level
    ~> pc = "ready"
=============================================================================
