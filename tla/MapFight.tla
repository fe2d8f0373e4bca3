------------------------------- MODULE MapFight -------------------------------
(***************************************************************************)
(* Fights against the monsters of a map, and what they earn: Fight and     *)
(* MapFight (mapFight.h), the levels of UserAction (userAction.h), and the *)
(* rows of the tables user and user_equip they write (userDao.h,           *)
(* equipmentDao.h).                                                        *)
(*                                                                         *)
(* One user at a time has the session; the whole fight runs in the thread  *)
(* that serves it, so that nothing else touches its user meanwhile.  What  *)
(* may go wrong is the database: any one call may fail and the others work.*)
(***************************************************************************)
EXTENDS Naturals, Sequences

CONSTANTS
  Map,              \* ids of the maps
  MonsterList,      \* the monsters of each map, in order: records with the
                    \* fields level, agility, strength, HP
  RequiredLevel,    \* the column map.requiredLevel
  MaxEquipId,       \* equipments are numbered from 1
  Rate,             \* the numbers getRandomnum may return
  Ratio,            \* the factors of an ordinary attack and of the skills
  MaxXP,            \* no fight is begun once this much XP was won (bound)
  POINTS_PER_LEVEL, XP_PER_MONSTER_LEVEL,
  ADD_HP_PER_LEVEL, ADD_AGILITY_PER_LEVEL, ADD_STRENGTH_PER_LEVEL

Equip   == 1..MaxEquipId
Account == [level : Nat, points : Nat, agility : Nat, strength : Nat, HP : Nat]

ASSUME MapFightAssumption ==
  /\ MonsterList \in
       [Map -> Seq([level : Nat, agility : Nat, strength : Nat, HP : Nat \ {0}])]
  /\ RequiredLevel \in [Map -> Nat]
  /\ MaxEquipId \in Nat \ {0}
  /\ Rate \subseteq Nat /\ Ratio \subseteq Nat
  /\ POINTS_PER_LEVEL \in Nat \ {0}
  /\ {XP_PER_MONSTER_LEVEL, ADD_HP_PER_LEVEL, ADD_AGILITY_PER_LEVEL,
      ADD_STRENGTH_PER_LEVEL, MaxXP} \subseteq Nat

\* A user of sql.sql, scaled down with the instance.
NewUser == [level |-> 1, points |-> 0, agility |-> 1, strength |-> 1, HP |-> 2]

VARIABLES
  pc,         \* "offline", "idle", "fight" or "end"
  account,    \* the row of the user
  rows,       \* its rows of user_equip: how many for each equipment
  user,       \* WebsocketSession::user
  equipList,  \* WebsocketSession::userEquipList: how many of each
  mapid, i,   \* the map and the index of the fight in progress
  fighter,    \* Fight::user, a copy
  userHP,     \* Fight::userHP
  monsterHP,  \* Fight::monster->HP
  mapList,    \* the maps the client has been told of
  earned,     \* history: all XP won
  faults      \* history: the database calls that have failed

db    == <<account, rows>>
fight == <<mapid, i, fighter, userHP, monsterHP>>
vars  == <<pc, db, user, equipList, fight, mapList, earned, faults>>

LoginCall == {"getByUserid", "getMaps"}
WinCall   == {"updateUser", "isUserHaveEquip", "addUserEquip", "getMaps"}

\* getMapByMinRequiredLevel and getMapByRequiredLevel.
MapsUpTo(level) == {m \in Map : RequiredLevel[m] <= level}

\* Mutant: the maps of the level that was left.
MapsBelow(level) == {m \in Map : RequiredLevel[m] = level - 1}

MapsAt(level) == {m \in Map : RequiredLevel[m] = level}

Init ==
  /\ pc = "offline"
  /\ account = NewUser /\ user = NewUser /\ fighter = NewUser
  /\ rows = [e \in Equip |-> 0]
  /\ equipList = rows
  /\ mapid \in Map /\ i = 1
  /\ userHP = 0 /\ monsterHP = 0
  /\ mapList = {}
  /\ earned = 0 /\ faults = {}

-----------------------------------------------------------------------------
(* UserAction: every POINTS_PER_LEVEL points are exchanged for a level.    *)

\* Mutant: the points that were exchanged are kept.
CheckUserLevelKeep(u) ==
  LET add == u.points \div POINTS_PER_LEVEL
  IN  [level    |-> u.level + add,
       points   |-> u.points,
       agility  |-> u.agility + add * ADD_AGILITY_PER_LEVEL,
       strength |-> u.strength + add * ADD_STRENGTH_PER_LEVEL,
       HP       |-> u.HP + add * ADD_HP_PER_LEVEL]

CheckUserLevel(u) ==
  LET add == u.points \div POINTS_PER_LEVEL
  IN  [level    |-> u.level + add,
       points   |-> u.points % POINTS_PER_LEVEL,
       agility  |-> u.agility + add * ADD_AGILITY_PER_LEVEL,
       strength |-> u.strength + add * ADD_STRENGTH_PER_LEVEL,
       HP       |-> u.HP + add * ADD_HP_PER_LEVEL]

-----------------------------------------------------------------------------
(* login and logout, as far as the user's data go.  A query that fails     *)
(* yields an empty list.                                                   *)

Login(failed) ==
  /\ pc = "offline" /\ pc' = "idle"
  /\ user' = account
  /\ equipList' = IF "getByUserid" \in failed THEN [e \in Equip |-> 0] ELSE rows
  /\ mapList' = IF "getMaps" \in failed THEN {} ELSE MapsUpTo(account.level)
  /\ faults' = faults \cup failed
  /\ UNCHANGED <<db, fight, earned>>

Logout ==
  /\ pc = "idle" /\ pc' = "offline"
  /\ UNCHANGED <<db, user, equipList, fight, mapList, earned, faults>>

-----------------------------------------------------------------------------
(* The fight: the constructor of Fight, and the rounds of fighting().      *)

Meet(m, n, u) ==
  /\ mapid' = m /\ i' = n
  /\ fighter' = u
  /\ userHP' = u.HP
  /\ monsterHP' = MonsterList[m][n].HP

\* beginMapFight: any map is accepted.  One without monsters, or whose
\* monsters cannot be read, is won at once.
BeginMapFight(m) ==
  /\ pc = "idle" /\ earned < MaxXP
  /\ MonsterList[m] # <<>>
  /\ Meet(m, 1, user)
  /\ pc' = "fight"
  /\ UNCHANGED <<db, user, equipList, mapList, earned, faults>>

\* Mutant: a blow that takes all that is left is not counted.
MinusLess(x, y) == IF x > y THEN x - y ELSE x

\* Mutant: what is left is not cut off at 0.
MinusBelowZero(x, y) == x - y

Minus(x, y) == IF x > y THEN x - y ELSE 0

Round(rate, ratio) ==
  LET monster == MonsterList[mapid][i]
      left == IF rate > monster.agility
                THEN Minus(monsterHP, fighter.strength * ratio) ELSE monsterHP
      hurt == left > 0 /\ rate > fighter.agility
  IN  /\ pc = "fight"
      /\ monsterHP' = left
      /\ userHP' = IF hurt THEN Minus(userHP, monster.strength) ELSE userHP
      /\ pc' = IF monsterHP' = 0 \/ userHP' = 0 THEN "end" ELSE "fight"
      /\ UNCHANGED <<db, user, equipList, mapid, i, fighter, mapList, earned, faults>>

-----------------------------------------------------------------------------
(* endFight.                                                               *)

\* Mutant: the session keeps its user.
ContinueStale(u) ==
  /\ user' = user
  /\ \/ /\ monsterHP = 0 /\ i < Len(MonsterList[mapid])
        /\ Meet(mapid, i + 1, u)
        /\ pc' = "fight"
     \/ /\ monsterHP > 0 \/ i = Len(MonsterList[mapid])
        /\ UNCHANGED fight
        /\ pc' = "idle"

\* The session's user becomes the copy, and the next monster gets a new one.
Continue(u) ==
  /\ user' = u
  /\ \/ /\ monsterHP = 0 /\ i < Len(MonsterList[mapid])
        /\ Meet(mapid, i + 1, u)
        /\ pc' = "fight"
     \/ /\ monsterHP > 0 \/ i = Len(MonsterList[mapid])
        /\ UNCHANGED fight
        /\ pc' = "idle"

Lose ==
  /\ pc = "end" /\ userHP = 0
  /\ Continue(fighter)
  /\ UNCHANGED <<db, equipList, mapList, earned, faults>>

\* The row of the user is written, or the database fails.
UpdateUser(u, failed) ==
  account' = IF "updateUser" \in failed THEN account ELSE u

\* Mutant: the equipment is added without a look at the ones the user has.
AddAnyEquip(e, failed) ==
  LET added == "updateUser" \notin failed /\ e # 0
  IN  /\ equipList' = IF added THEN [equipList EXCEPT ![e] = @ + 1] ELSE equipList
      /\ rows' = IF added /\ "addUserEquip" \notin failed
                   THEN [rows EXCEPT ![e] = @ + 1] ELSE rows

\* e is 0 when the number drawn is of no equipment.  It is added when the user
\* was saved and seems not to have it; nobody looks whether the insert worked.
AddEquip(e, failed) ==
  LET have == e = 0 \/ (rows[e] > 0 /\ "isUserHaveEquip" \notin failed)
      added == "updateUser" \notin failed /\ ~have
  IN  /\ equipList' = IF added THEN [equipList EXCEPT ![e] = @ + 1] ELSE equipList
      /\ rows' = IF added /\ "addUserEquip" \notin failed
                   THEN [rows EXCEPT ![e] = @ + 1] ELSE rows

\* A level was reached: the maps of exactly this level are sent.
TellMaps(u, failed) ==
  mapList' = IF u.level > fighter.level /\ "getMaps" \notin failed
               THEN mapList \cup MapsAt(u.level) ELSE mapList

Win(e, failed) ==
  LET xp == XP_PER_MONSTER_LEVEL * MonsterList[mapid][i].level
      u  == CheckUserLevel([fighter EXCEPT !.points = @ + xp])
  IN  /\ pc = "end" /\ monsterHP = 0
      /\ UpdateUser(u, failed)
      /\ AddEquip(e, failed)
      /\ TellMaps(u, failed)
      /\ Continue(u)
      /\ earned' = earned + xp
      /\ faults' = faults \cup failed

\* getMaxEquipId returns 0 when its query fails; rand() % 0 ends the process,
\* after the points were added to the copy and before it is saved.  The user is
\* back once the server has been started again.
DivideByZero ==
  /\ pc = "end" /\ monsterHP = 0
  /\ pc' = "offline"
  /\ earned' = earned + XP_PER_MONSTER_LEVEL * MonsterList[mapid][i].level
  /\ faults' = faults \cup {"getMaxEquipId"}
  /\ UNCHANGED <<db, user, equipList, fight, mapList>>

-----------------------------------------------------------------------------

EndFight ==
  \/ Lose \/ DivideByZero
  \/ \E e \in Equip \cup {0}, failed \in SUBSET WinCall : Win(e, failed)

Next ==
  \/ \E failed \in SUBSET LoginCall : Login(failed)
  \/ Logout
  \/ \E m \in Map : BeginMapFight(m)
  \/ \E rate \in Rate, ratio \in Ratio : Round(rate, ratio)
  \/ EndFight

Spec == Init /\ [][Next]_vars

\* The thread runs, and getRandomnum returns, again and again, a number with
\* which the user strikes: not so while the random number server is away, when
\* every number is 0.
StrikingRound ==
  \E rate \in Rate, ratio \in Ratio :
    rate > MonsterList[mapid][i].agility /\ Round(rate, ratio)

FairSpec == Spec /\ WF_vars(StrikingRound) /\ WF_vars(EndFight)

-----------------------------------------------------------------------------
(* Properties.                                                             *)

TypeOK ==
  /\ pc \in {"offline", "idle", "fight", "end"}
  /\ {account, user, fighter} \subseteq Account
  /\ rows \in [Equip -> Nat] /\ equipList \in [Equip -> Nat]
  /\ mapid \in Map /\ i \in Nat \ {0}
  /\ pc \in {"fight", "end"} => i \in 1..Len(MonsterList[mapid])
  /\ userHP \in 0..fighter.HP /\ monsterHP \in Nat
  /\ mapList \subseteq Map
  /\ earned \in Nat /\ faults \subseteq LoginCall \cup WinCall \cup {"getMaxEquipId"}

Online == pc # "offline"

\* What a user is worth: its levels at their price, and its points.
Worth(u) == POINTS_PER_LEVEL * u.level + u.points

(* Levels are paid for, once: no exchangeable points are left over, and    *)
(* agility, strength and HP are those of the level, in the row and in the  *)
(* session alike, however saving failed (userAction.h:20-57).              *)
LevelsArePaid ==
  \A u \in {account, user} :
    /\ u.points < POINTS_PER_LEVEL
    /\ u.agility  = NewUser.agility  + (u.level - 1) * ADD_AGILITY_PER_LEVEL
    /\ u.strength = NewUser.strength + (u.level - 1) * ADD_STRENGTH_PER_LEVEL
    /\ u.HP       = NewUser.HP       + (u.level - 1) * ADD_HP_PER_LEVEL

(* Nothing earned is paid twice: row and session never hold more than all  *)
(* XP won so far.  Nothing is lost either, but by the two failures that    *)
(* lose it: an update of the user that did not work, which leaves the row  *)
(* behind the session, and the query before it, whose 0 ends the process   *)
(* with the points added and not saved (mapFight.h:32-60).                 *)
NothingEarnedIsLost ==
  /\ \A u \in {account, user} : Worth(u) <= Worth(NewUser) + earned
  /\ "updateUser" \notin faults => (Online => user = account)
  /\ faults \cap {"updateUser", "getMaxEquipId"} = {} => Worth(account) = Worth(NewUser) + earned

(* No equipment is owned twice, and the session's list is that of the      *)
(* table, unless one of the calls that keep them together has failed       *)
(* (mapFight.h:47-54).                                                     *)
EquipmentOnce ==
  faults \cap {"getByUserid", "isUserHaveEquip", "addUserEquip"} = {} =>
    /\ \A e \in Equip : rows[e] <= 1
    /\ Online => equipList = rows

(* The client knows every map of its level: at login it is told those up   *)
(* to its level, and afterwards only those of exactly the level it has     *)
(* reached (requestHanlder.h:54, userAction.h:44-56).  This needs queries  *)
(* that succeed, and fights that are never worth two levels.               *)
MapsTold == Online /\ "getMaps" \notin faults => MapsUpTo(user.level) \subseteq mapList

(* A fight against all the monsters of a map ends and gives its thread and *)
(* session back, although either side may miss any number of times, if     *)
(* random numbers recur with which the user strikes (mapFight.h:101-148).  *)
FightEnds == pc = "fight" ~> pc \in {"idle", "offline"}

(* map.requiredLevel is the level a map requires (sql/sql.sql:76-77).      *)
RequiredLevelHolds ==
  pc \in {"fight", "end"} => RequiredLevel[mapid] <= fighter.level
=============================================================================
