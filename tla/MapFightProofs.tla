---------------------------- MODULE MapFightProofs ----------------------------
(***************************************************************************)
(* Theorems of MapFight, for any maps, monsters and prices: levels are     *)
(* paid for once, nothing earned is lost, no equipment is owned twice, and *)
(* the client is told of its maps.                                         *)
(***************************************************************************)
EXTENDS MapFight, TLAPS

(* The inductive invariant, one conjunct per idea.                         *)

Monster == [level : Nat, agility : Nat, strength : Nat, HP : Nat \ {0}]

Fighting == pc \in {"fight", "end"}

\* What one user has is what its level gives.
Abilities(u) ==
  /\ u.level >= 1
  /\ u.agility  = NewUser.agility  + (u.level - 1) * ADD_AGILITY_PER_LEVEL
  /\ u.strength = NewUser.strength + (u.level - 1) * ADD_STRENGTH_PER_LEVEL
  /\ u.HP       = NewUser.HP       + (u.level - 1) * ADD_HP_PER_LEVEL

Paid(u) == u.points < POINTS_PER_LEVEL /\ Abilities(u)

\* The fight has a copy of the session's user, and changes it only at its end.
Copied == Fighting => fighter = user

IInv ==
  /\ TypeOK
  /\ Paid(account) /\ Paid(user)
  /\ Copied
  /\ NothingEarnedIsLost
  /\ EquipmentOnce

-----------------------------------------------------------------------------
(* The exchange of points for levels.                                      *)

(* Points are the price of the levels they buy, and a rest below the price *)
(* of one more; less than two prices buy one level at most.                *)
LEMMA Exchanging ==
  ASSUME NEW price \in Nat \ {0}, NEW points \in Nat
  PROVE  /\ points \div price \in Nat
         /\ points % price \in 0..price - 1
         /\ points = price * (points \div price) + (points % price)
         /\ points < price + price => points \div price <= 1
<1>1. /\ points \div price \in Nat
      /\ points % price \in 0..price - 1
      /\ points = price * (points \div price) + (points % price)
  BY SMT
<1>2. ASSUME points < price + price PROVE points \div price <= 1
  <2> PICK levels \in Nat : levels = points \div price
    BY <1>1
  <2>1. price * levels <= points
    BY <1>1
  <2>2. levels >= 2 => price * levels >= price + price
    BY SMT
  <2> QED BY <1>2, <2>1, <2>2
<1> QED BY <1>1, <1>2

\* Products of naturals, for the prices of levels.
LEMMA Distributive ==
  ASSUME NEW a \in Nat, NEW b \in Nat, NEW c \in Nat
  PROVE  /\ (a + b) * c = a * c + b * c
         /\ c * (a + b) = c * a + c * b
         /\ a * c \in Nat /\ c * a \in Nat
BY SMT

(* checkUserLevel leaves a user worth what it was, with what its level     *)
(* gives, and no points that could be exchanged (userAction.h:20-57).      *)
LEMMA LevelsAtTheirPrice ==
  ASSUME NEW w \in Account
  PROVE  LET u == CheckUserLevel(w)
         IN  /\ u \in Account
             /\ Worth(u) = Worth(w)
             /\ u.points < POINTS_PER_LEVEL
             /\ u.level >= w.level
             /\ w.points < POINTS_PER_LEVEL + POINTS_PER_LEVEL => u.level <= w.level + 1
             /\ Abilities(w) => Abilities(u)
<1> DEFINE u == CheckUserLevel(w)
<1>1. PICK P \in Nat \ {0}, A \in Nat, S \in Nat, H \in Nat :
        /\ P = POINTS_PER_LEVEL /\ H = ADD_HP_PER_LEVEL
        /\ A = ADD_AGILITY_PER_LEVEL /\ S = ADD_STRENGTH_PER_LEVEL
  BY MapFightAssumption
<1>2. /\ w.level \in Nat /\ w.points \in Nat
      /\ w.agility \in Nat /\ w.strength \in Nat /\ w.HP \in Nat
  BY DEF Account
<1>3. PICK add \in Nat, rest \in Nat :
        /\ add = w.points \div P /\ rest = w.points % P
        /\ rest < P
        /\ w.points = P * add + rest
        /\ w.points < P + P => add <= 1
  <2> DEFINE q == w.points \div P
             r == w.points % P
  <2>1. q \in Nat /\ r \in 0..P - 1 /\ w.points = P * q + r /\ (w.points < P + P => q <= 1)
    BY <1>2, Exchanging
  <2> HIDE DEF q, r
  <2>2. r \in Nat /\ r < P
    BY <2>1
  <2> QED BY <2>1, <2>2 DEF q, r
<1>4. u = [level    |-> w.level + add,
           points   |-> rest,
           agility  |-> w.agility + add * A,
           strength |-> w.strength + add * S,
           HP       |-> w.HP + add * H]
  BY <1>1, <1>3 DEF CheckUserLevel
<1> HIDE DEF u
<1>5. PICK agility \in Nat, strength \in Nat, HP \in Nat :
        agility = add * A /\ strength = add * S /\ HP = add * H
  BY Distributive
<1>6. u \in Account
  BY <1>2, <1>4, <1>5 DEF Account
<1>7. /\ u.level = w.level + add /\ u.points = rest
      /\ u.agility = w.agility + agility /\ u.strength = w.strength + strength
      /\ u.HP = w.HP + HP
  BY <1>4, <1>5
<1>8. Worth(u) = Worth(w)
  <2>1. P * (w.level + add) = P * w.level + P * add
    BY <1>2, Distributive
  <2>2. PICK before \in Nat, bought \in Nat : before = P * w.level /\ bought = P * add
    BY <1>2, Distributive
  <2>3. Worth(u) = (before + bought) + rest
    BY <1>1, <1>7, <2>1, <2>2 DEF Worth
  <2>4. Worth(w) = before + (bought + rest)
    BY <1>1, <1>3, <2>2 DEF Worth
  <2> QED BY <2>3, <2>4
<1>9. ASSUME Abilities(w) PROVE Abilities(u)
  <2>1. w.level >= 1 /\ w.agility = 1 + (w.level - 1) * A
        /\ w.strength = 1 + (w.level - 1) * S /\ w.HP = 2 + (w.level - 1) * H
    BY <1>1, <1>9 DEF Abilities, NewUser
  <2>2. PICK more \in Nat : more = w.level - 1
    BY <1>2, <2>1
  <2>3. u.level - 1 = more + add /\ u.level >= 1
    BY <1>2, <1>7, <2>1, <2>2
  <2>4. /\ (more + add) * A = more * A + agility
        /\ (more + add) * S = more * S + strength
        /\ (more + add) * H = more * H + HP
    BY <1>5, Distributive
  <2>5. PICK a \in Nat, s \in Nat, h \in Nat : a = more * A /\ s = more * S /\ h = more * H
    BY Distributive
  <2>6. /\ u.agility = 1 + (u.level - 1) * A
        /\ u.strength = 1 + (u.level - 1) * S
        /\ u.HP = 2 + (u.level - 1) * H
    <3>1. w.agility = 1 + a /\ w.strength = 1 + s /\ w.HP = 2 + h
      BY <2>1, <2>2, <2>5
    <3>2. /\ (u.level - 1) * A = a + agility
          /\ (u.level - 1) * S = s + strength
          /\ (u.level - 1) * H = h + HP
      BY <2>3, <2>4, <2>5
    <3>3. /\ u.agility = 1 + (a + agility) /\ u.strength = 1 + (s + strength)
          /\ u.HP = 2 + (h + HP)
      BY <1>5, <1>7, <2>5, <3>1
    <3> QED BY <3>2, <3>3
  <2> QED BY <1>1, <2>3, <2>6 DEF Abilities, NewUser
<1>10. /\ u.points < POINTS_PER_LEVEL /\ u.level >= w.level
       /\ w.points < POINTS_PER_LEVEL + POINTS_PER_LEVEL => u.level <= w.level + 1
  <2>1. rest < P /\ (w.points < P + P => add <= 1)
    BY <1>3
  <2> QED BY <1>1, <1>2, <1>7, <2>1
<1> QED BY <1>6, <1>8, <1>9, <1>10 DEF u

-----------------------------------------------------------------------------
(* What the operations change.                                             *)

\* A map's list holds monsters.
LEMMA MonsterType ==
  ASSUME NEW m \in Map, NEW n \in 1..Len(MonsterList[m])
  PROVE  MonsterList[m][n] \in Monster
<1>1. MonsterList[m] \in Seq(Monster)
  BY MapFightAssumption DEF Monster
<1> QED BY <1>1

(* A fight that continues has the next monster of its map and a copy of    *)
(* the user the session now has (mapFight.h:150-182).                      *)
LEMMA Continued ==
  ASSUME TypeOK, pc = "end", NEW u \in Account, Continue(u)
  PROVE  /\ user' = u
         /\ pc' \in {"fight", "idle"}
         /\ pc' = "fight" => fighter' = u
         /\ fighter' \in Account
         /\ mapid' \in Map /\ i' \in Nat \ {0}
         /\ pc' = "fight" => i' \in 1..Len(MonsterList[mapid'])
         /\ userHP' \in 0..fighter'.HP /\ monsterHP' \in Nat
<1>1. CASE /\ monsterHP = 0 /\ i < Len(MonsterList[mapid])
           /\ Meet(mapid, i + 1, u)
           /\ pc' = "fight"
  <2>1. mapid \in Map /\ i + 1 \in 1..Len(MonsterList[mapid])
    BY <1>1, MapFightAssumption DEF TypeOK
  <2>2. MonsterList[mapid][i + 1] \in Monster
    BY <2>1, MonsterType
  <2> QED BY <1>1, <2>1, <2>2 DEF Meet, Continue, Account, Monster
<1>2. CASE UNCHANGED fight /\ pc' = "idle"
  BY <1>2 DEF Continue, fight, TypeOK
<1> QED BY <1>1, <1>2 DEF Continue

(* The user a victory leaves in the session: worth what the XP add.        *)
LEMMA Won ==
  ASSUME IInv, NEW e \in Equip \cup {0}, NEW failed \in SUBSET WinCall, Win(e, failed)
  PROVE  \E u \in Account, xp \in Nat :
           /\ xp = XP_PER_MONSTER_LEVEL * MonsterList[mapid][i].level
           /\ u = CheckUserLevel([fighter EXCEPT !.points = @ + xp])
           /\ Paid(u)
           /\ Worth(u) = Worth(user) + xp
           /\ u.level >= user.level
           /\ xp <= POINTS_PER_LEVEL => u.level <= user.level + 1
           /\ UpdateUser(u, failed) /\ AddEquip(e, failed) /\ TellMaps(u, failed)
           /\ Continue(u)
           /\ earned' = earned + xp /\ faults' = faults \cup failed
<1> DEFINE xp == XP_PER_MONSTER_LEVEL * MonsterList[mapid][i].level
           w  == [fighter EXCEPT !.points = @ + xp]
           u  == CheckUserLevel(w)
<1> USE MapFightAssumption
<1>1. pc = "end" /\ fighter = user /\ Paid(user) /\ user \in Account
  BY DEF Win, IInv, Copied, Fighting, TypeOK
<1>2. xp \in Nat
  <2>1. MonsterList[mapid][i] \in Monster
    BY <1>1, MonsterType DEF IInv, TypeOK
  <2> QED BY <2>1, Distributive DEF Monster
<1> HIDE DEF xp
<1>3. /\ w \in Account /\ w.points = user.points + xp /\ w.level = user.level
      /\ w.agility = user.agility /\ w.strength = user.strength /\ w.HP = user.HP
      /\ user.points \in Nat /\ user.level \in Nat
  <2>1. fighter \in Account /\ fighter.points \in Nat
    BY <1>1 DEF Account
  <2>2. w \in Account
    <3>1. PICK l \in Nat, p \in Nat, a \in Nat, s \in Nat, h \in Nat :
            fighter = [level |-> l, points |-> p, agility |-> a, strength |-> s, HP |-> h]
      BY <2>1 DEF Account
    <3>2. w = [level |-> l, points |-> p + xp, agility |-> a, strength |-> s, HP |-> h]
      BY <3>1
    <3> HIDE DEF w
    <3> QED BY <1>2, <3>2 DEF Account
  <2>3. /\ w.points = fighter.points + xp /\ w.level = fighter.level
        /\ w.agility = fighter.agility /\ w.strength = fighter.strength
        /\ w.HP = fighter.HP
    BY <2>1 DEF Account
  <2> QED BY <1>1, <2>2, <2>3 DEF Account
<1>4. Abilities(w) /\ user.points < POINTS_PER_LEVEL
  BY <1>1, <1>3 DEF Paid, Abilities
<1> HIDE DEF w
<1>5. /\ u \in Account /\ Worth(u) = Worth(w) /\ Paid(u)
      /\ u.level >= user.level
      /\ w.points < POINTS_PER_LEVEL + POINTS_PER_LEVEL => u.level <= user.level + 1
  BY <1>3, <1>4, LevelsAtTheirPrice DEF Paid
<1>6. Worth(w) = Worth(user) + xp
  <2>1. POINTS_PER_LEVEL * user.level \in Nat
    BY <1>3, Distributive
  <2> QED BY <1>2, <1>3, <2>1 DEF Worth
<1>7. xp <= POINTS_PER_LEVEL => w.points < POINTS_PER_LEVEL + POINTS_PER_LEVEL
  BY <1>2, <1>3, <1>4
<1>8. /\ UpdateUser(u, failed) /\ AddEquip(e, failed) /\ TellMaps(u, failed)
      /\ Continue(u)
      /\ earned' = earned + xp /\ faults' = faults \cup failed
  BY DEF Win, xp, w
<1> HIDE DEF u
<1>9. u = CheckUserLevel([fighter EXCEPT !.points = @ + xp])
  BY DEF u, w
<1>10. xp = XP_PER_MONSTER_LEVEL * MonsterList[mapid][i].level
  BY DEF xp
<1> QED BY <1>2, <1>5, <1>6, <1>7, <1>8, <1>9, <1>10

-----------------------------------------------------------------------------
(* IInv is inductive.                                                      *)

\* The invariant holds at first.
LEMMA InitIInv == Init => IInv
<1> SUFFICES ASSUME Init PROVE IInv
  OBVIOUS
<1> USE MapFightAssumption
<1>1. NewUser \in Account /\ Paid(NewUser)
  BY DEF NewUser, Account, Paid, Abilities
<1>2. TypeOK
  BY <1>1 DEF Init, TypeOK, NewUser
<1>3. NothingEarnedIsLost
  <2>1. Worth(NewUser) \in Nat
    BY DEF Worth, NewUser
  <2> QED BY <2>1 DEF Init, NothingEarnedIsLost, Online
<1> QED BY <1>1, <1>2, <1>3 DEF Init, IInv, Copied, Fighting, EquipmentOnce, Online

\* The user is read from its row.
LEMMA LoginKeeps ==
  ASSUME IInv, NEW failed \in SUBSET LoginCall, Login(failed)
  PROVE  IInv'
<1> USE DEF IInv, Login, db, fight
<1>1. TypeOK'
  BY DEF TypeOK, MapsUpTo
<1>2. Paid(account)' /\ Paid(user)' /\ Copied'
  BY DEF Paid, Abilities, Copied, Fighting
<1>3. NothingEarnedIsLost'
  BY DEF NothingEarnedIsLost, Worth, Online
<1>4. EquipmentOnce'
  BY DEF EquipmentOnce, Online
<1> QED BY <1>1, <1>2, <1>3, <1>4

\* The session ends.
LEMMA LogoutKeeps ==
  ASSUME IInv, Logout \/ UNCHANGED vars
  PROVE  IInv'
<1> USE DEF IInv, Logout, db, fight, vars
<1>1. TypeOK'
  BY DEF TypeOK
<1>2. Paid(account)' /\ Paid(user)' /\ Copied'
  BY DEF Paid, Abilities, Copied, Fighting
<1>3. NothingEarnedIsLost'
  BY DEF NothingEarnedIsLost, Worth, Online
<1>4. EquipmentOnce'
  BY DEF EquipmentOnce, Online
<1> QED BY <1>1, <1>2, <1>3, <1>4

\* What a user is worth is a number.
LEMMA WorthType == \A u \in Account : Worth(u) \in Nat
<1> SUFFICES ASSUME NEW u \in Account PROVE Worth(u) \in Nat
  OBVIOUS
<1>1. u.level \in Nat /\ u.points \in Nat
  BY DEF Account
<1>2. POINTS_PER_LEVEL * u.level \in Nat
  BY <1>1, MapFightAssumption, Distributive
<1> QED BY <1>1, <1>2 DEF Worth

\* The process ends with points that are not saved.
LEMMA DivideByZeroKeeps ==
  ASSUME IInv, DivideByZero
  PROVE  IInv'
<1> USE DEF IInv, DivideByZero, db, fight
<1>1. PICK xp \in Nat : earned' = earned + xp
  <2>1. MonsterList[mapid][i] \in Monster
    BY MonsterType DEF TypeOK
  <2>2. MonsterList[mapid][i].level \in Nat
    BY <2>1 DEF Monster
  <2> QED BY <2>2, MapFightAssumption, Distributive
<1>2. earned \in Nat /\ earned' \in Nat /\ earned <= earned'
  BY <1>1 DEF TypeOK
<1>3. TypeOK'
  BY <1>2 DEF TypeOK
<1>4. Paid(account)' /\ Paid(user)' /\ Copied'
  BY DEF Paid, Abilities, Copied, Fighting
<1>5. NothingEarnedIsLost'
  <2>1. Worth(NewUser) \in Nat
    BY MapFightAssumption DEF Worth, NewUser
  <2>2. ASSUME NEW u \in {account, user}
        PROVE  Worth(u) <= Worth(NewUser) + earned'
    <3>1. Worth(u) \in Nat /\ Worth(u) <= Worth(NewUser) + earned
      BY WorthType DEF TypeOK, NothingEarnedIsLost
    <3> QED BY <1>2, <2>1, <3>1
  <2>3. /\ faults' = faults \cup {"getMaxEquipId"}
        /\ UNCHANGED <<account, user>> /\ ~Online'
    BY DEF Online
  <2>4. Worth(account)' = Worth(account) /\ Worth(user)' = Worth(user) /\ Worth(NewUser)' = Worth(NewUser)
    BY <2>3 DEF Worth, NewUser
  <2> QED BY <2>2, <2>3, <2>4 DEF NothingEarnedIsLost
<1>6. EquipmentOnce'
  BY DEF EquipmentOnce, Online
<1> QED BY <1>3, <1>4, <1>5, <1>6

\* A fight copies the user of the session.
LEMMA BeginKeeps ==
  ASSUME IInv, NEW m \in Map, BeginMapFight(m)
  PROVE  IInv'
<1> USE DEF IInv, BeginMapFight, Meet, db
<1>1. TypeOK'
  <2>1. 1 \in 1..Len(MonsterList[m])
    BY MapFightAssumption
  <2>2. MonsterList[m][1] \in Monster
    BY <2>1, MonsterType
  <2>3. user.HP \in Nat /\ MonsterList[m][1].HP \in Nat
    BY <2>2 DEF TypeOK, Account, Monster
  <2> QED BY <2>1, <2>3 DEF TypeOK
<1>2. Paid(account)' /\ Paid(user)' /\ Copied'
  BY DEF Paid, Abilities, Copied, Fighting
<1>3. NothingEarnedIsLost'
  BY DEF NothingEarnedIsLost, Worth, Online
<1>4. EquipmentOnce'
  BY DEF EquipmentOnce, Online
<1> QED BY <1>1, <1>2, <1>3, <1>4

\* A blow takes hit points and nothing else.
LEMMA RoundKeeps ==
  ASSUME IInv, NEW rate \in Rate, NEW ratio \in Ratio, Round(rate, ratio)
  PROVE  IInv'
<1> USE DEF IInv, Round, db
<1>1. TypeOK'
  <2>1. MonsterList[mapid][i] \in Monster /\ fighter \in Account
    BY MonsterType DEF TypeOK
  <2>2. PICK blow \in Nat, bite \in Nat :
          blow = fighter.strength * ratio /\ bite = MonsterList[mapid][i].strength
    BY <2>1, MapFightAssumption, Distributive DEF Account, Monster
  <2>4. monsterHP \in Nat /\ userHP \in 0..fighter.HP /\ fighter.HP \in Nat
    BY <2>1 DEF TypeOK, Account
  <2>5. Minus(monsterHP, blow) \in Nat /\ Minus(userHP, bite) \in 0..fighter.HP
    <3>1. userHP \in Nat /\ 0..userHP \subseteq 0..fighter.HP
      BY <2>4
    <3> QED BY <2>2, <2>4, <3>1 DEF Minus
  <2>6. monsterHP' \in Nat
    BY <2>2, <2>4, <2>5
  <2>7. userHP' \in 0..fighter.HP
    BY <2>2, <2>4, <2>5
  <2> QED BY <2>6, <2>7 DEF TypeOK
<1>2. Paid(account)' /\ Paid(user)' /\ Copied'
  BY DEF Paid, Abilities, Copied, Fighting
<1>3. NothingEarnedIsLost'
  BY DEF NothingEarnedIsLost, Worth, Online
<1>4. EquipmentOnce'
  BY DEF EquipmentOnce, Online
<1> QED BY <1>1, <1>2, <1>3, <1>4

\* A fight that is lost leaves the row, and the session what the fighter is.
LEMMA LoseKeeps == ASSUME IInv, Lose PROVE IInv'
<1> USE DEF IInv, Lose, db
<1>1. fighter = user /\ fighter \in Account
  BY DEF Copied, Fighting, TypeOK
<1>2. /\ user' = user
      /\ pc' \in {"fight", "idle"}
      /\ pc' = "fight" => fighter' = user
      /\ fighter' \in Account
      /\ mapid' \in Map /\ i' \in Nat \ {0}
      /\ pc' = "fight" => i' \in 1..Len(MonsterList[mapid'])
      /\ userHP' \in 0..fighter'.HP /\ monsterHP' \in Nat
  BY <1>1, Continued
<1>3. TypeOK'
  BY <1>2 DEF TypeOK
<1>4. Paid(account)' /\ Paid(user)' /\ Copied'
  BY <1>2 DEF Paid, Abilities, Copied, Fighting
<1>5. NothingEarnedIsLost'
  BY <1>2 DEF NothingEarnedIsLost, Worth, Online
<1>6. EquipmentOnce'
  BY <1>2 DEF EquipmentOnce, Online
<1> QED BY <1>3, <1>4, <1>5, <1>6

\* One that is won is paid, perhaps with a level and an equipment, whatever
\* calls fail.
LEMMA WinKeeps ==
  ASSUME IInv, NEW e \in Equip \cup {0}, NEW failed \in SUBSET WinCall, Win(e, failed)
  PROVE  IInv'
<1>1. PICK u \in Account, xp \in Nat :
        /\ Paid(u) /\ Worth(u) = Worth(user) + xp
        /\ UpdateUser(u, failed) /\ AddEquip(e, failed) /\ TellMaps(u, failed)
        /\ Continue(u)
        /\ earned' = earned + xp /\ faults' = faults \cup failed
  BY Won
<1>2. pc = "end"
  BY DEF Win
<1>3. /\ user' = u
      /\ pc' \in {"fight", "idle"}
      /\ pc' = "fight" => fighter' = u
      /\ fighter' \in Account
      /\ mapid' \in Map /\ i' \in Nat \ {0}
      /\ pc' = "fight" => i' \in 1..Len(MonsterList[mapid'])
      /\ userHP' \in 0..fighter'.HP /\ monsterHP' \in Nat
  BY <1>1, <1>2, Continued DEF IInv
<1>4. /\ account' = IF "updateUser" \in failed THEN account ELSE u
      /\ account' \in Account
  BY <1>1 DEF UpdateUser, IInv, TypeOK
<1>5. TypeOK'
  <2>1. rows' \in [Equip -> Nat] /\ equipList' \in [Equip -> Nat]
    BY <1>1 DEF AddEquip, IInv, TypeOK
  <2>2. mapList' \subseteq Map
    BY <1>1 DEF TellMaps, MapsAt, IInv, TypeOK
  <2> QED BY <1>1, <1>3, <1>4, <2>1, <2>2 DEF IInv, TypeOK
<1>6. Paid(account)' /\ Paid(user)' /\ Copied'
  BY <1>1, <1>3, <1>4 DEF IInv, Paid, Abilities, Copied, Fighting
<1>7. NothingEarnedIsLost'
  <2>1. user' = u /\ account' \in {account, u} /\ ("updateUser" \notin failed => account' = u)
    BY <1>3, <1>4
  <2>2. PICK base \in Nat, mine \in Nat, theirs \in Nat, old \in Nat :
          /\ base = Worth(NewUser) /\ mine = Worth(user) /\ theirs = Worth(account) /\ old = earned
          /\ earned' = old + xp /\ Worth(u) = mine + xp
    <3>1. Worth(NewUser) \in Nat /\ earned \in Nat /\ earned' = earned + xp
      BY <1>1, MapFightAssumption DEF Worth, NewUser, IInv, TypeOK
    <3>2. Worth(user) \in Nat /\ Worth(account) \in Nat
      BY WorthType DEF IInv, TypeOK
    <3> QED BY <1>1, <3>1, <3>2
  <2>3. mine <= base + old /\ theirs <= base + old
    BY <2>2 DEF IInv, NothingEarnedIsLost
  <2>4. mine + xp <= base + (old + xp) /\ theirs <= base + (old + xp)
    BY <2>3
  <2>5. \A v \in {account', user'} : Worth(v) <= base + earned'
    BY <2>1, <2>2, <2>4
  <2>6. ASSUME "updateUser" \notin faults' PROVE user' = account'
    BY <1>1, <2>1, <2>6
  <2>7. ASSUME faults' \cap {"updateUser", "getMaxEquipId"} = {}
        PROVE  Worth(account') = base + earned'
    <3>1. "updateUser" \notin failed /\ faults \cap {"updateUser", "getMaxEquipId"} = {}
      BY <1>1, <2>7
    <3>2. user = account /\ theirs = base + old
      BY <1>2, <2>2, <3>1 DEF IInv, NothingEarnedIsLost, Online
    <3>3. mine = base + old /\ Worth(account') = mine + xp
      BY <2>1, <2>2, <3>1, <3>2
    <3>4. mine + xp = base + (old + xp)
      BY <3>3
    <3> QED BY <2>2, <3>3, <3>4
  <2>8. Worth(account)' = Worth(account') /\ Worth(NewUser)' = base
    BY <2>2 DEF Worth, NewUser
  <2> QED BY <2>2, <2>5, <2>6, <2>7, <2>8 DEF NothingEarnedIsLost
<1>8. EquipmentOnce'
  <2> SUFFICES ASSUME faults' \cap {"getByUserid", "isUserHaveEquip", "addUserEquip"} = {}
               PROVE  (\A f \in Equip : rows'[f] <= 1) /\ equipList' = rows'
    BY DEF EquipmentOnce
  <2>1. "isUserHaveEquip" \notin failed /\ "addUserEquip" \notin failed
    BY <1>1
  <2>2. (\A f \in Equip : rows[f] <= 1) /\ equipList = rows
    BY <1>1, <1>2 DEF IInv, EquipmentOnce, Online
  <2>3. rows \in [Equip -> Nat]
    BY DEF IInv, TypeOK
  <2>4. CASE rows' = rows /\ equipList' = equipList
    BY <2>2, <2>4
  <2>5. CASE /\ e \in Equip /\ rows[e] = 0
             /\ rows' = [rows EXCEPT ![e] = @ + 1] /\ equipList' = [equipList EXCEPT ![e] = @ + 1]
    BY <2>2, <2>3, <2>5
  <2> QED BY <1>1, <2>1, <2>3, <2>4, <2>5 DEF AddEquip
<1> QED BY <1>5, <1>6, <1>7, <1>8 DEF IInv

(* One step per action.                                                    *)
LEMMA NextKeeps == IInv /\ [Next]_vars => IInv'
<1> SUFFICES ASSUME IInv, [Next]_vars PROVE IInv'
  OBVIOUS
<1> QED
  BY LoginKeeps, LogoutKeeps, DivideByZeroKeeps, BeginKeeps, RoundKeeps, LoseKeeps, WinKeeps
  DEF Next, EndFight

(* The inductive invariant holds: row, session and fighter are the same     *)
(* user at different moments of a fight (mapFight.h, userAction.h:20-57).   *)
THEOREM Invariance == Spec => []IInv
BY InitIInv, NextKeeps, PTL DEF Spec

-----------------------------------------------------------------------------
(* The results.                                                            *)

(* The variables have their types; the fight in progress is with a monster *)
(* its map has, and its user never above its HP (mapFight.h:62-182).       *)
THEOREM TypeCorrect == Spec => []TypeOK
<1>1. IInv => TypeOK
  BY DEF IInv
<1> QED BY Invariance, <1>1, PTL

(* Levels are paid for, once, in the row and in the session, for any price *)
(* of a level and whatever calls have failed (userAction.h:20-57).         *)
THEOREM Price == Spec => []LevelsArePaid
<1>1. IInv => LevelsArePaid
  BY DEF IInv, LevelsArePaid, Paid, Abilities
<1> QED BY Invariance, <1>1, PTL

(* Nothing earned is paid twice, and nothing is lost but by an update of   *)
(* the user that failed, or by the division that ends the process before   *)
(* the points are saved (mapFight.h:32-60).                                *)
THEOREM Lossless == Spec => []NothingEarnedIsLost
<1>1. IInv => NothingEarnedIsLost
  BY DEF IInv
<1> QED BY Invariance, <1>1, PTL

(* No equipment is owned twice, and the list of the session is that of the *)
(* table, unless one of the calls that keep them together has failed       *)
(* (mapFight.h:47-54).                                                     *)
THEOREM Once == Spec => []EquipmentOnce
<1>1. IInv => EquipmentOnce
  BY DEF IInv
<1> QED BY Invariance, <1>1, PTL

-----------------------------------------------------------------------------
(* The maps the client is told of.                                         *)

\* No monster is worth two levels: in the code 10 points for each of its
\* levels, of which there are 50 to a level, and the monsters of sql.sql are of
\* level 1 (fightParam.h:16, userAction.h:14, sql.sql:60).
OneLevelAtMost ==
  \A m \in Map : \A n \in 1..Len(MonsterList[m]) :
    XP_PER_MONSTER_LEVEL * MonsterList[m][n].level <= POINTS_PER_LEVEL

(* A victory adds one level at most, and the maps of exactly that one are  *)
(* sent (userAction.h:44-56).                                              *)
LEMMA WinTells ==
  ASSUME OneLevelAtMost, IInv, MapsTold,
         NEW e \in Equip \cup {0}, NEW failed \in SUBSET WinCall, Win(e, failed)
  PROVE  MapsTold'
<1> USE MapFightAssumption
<1>1. PICK u \in Account, xp \in Nat :
        /\ xp = XP_PER_MONSTER_LEVEL * MonsterList[mapid][i].level
        /\ u.level >= user.level
        /\ xp <= POINTS_PER_LEVEL => u.level <= user.level + 1
        /\ TellMaps(u, failed) /\ Continue(u) /\ faults' = faults \cup failed
  BY Won
<1>2. pc = "end" /\ fighter = user /\ user' = u /\ user \in Account
  BY <1>1 DEF Win, IInv, Copied, Fighting, TypeOK, Continue
<1>3. xp <= POINTS_PER_LEVEL
  BY <1>1, <1>2 DEF OneLevelAtMost, IInv, TypeOK
<1>4. u.level = user.level \/ u.level = user.level + 1
  <2>1. u.level \in Nat /\ user.level \in Nat
    BY <1>2 DEF Account
  <2>2. u.level >= user.level /\ u.level <= user.level + 1
    BY <1>1, <1>3
  <2> QED BY <2>1, <2>2
<1>5. SUFFICES ASSUME "getMaps" \notin faults'
               PROVE  MapsUpTo(u.level) \subseteq mapList'
  BY <1>2 DEF MapsTold, MapsUpTo
<1>6. MapsUpTo(user.level) \subseteq mapList
  BY <1>1, <1>2, <1>5 DEF MapsTold, Online
<1>7. CASE u.level = user.level
  BY <1>1, <1>2, <1>6, <1>7 DEF TellMaps, Account
<1>8. CASE u.level = user.level + 1
  <2>1. mapList' = mapList \cup MapsAt(u.level)
    <3>1. u.level > user.level
      BY <1>2, <1>8 DEF Account
    <3> QED BY <1>1, <1>2, <1>5, <3>1 DEF TellMaps
  <2>2. MapsUpTo(u.level) = MapsUpTo(user.level) \cup MapsAt(u.level)
    BY <1>2, <1>8 DEF MapsUpTo, MapsAt, Account
  <2> QED BY <1>6, <2>1, <2>2
<1> QED BY <1>4, <1>7, <1>8

\* Maps that were told stay told, if no fight is worth two levels.
LEMMA NextTells ==
  ASSUME OneLevelAtMost, IInv, MapsTold, [Next]_vars
  PROVE  MapsTold'
<1> USE DEF MapsTold, MapsUpTo, Online, fight, db
<1>1. ASSUME NEW failed \in SUBSET LoginCall, Login(failed) PROVE MapsTold'
  BY <1>1 DEF Login
<1>2. CASE Logout \/ DivideByZero \/ UNCHANGED vars
  BY <1>2 DEF Logout, DivideByZero, vars
<1>3. ASSUME NEW m \in Map, BeginMapFight(m) PROVE MapsTold'
  BY <1>3 DEF BeginMapFight
<1>4. ASSUME NEW rate \in Rate, NEW ratio \in Ratio, Round(rate, ratio) PROVE MapsTold'
  BY <1>4 DEF Round
<1>5. CASE Lose
  BY <1>5 DEF Lose, Continue, IInv, Copied, Fighting
<1> HIDE DEF MapsTold
<1>6. ASSUME NEW e \in Equip \cup {0}, NEW failed \in SUBSET WinCall, Win(e, failed)
      PROVE  MapsTold'
  BY <1>6, WinTells
<1> QED BY <1>1, <1>2, <1>3, <1>4, <1>5, <1>6 DEF Next, EndFight

(* The client knows every map of its level, if queries succeed and no      *)
(* fight is worth two levels, although at a new level it is told only of   *)
(* the maps of exactly that one (requestHanlder.h:54, userAction.h:44-56). *)
THEOREM Told == ASSUME OneLevelAtMost PROVE Spec => []MapsTold
<1>1. Init => MapsTold
  BY DEF Init, MapsTold, Online
<1>2. IInv /\ MapsTold /\ [Next]_vars => MapsTold'
  BY NextTells
<1> QED BY Invariance, <1>1, <1>2, PTL DEF Spec
=============================================================================
