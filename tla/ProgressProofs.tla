---------------------------- MODULE ProgressProofs ----------------------------
(***************************************************************************)
(* Theorems of Progress, for any number of users, sessions and duels: no   *)
(* points from nothing, none lost but by the users named as unlucky, and   *)
(* whose user a session holds.                                             *)
(***************************************************************************)
EXTENDS Progress, TLAPS

(* The inductive invariant, one conjunct per idea.                         *)

\* A name is in the registry with the slot where its user has logged in; a lucky
\* user has one session.
Logins ==
  /\ \A u \in User, s \in Slot : online[u] = s => client[s] = u
  /\ \A u \in User, s \in Slot : client[s] = u => online[u] = s \/ u \in unlucky
  /\ \A s \in Slot : user[s] # None <=> client[s] # None
  /\ \A s \in Slot : user[s] # None => open[s]
  /\ \A s \in Slot : fighting[s] => user[s] # None
  /\ \A s \in haunted : open[s] /\ (client[s] # None => client[s] \in unlucky)
  /\ \A s \in Slot : loaded[s] # None /\ s \notin late => online[loaded[s].name] = None

InLogin(s)   == pc[s] \in {"read", "checked"}
InFight(s)   == pc[s] \in {"fight", "ended", "saved"}
InRequest(s) == pc[s] \in {"join", "refuse", "cancel", "joined", "refused", "cancelled"}

\* The locals of a handler.
Threads ==
  /\ \A s \in Slot : pc[s] # "idle" => open[s]
  /\ \A s \in Slot : InLogin(s) <=> loaded[s] # None
  /\ \A s \in Slot : InLogin(s) => user[s] = None
  /\ \A s \in Slot : InFight(s) <=> fighter[s] # None
  /\ \A s \in Slot : found[s] # None => pc[s] \in {"ended", "saved"}
  /\ \A s \in Slot : InRequest(s) <=> room[s] # None
  /\ \A s \in Slot : InFight(s) \/ InRequest(s) => user[s] # None

\* The locals of a task.
Tasks ==
  /\ \A i \in FightId : stage[i] # "unused" =>
       /\ first[i] \in Slot /\ second[i] \in Slot
       /\ user1[i] \in Record /\ user2[i] \in Record
  /\ \A i \in FightId : stage[i] = "rounds" => hp1[i] # 0 /\ hp2[i] # 0
  /\ \A i \in FightId : stage[i] = "unused" => user1[i] = None /\ user2[i] = None

\* A room, or a request that has found one, points to a session with a user, or to
\* one that is gone.
Sought(s) == s \in rooms \/ \E t \in Slot : room[t] = s

Rooms == \A s \in Slot : Sought(s) /\ ~Gone(s) => user[s] # None

\* A copy is no richer than its user has ever been.
Fair(r) == r # None => r.points <= earned[r.name]

Copies ==
  /\ \A u \in User : row[u] <= earned[u]
  /\ \A s \in Slot : Fair(user[s]) /\ Fair(fighter[s]) /\ Fair(loaded[s])
  /\ \A i \in FightId : Fair(user1[i]) /\ Fair(user2[i])

\* What a session holds, or a map fight in its thread, is its client's, unless
\* something that pointed at the place has put an unlucky user there.
Home(s, r) == r.name = client[s] \/ (s \in haunted /\ r.name \in unlucky)

\* What will be put into the session in slot s, if there still is one.
Away(s, r) == r.name = client[s] \/ (Gone(s) /\ r.name \in unlucky)

FirstPending(i)  == stage[i] \notin {"unused", "write2", "free2"}
SecondPending(i) == stage[i] # "unused"

Homes ==
  /\ \A s \in Slot : user[s] # None => Home(s, user[s])
  /\ \A s \in Slot : fighter[s] # None => Home(s, fighter[s])
  /\ \A s \in Slot : pc[s] \in {"ended", "saved"} =>
       IF found[s] = None THEN fighter[s].name \in unlucky ELSE Away(found[s], fighter[s])
  /\ \A i \in FightId : FirstPending(i) => Away(first[i], user1[i])
  /\ \A i \in FightId : SecondPending(i) => Away(second[i], user2[i])

\* The requests that hold the creator of the room they have taken.
Takers(s) == {t \in Slot : room[t] = s /\ pc[t] \in {"joined", "refused"}}

\* The handler of s will clear its flag, or add a duel.
Own(s) == pc[s] \in {"join", "joined", "cancelled", "fight", "ended", "saved"}

Busy(s) == s \in rooms \/ Takers(s) # {} \/ PointAt(s) # {} \/ Own(s)

\* One room, request, duel or map fight at a time.
OneHolder(s) ==
  /\ \A i, j \in PointAt(s) : i = j
  /\ \A t, x \in Takers(s) : t = x
  /\ s \in rooms => Takers(s) = {} /\ PointAt(s) = {} /\ ~Own(s)
  /\ Takers(s) # {} => PointAt(s) = {} /\ ~Own(s)
  /\ PointAt(s) # {} => ~Own(s)

\* A session whose user is not unlucky.
Safe(s) == ~Gone(s) /\ client[s] \notin unlucky

Exclusion ==
  /\ \A s \in Slot : Safe(s) => OneHolder(s) /\ (Busy(s) => fighting[s])
  /\ \A i \in FightId : stage[i] # "unused" /\ first[i] = second[i] => ~Safe(first[i])

\* Everything that holds a lucky user has all the points, but the session while
\* a fight that has paid has not written back yet, and a login that is late.
Exact(r) == r # None /\ r.name \notin unlucky => r.points = earned[r.name]

Owed(s) ==
  \/ pc[s] = "saved"
  \/ \E i \in FightId : first[i] = s /\ stage[i] = "write1"
  \/ \E i \in FightId : second[i] = s /\ stage[i] \in {"write1", "clear1", "write2"}

Truth ==
  /\ \A u \in User : u \in unlucky \/ row[u] = earned[u]
  /\ \A s \in Slot : Exact(fighter[s]) /\ (Exact(user[s]) \/ Owed(s))
  /\ \A s \in Slot : s \in late \/ Exact(loaded[s])
  /\ \A i \in FightId : FirstPending(i) => Exact(user1[i])
  /\ \A i \in FightId : SecondPending(i) => Exact(user2[i])

IInv ==
  /\ TypeOK
  /\ Logins
  /\ Threads
  /\ Tasks
  /\ Rooms
  /\ Copies
  /\ Homes
  /\ Exclusion
  /\ Truth

USE ProgressAssumption DEF ProgressAssumption, sessions, threads, duel, luck, history, vars,
                           Record, Stage, PC, Goto, Finish, Begins, MayFight

-----------------------------------------------------------------------------
(* What the steps of a duel change.                                        *)

\* updateUser writes one row, or fails and is recorded.
LEMMA SaveEffect ==
  ASSUME TypeOK, NEW r \in Record, NEW xp \in Nat, Save(r, xp)
  PROVE  /\ row' \in [User -> Nat] /\ earned' \in [User -> Nat] /\ unlucky' \in SUBSET User
         /\ \A u \in User : earned'[u] = IF u = r.name THEN earned[u] + xp ELSE earned[u]
         /\ \A u \in User \ {r.name} : row'[u] = row[u]
         /\ unlucky \subseteq unlucky'
         /\ \/ row'[r.name] = r.points /\ unlucky' = unlucky
            \/ row'[r.name] = row[r.name] /\ r.name \in unlucky'
BY DEF TypeOK, Save

\* r becomes q by winning xp.
Gains(r, q, xp) == q \in Record /\ q.name = r.name /\ q.points = r.points + xp

\* What a victory is worth is a natural.
LEMMA Winnings ==
  ASSUME NEW points \in Nat
  PROVE  XP_PER_MONSTER_LEVEL * Level(points) \in Nat
<1>1. Level(points) \in Nat
  BY DEF Level
<1>. QED
  BY <1>1

\* The winner's copy gains what is saved, and the loser's nothing.
LEMMA PayEffect ==
  ASSUME TypeOK, Tasks, NEW i \in FightId, Pay(i)
  PROVE  /\ stage[i] = "won" /\ stage' = [stage EXCEPT ![i] = "write1"]
         /\ user1' \in [FightId -> Record \cup {None}]
         /\ user2' \in [FightId -> Record \cup {None}]
         /\ \A j \in FightId \ {i} : user1'[j] = user1[j] /\ user2'[j] = user2[j]
         /\ hp1' \in [FightId -> 0..HP] /\ hp2' \in [FightId -> 0..HP]
         /\ \A j \in FightId \ {i} : hp1'[j] = hp1[j] /\ hp2'[j] = hp2[j]
         /\ \E xp \in Nat :
              \/ Gains(user1[i], user1'[i], xp) /\ user2'[i] = user2[i] /\ Save(user1'[i], xp)
              \/ Gains(user2[i], user2'[i], xp) /\ user1'[i] = user1[i] /\ Save(user2'[i], xp)
         /\ UNCHANGED <<sessions, threads, first, second, crashed, client, haunted, late>>
<1> USE DEF TypeOK, Tasks
<1>1. user1[i] \in Record /\ user2[i] \in Record /\ stage[i] = "won"
  BY DEF Pay
<1>2. PICK xp1, xp2 \in Nat :
        /\ xp1 = 0 \/ xp2 = 0
        /\ user1' = [user1 EXCEPT ![i].points = @ + xp1]
        /\ user2' = [user2 EXCEPT ![i].points = @ + xp2]
        /\ IF xp1 > 0 THEN Save(user1'[i], xp1) ELSE Save(user2'[i], xp2)
  <2>1. /\ XP_PER_MONSTER_LEVEL * Level(user1[i].points) \in Nat
        /\ XP_PER_MONSTER_LEVEL * Level(user2[i].points) \in Nat
    BY <1>1, Winnings
  <2>2. PICK w1, w2 : /\ w1 = XP_PER_MONSTER_LEVEL * Level(user2[i].points)
                      /\ w2 = XP_PER_MONSTER_LEVEL * Level(user1[i].points)
    OBVIOUS
  <2>3. w1 \in Nat /\ w2 \in Nat
    BY <2>1, <2>2
  <2>4. CASE hp2[i] = 0
    <3>1. /\ user1' = [user1 EXCEPT ![i].points = @ + w1]
          /\ user2' = [user2 EXCEPT ![i].points = @ + 0]
          /\ IF w1 > 0 THEN Save(user1'[i], w1) ELSE Save(user2'[i], 0)
      BY <2>2, <2>4 DEF Pay
    <3>. QED
      BY <2>3, <3>1
  <2>5. CASE hp2[i] # 0
    <3>1. /\ user1' = [user1 EXCEPT ![i].points = @ + 0]
          /\ user2' = [user2 EXCEPT ![i].points = @ + w2]
          /\ IF 0 > 0 THEN Save(user1'[i], 0) ELSE Save(user2'[i], w2)
      BY <2>2, <2>5 DEF Pay
    <3>. QED
      BY <2>3, <3>1
  <2>. QED
    BY <2>4, <2>5
<1>3. Gains(user1[i], user1'[i], xp1) /\ Gains(user2[i], user2'[i], xp2)
  BY <1>1, <1>2 DEF Gains
<1>4. \A j \in FightId \ {i} : user1'[j] = user1[j] /\ user2'[j] = user2[j]
  BY <1>2
<1>5. user1' \in [FightId -> Record \cup {None}] /\ user2' \in [FightId -> Record \cup {None}]
  BY <1>2, <1>3, <1>4 DEF Gains
<1>6. xp1 = 0 => user1'[i] = user1[i]
  BY <1>1, <1>2
<1>7. xp2 = 0 => user2'[i] = user2[i]
  BY <1>1, <1>2
<1>8. \E xp \in Nat :
              \/ Gains(user1[i], user1'[i], xp) /\ user2'[i] = user2[i] /\ Save(user1'[i], xp)
              \/ Gains(user2[i], user2'[i], xp) /\ user1'[i] = user1[i] /\ Save(user2'[i], xp)
  <2>1. CASE xp1 > 0
    BY <1>2, <1>3, <1>7, <2>1
  <2>2. CASE ~(xp1 > 0)
    BY <1>2, <1>3, <1>6, <2>2
  <2>. QED
    BY <2>1, <2>2
<1>9. /\ stage[i] = "won" /\ stage' = [stage EXCEPT ![i] = "write1"]
      /\ hp1' = [hp1 EXCEPT ![i] = 0] /\ hp2' = [hp2 EXCEPT ![i] = 0]
      /\ UNCHANGED <<sessions, threads, first, second, crashed, client, haunted, late>>
  BY DEF Pay
<1>. QED
  BY <1>4, <1>5, <1>8, <1>9

\* The duel of s and t begins.
Started(i, s, t) ==
  /\ stage[i] = "unused" /\ stage' = [stage EXCEPT ![i] = "poll"]
  /\ \A j \in FightId \ {i} : /\ first'[j] = first[j] /\ second'[j] = second[j]
                              /\ user1'[j] = user1[j] /\ user2'[j] = user2[j]
  /\ <<first'[i], second'[i]>> \in {<<s, t>>, <<t, s>>}
  /\ user1'[i] = user[first'[i]] /\ user2'[i] = user[second'[i]]
  /\ first' \in [FightId -> Slot \cup {None}] /\ second' \in [FightId -> Slot \cup {None}]
  /\ user1' \in [FightId -> Record \cup {None}] /\ user2' \in [FightId -> Record \cup {None}]
  /\ UNCHANGED <<hp1, hp2>>
  /\ \A x \in Slot : PointAt(x)' = IF x \in {s, t} THEN PointAt(x) \cup {i} ELSE PointAt(x)

\* A fight that is joined copies both users.
LEMMA StartEffect ==
  ASSUME TypeOK, Threads, NEW s \in Slot, NEW i \in FightId, StartFight(i, s)
  PROVE  /\ Started(i, s, room[s])
         /\ pc[s] = "joined" /\ room[s] \in Slot /\ user[room[s]] \in Record /\ user[s] \in Record
         /\ pc' = [pc EXCEPT ![s] = "idle"] /\ room' = [room EXCEPT ![s] = None]
         /\ UNCHANGED <<sessions, row, loaded, fighter, found, crashed, history>>
<1> USE DEF TypeOK
<1> DEFINE t == room[s]
<1>1. t \in Slot /\ user[s] \in Record /\ user[t] \in Record
  BY DEF StartFight, Threads, InRequest
<1>2. stage[i] = "unused" /\ stage' = [stage EXCEPT ![i] = "poll"] /\ UNCHANGED <<hp1, hp2>>
  BY DEF StartFight
<1>3. PICK a, b \in Slot :
        /\ <<a, b>> \in {<<s, t>>, <<t, s>>}
        /\ first' = [first EXCEPT ![i] = a] /\ second' = [second EXCEPT ![i] = b]
        /\ user1' = [user1 EXCEPT ![i] = user[a]] /\ user2' = [user2 EXCEPT ![i] = user[b]]
  <2>1. PICK p \in {<<s, t>>, <<t, s>>} :
          /\ first' = [first EXCEPT ![i] = p[1]] /\ second' = [second EXCEPT ![i] = p[2]]
          /\ user1' = [user1 EXCEPT ![i] = user[p[1]]]
          /\ user2' = [user2 EXCEPT ![i] = user[p[2]]]
    BY DEF StartFight
  <2>2. CASE p = <<s, t>>
    BY <1>1, <2>1, <2>2
  <2>3. CASE p = <<t, s>>
    BY <1>1, <2>1, <2>3
  <2>. QED
    BY <2>2, <2>3
<1>4. \A j \in FightId \ {i} : /\ first'[j] = first[j] /\ second'[j] = second[j]
                               /\ user1'[j] = user1[j] /\ user2'[j] = user2[j]
  BY <1>3
<1>5. /\ first'[i] = a /\ second'[i] = b /\ user1'[i] = user[a] /\ user2'[i] = user[b]
      /\ first' \in [FightId -> Slot \cup {None}] /\ second' \in [FightId -> Slot \cup {None}]
      /\ user1' \in [FightId -> Record \cup {None}] /\ user2' \in [FightId -> Record \cup {None}]
  BY <1>3
<1>6. ASSUME NEW x \in Slot
      PROVE  PointAt(x)' = IF x \in {s, t} THEN PointAt(x) \cup {i} ELSE PointAt(x)
  <2> SUFFICES ASSUME NEW j \in FightId
               PROVE  j \in PointAt(x)' <=> j \in PointAt(x) \/ (j = i /\ x \in {s, t})
    BY DEF PointAt
  <2>1. CASE j = i
    BY <1>2, <1>3, <1>5, <2>1 DEF PointAt
  <2>2. CASE j # i
    BY <1>2, <1>4, <2>2 DEF PointAt
  <2>. QED
    BY <2>1, <2>2
<1>7. /\ pc[s] = "joined" /\ pc' = [pc EXCEPT ![s] = "idle"] /\ room' = [room EXCEPT ![s] = None]
      /\ UNCHANGED <<sessions, row, loaded, fighter, found, crashed, history>>
  BY DEF StartFight
<1>. QED
  BY <1>1, <1>2, <1>3, <1>4, <1>5, <1>6, <1>7 DEF Started

\* A session that is there takes the copy.
LEMMA SetUserEffect ==
  ASSUME TypeOK, NEW s \in Slot, NEW copy \in Record, SetUser(s, copy)
  PROVE  /\ user' \in [Slot -> Record \cup {None}] /\ crashed' \in BOOLEAN
         /\ \A t \in Slot \ {s} : user'[t] = user[t]
         /\ \A t \in Slot : user'[t] = None <=> user[t] = None
         /\ user'[s] = IF user[s] = None THEN None ELSE copy
<1>1. CASE user[s] # None /\ user' = [user EXCEPT ![s] = copy] /\ UNCHANGED crashed
  BY <1>1 DEF TypeOK
<1>2. CASE user[s] = None /\ crashed' = TRUE /\ UNCHANGED user
  BY <1>2 DEF TypeOK
<1>. QED
  BY <1>1, <1>2 DEF SetUser

\* The task of a fight is deleted.
LEMMA DeleteEffect ==
  ASSUME TypeOK, NEW i \in FightId, Delete(i)
  PROVE  /\ stage' \in [FightId -> Stage]
         /\ first' \in [FightId -> Slot \cup {None}] /\ second' \in [FightId -> Slot \cup {None}]
         /\ user1' \in [FightId -> Record \cup {None}] /\ user2' \in [FightId -> Record \cup {None}]
         /\ hp1' \in [FightId -> 0..HP] /\ hp2' \in [FightId -> 0..HP]
         /\ stage'[i] = "unused" /\ user1'[i] = None /\ user2'[i] = None
         /\ \A j \in FightId \ {i} :
              /\ stage'[j] = stage[j] /\ first'[j] = first[j] /\ second'[j] = second[j]
              /\ user1'[j] = user1[j] /\ user2'[j] = user2[j]
              /\ hp1'[j] = hp1[j] /\ hp2'[j] = hp2[j]
BY DEF TypeOK, Delete

\* The first user, who comes first, ...
LEMMA WriteFirstEffect ==
  ASSUME TypeOK, Tasks, NEW i \in FightId, WriteFirst(i)
  PROVE  /\ first[i] \in Slot /\ user1[i] \in Record /\ stage[i] = "write1"
         /\ user' \in [Slot -> Record \cup {None}] /\ crashed' \in BOOLEAN
         /\ \A t \in Slot \ {first[i]} : user'[t] = user[t]
         /\ \A t \in Slot : user'[t] = None <=> user[t] = None
         /\ \/ /\ stage' = [stage EXCEPT ![i] = "clear1"]
               /\ user'[first[i]] = IF user[first[i]] = None THEN None ELSE user1[i]
            \/ /\ stage' = [stage EXCEPT ![i] = "write2"]
               /\ ~open[first[i]] /\ user'[first[i]] = user[first[i]]
         /\ UNCHANGED <<open, fighting, online, rooms, row, threads, first, second, user1, user2,
                        hp1, hp2, history>>
<1>1. /\ first[i] \in Slot /\ user1[i] \in Record /\ stage[i] = "write1"
      /\ UNCHANGED <<open, fighting, online, rooms, row, threads, first, second, user1, user2,
                     hp1, hp2, history>>
  BY DEF WriteFirst, Tasks
<1>2. CASE SetUser(first[i], user1[i]) /\ stage' = [stage EXCEPT ![i] = "clear1"]
  BY <1>1, <1>2, SetUserEffect
<1>3. CASE /\ ~open[first[i]] /\ UNCHANGED <<user, crashed>>
           /\ stage' = [stage EXCEPT ![i] = "write2"]
  BY <1>1, <1>3 DEF TypeOK
<1>. QED
  BY <1>2, <1>3 DEF WriteFirst

\* ... and the second, after whom the task is gone unless the flag is left.
LEMMA WriteSecondEffect ==
  ASSUME TypeOK, Tasks, NEW i \in FightId, WriteSecond(i)
  PROVE  /\ second[i] \in Slot /\ user2[i] \in Record /\ stage[i] = "write2"
         /\ user' \in [Slot -> Record \cup {None}] /\ crashed' \in BOOLEAN
         /\ \A t \in Slot \ {second[i]} : user'[t] = user[t]
         /\ \A t \in Slot : user'[t] = None <=> user[t] = None
         /\ \/ /\ stage' = [stage EXCEPT ![i] = "free2"]
               /\ user'[second[i]] = IF user[second[i]] = None THEN None ELSE user2[i]
               /\ UNCHANGED <<first, second, user1, user2, hp1, hp2>>
            \/ ~open[second[i]] /\ user'[second[i]] = user[second[i]] /\ Delete(i)
         /\ UNCHANGED <<open, fighting, online, rooms, row, threads, history>>
<1>1. /\ second[i] \in Slot /\ user2[i] \in Record /\ stage[i] = "write2"
      /\ UNCHANGED <<open, fighting, online, rooms, row, threads, history>>
  BY DEF WriteSecond, Tasks
<1>2. CASE /\ SetUser(second[i], user2[i]) /\ stage' = [stage EXCEPT ![i] = "free2"]
           /\ UNCHANGED <<first, second, user1, user2, hp1, hp2>>
  BY <1>1, <1>2, SetUserEffect
<1>3. CASE ~open[second[i]] /\ Delete(i) /\ UNCHANGED <<user, crashed>>
  BY <1>1, <1>3 DEF TypeOK
<1>. QED
  BY <1>2, <1>3 DEF WriteSecond

-----------------------------------------------------------------------------
(* One lemma for each part of the invariant.                               *)

\* ... of which the first is the type.
LEMMA TypePreserved ==
  ASSUME TypeOK, Threads, Tasks, [Next]_vars
  PROVE  TypeOK'
<1> USE DEF TypeOK, Threads, Tasks, InLogin, InFight, InRequest
<1>1. ASSUME NEW s \in Slot, Connect(s)
      PROVE  TypeOK'
  BY <1>1 DEF Connect
<1>2. ASSUME NEW s \in Slot, Leave(s)
      PROVE  TypeOK'
  <2>1. DuelUsers(s) \subseteq User
    BY DEF DuelUsers, PointAt
  <2>2. online' \in [User -> Slot \cup {None}]
    BY <1>2 DEF Leave
  <2>3. /\ open' \in [Slot -> BOOLEAN] /\ fighting' \in [Slot -> BOOLEAN]
        /\ user' \in [Slot -> Record \cup {None}] /\ client' \in [Slot -> User \cup {None}]
        /\ haunted' \in SUBSET Slot /\ unlucky' \in SUBSET User
    BY <1>2, <2>1 DEF Leave
  <2>4. UNCHANGED <<rooms, row, threads, duel, crashed, earned, late>>
    BY <1>2 DEF Leave
  <2>. QED
    BY <2>2, <2>3, <2>4
<1>3. ASSUME NEW s \in Slot, BeginMapFight(s)
      PROVE  TypeOK'
  BY <1>3 DEF BeginMapFight
<1>4. ASSUME NEW s \in Slot, CreateRoom(s)
      PROVE  TypeOK'
  BY <1>4 DEF CreateRoom
<1>5. ASSUME NEW s \in Slot, NEW u \in User, LoginRead(s, u)
      PROVE  TypeOK'
  BY <1>5 DEF LoginRead
<1>6. ASSUME NEW s \in Slot, NEW t \in Slot, Join(s, t)
      PROVE  TypeOK'
  BY <1>6 DEF Join
<1>7. ASSUME NEW s \in Slot, NEW t \in Slot, Refuse(s, t)
      PROVE  TypeOK'
  BY <1>7 DEF Refuse
<1>8. ASSUME NEW s \in Slot, NEW t \in Slot, Cancel(s, t)
      PROVE  TypeOK'
  BY <1>8 DEF Cancel
<1>9. ASSUME NEW s \in Slot, LoginCheck(s)
      PROVE  TypeOK'
  BY <1>9 DEF LoginCheck
<1>10. ASSUME NEW s \in Slot, LoginSet(s)
      PROVE  TypeOK'
  BY <1>10 DEF LoginSet
<1>11. ASSUME NEW s \in Slot, FindSession(s)
      PROVE  TypeOK'
  BY <1>11 DEF FindSession
<1>12. ASSUME NEW s \in Slot, WinMapFight(s)
      PROVE  TypeOK'
  BY <1>12 DEF WinMapFight, Save
<1>13. ASSUME NEW s \in Slot, LoseMapFight(s)
      PROVE  TypeOK'
  BY <1>13 DEF LoseMapFight
<1>14. ASSUME NEW s \in Slot, EndMapFight(s)
      PROVE  TypeOK'
  <2>1. fighter[s] \in Record /\ pc[s] = "saved"
    BY <1>14 DEF EndMapFight
  <2>2. crashed' \in BOOLEAN
    BY <1>14 DEF EndMapFight
  <2>3. user' \in [Slot -> Record \cup {None}]
    <3>1. CASE UNCHANGED user
      BY <3>1
    <3>2. CASE user' = [user EXCEPT ![found[s]] = fighter[s]]
      BY <2>1, <3>2
    <3>. QED
      BY <1>14, <3>1, <3>2 DEF EndMapFight
  <2>. QED
    BY <1>14, <2>2, <2>3 DEF EndMapFight
<1>15. ASSUME NEW s \in Slot, RemoveRoom(s)
      PROVE  TypeOK'
  <2>1. room[s] \in Slot /\ pc' \in [Slot -> PC] /\ rooms' \in SUBSET Slot
    BY <1>15 DEF RemoveRoom
  <2>2. Mistaken(s, room[s]) \in SUBSET User
    BY <2>1 DEF Mistaken
  <2>3. unlucky' \in SUBSET User
    BY <1>15, <2>2 DEF RemoveRoom
  <2>4. UNCHANGED <<open, user, fighting, online, row, loaded, room, fighter, found, duel,
                    crashed, client, earned, haunted, late>>
    BY <1>15 DEF RemoveRoom
  <2>. QED
    BY <2>1, <2>3, <2>4
<1>16. ASSUME NEW s \in Slot, NEW i \in FightId, StartFight(i, s)
      PROVE  TypeOK'
  <2> HIDE DEF TypeOK, Threads, Tasks, InLogin, InFight, InRequest
  <2>1. /\ Started(i, s, room[s])
        /\ pc' = [pc EXCEPT ![s] = "idle"] /\ room' = [room EXCEPT ![s] = None]
        /\ UNCHANGED <<sessions, row, loaded, fighter, found, crashed, history>>
    BY <1>16, StartEffect
  <2>2. pc' \in [Slot -> PC] /\ room' \in [Slot -> Slot \cup {None}] /\ stage' \in [FightId -> Stage]
    BY <2>1 DEF TypeOK, Started
  <2>. QED
    BY <2>1, <2>2 DEF TypeOK, Started
<1>17. ASSUME NEW s \in Slot, JoinFails(s)
      PROVE  TypeOK'
  BY <1>17 DEF JoinFails
<1>18. ASSUME NEW s \in Slot, RefuseDone(s)
      PROVE  TypeOK'
  <2>1. fighting' \in [Slot -> BOOLEAN]
    <3>1. CASE fighting' = [fighting EXCEPT ![room[s]] = FALSE]
      BY <3>1
    <3>2. CASE UNCHANGED fighting
      BY <3>2
    <3>. QED
      BY <1>18, <3>1, <3>2 DEF RefuseDone
  <2>2. pc' \in [Slot -> PC] /\ room' \in [Slot -> Slot \cup {None}]
    BY <1>18 DEF RefuseDone
  <2>. QED
    BY <1>18, <2>1, <2>2 DEF RefuseDone
<1>19. ASSUME NEW s \in Slot, CancelDone(s)
      PROVE  TypeOK'
  BY <1>19 DEF CancelDone
<1>20. ASSUME NEW s \in Slot, NullUser(s)
      PROVE  TypeOK'
  BY <1>20 DEF NullUser
<1>21. ASSUME NEW i \in FightId, BeginFight(i)
      PROVE  TypeOK'
  BY <1>21 DEF BeginFight
<1>22. ASSUME NEW i \in FightId, GiveUp(i)
      PROVE  TypeOK'
  BY <1>22 DEF GiveUp
<1>23. ASSUME NEW i \in FightId, Pay(i)
      PROVE  TypeOK'
  <2> HIDE DEF TypeOK, Threads, Tasks, InLogin, InFight, InRequest
  <2>1. PICK r \in Record, xp \in Nat : Save(r, xp)
    BY <1>23, PayEffect DEF Gains
  <2>2. row' \in [User -> Nat] /\ earned' \in [User -> Nat] /\ unlucky' \in SUBSET User
    BY <2>1, SaveEffect
  <2>5. stage' = [stage EXCEPT ![i] = "write1"]
    BY <1>23, PayEffect
  <2>3. /\ user1' \in [FightId -> Record \cup {None}]
        /\ user2' \in [FightId -> Record \cup {None}]
        /\ hp1' \in [FightId -> 0..HP] /\ hp2' \in [FightId -> 0..HP]
        /\ UNCHANGED <<sessions, threads, first, second, crashed, client, haunted, late>>
    BY <1>23, PayEffect
  <2>. QED
    BY <2>2, <2>3, <2>5 DEF TypeOK
<1>24. ASSUME NEW i \in FightId, WriteFirst(i)
      PROVE  TypeOK'
  <2> HIDE DEF TypeOK, Threads, Tasks, InLogin, InFight, InRequest
  <2>1. /\ user' \in [Slot -> Record \cup {None}] /\ crashed' \in BOOLEAN
        /\ UNCHANGED <<open, fighting, online, rooms, row, threads, first, second, user1,
                       user2, hp1, hp2, history>>
    BY <1>24, WriteFirstEffect
  <2>2. stage' \in [FightId -> Stage]
    BY <1>24 DEF WriteFirst, TypeOK
  <2>. QED
    BY <2>1, <2>2 DEF TypeOK
<1>25. ASSUME NEW i \in FightId, FreeFirst(i)
      PROVE  TypeOK'
  BY <1>25 DEF FreeFirst
<1>26. ASSUME NEW i \in FightId, WriteSecond(i)
      PROVE  TypeOK'
  <2> HIDE DEF TypeOK, Threads, Tasks, InLogin, InFight, InRequest
  <2>1. /\ user' \in [Slot -> Record \cup {None}] /\ crashed' \in BOOLEAN
        /\ UNCHANGED <<open, fighting, online, rooms, row, threads, history>>
    BY <1>26, WriteSecondEffect
  <2>2. /\ stage' \in [FightId -> Stage]
        /\ first' \in [FightId -> Slot \cup {None}] /\ second' \in [FightId -> Slot \cup {None}]
        /\ user1' \in [FightId -> Record \cup {None}] /\ user2' \in [FightId -> Record \cup {None}]
        /\ hp1' \in [FightId -> 0..HP] /\ hp2' \in [FightId -> 0..HP]
    <3>1. CASE Delete(i)
      BY <3>1, DeleteEffect
    <3>2. CASE stage' = [stage EXCEPT ![i] = "free2"]
               /\ UNCHANGED <<first, second, user1, user2, hp1, hp2>>
      BY <3>2 DEF TypeOK
    <3>. QED
      BY <1>26, <3>1, <3>2 DEF WriteSecond
  <2>. QED
    BY <2>1, <2>2 DEF TypeOK
<1>27. ASSUME NEW i \in FightId, FreeSecond(i)
      PROVE  TypeOK'
  <2>1. /\ stage' \in [FightId -> Stage]
        /\ first' \in [FightId -> Slot \cup {None}] /\ second' \in [FightId -> Slot \cup {None}]
        /\ user1' \in [FightId -> Record \cup {None}] /\ user2' \in [FightId -> Record \cup {None}]
        /\ hp1' \in [FightId -> 0..HP] /\ hp2' \in [FightId -> 0..HP]
    BY <1>27, DeleteEffect DEF FreeSecond
  <2>2. fighting' \in [Slot -> BOOLEAN]
    BY <1>27 DEF FreeSecond
  <2>3. UNCHANGED <<open, user, online, rooms, row, threads, crashed, history>>
    BY <1>27 DEF FreeSecond
  <2>. QED
    BY <2>1, <2>2, <2>3
<1>28. ASSUME NEW i \in FightId,
             NEW strikes \in BOOLEAN, NEW back \in BOOLEAN, Round(i, strikes, back)
      PROVE  TypeOK'
  <2>1. stage[i] = "rounds" /\ hp1[i] \in 1..HP /\ hp2[i] \in 1..HP
    BY <1>28 DEF Round
  <2>2. hp2' \in [FightId -> 0..HP]
    BY <1>28, <2>1 DEF Round
  <2>3. hp1' \in [FightId -> 0..HP]
    BY <1>28, <2>1 DEF Round
  <2>4. stage' \in [FightId -> Stage]
    BY <1>28 DEF Round
  <2>5. UNCHANGED <<sessions, row, threads, first, second, user1, user2, crashed, history>>
    BY <1>28 DEF Round
  <2>. QED
    BY <2>2, <2>3, <2>4, <2>5
<1>29. CASE UNCHANGED vars
  BY <1>29
<1> HIDE DEF TypeOK, Threads, Tasks, InLogin, InFight, InRequest
<1>30. ASSUME NEW s \in Slot, Client(s)
       PROVE  TypeOK'
  BY <1>1, <1>2, <1>3, <1>4, <1>5, <1>6, <1>7, <1>8, <1>30 DEF Client
<1>31. ASSUME NEW s \in Slot, Serve(s)
       PROVE  TypeOK'
  BY <1>9, <1>10, <1>11, <1>12, <1>13, <1>14, <1>15, <1>16, <1>17, <1>18, <1>19, <1>20,
     <1>31 DEF Serve
<1>32. ASSUME NEW i \in FightId, Run(i)
       PROVE  TypeOK'
  BY <1>21, <1>22, <1>23, <1>24, <1>25, <1>26, <1>27, <1>28, <1>32 DEF Run
<1>. QED
  BY <1>29, <1>30, <1>31, <1>32 DEF Next

\* Registry and sessions.
LEMMA LoginsPreserved ==
  ASSUME TypeOK, Threads, Tasks, Logins, [Next]_vars
  PROVE  Logins'
<1> USE DEF TypeOK, Threads, Tasks, Logins, InLogin, InFight, InRequest
<1>1. ASSUME NEW s \in Slot, Connect(s)
      PROVE  Logins'
  BY <1>1 DEF Connect
<1>2. ASSUME NEW s \in Slot, Leave(s)
      PROVE  Logins'
  BY <1>2 DEF Leave
<1>3. ASSUME NEW s \in Slot, BeginMapFight(s)
      PROVE  Logins'
  BY <1>3 DEF BeginMapFight
<1>4. ASSUME NEW s \in Slot, CreateRoom(s)
      PROVE  Logins'
  BY <1>4 DEF CreateRoom
<1>5. ASSUME NEW s \in Slot, NEW u \in User, LoginRead(s, u)
      PROVE  Logins'
  BY <1>5 DEF LoginRead
<1>6. ASSUME NEW s \in Slot, NEW t \in Slot, Join(s, t)
      PROVE  Logins'
  BY <1>6 DEF Join
<1>7. ASSUME NEW s \in Slot, NEW t \in Slot, Refuse(s, t)
      PROVE  Logins'
  BY <1>7 DEF Refuse
<1>8. ASSUME NEW s \in Slot, NEW t \in Slot, Cancel(s, t)
      PROVE  Logins'
  BY <1>8 DEF Cancel
<1>9. ASSUME NEW s \in Slot, LoginCheck(s)
      PROVE  Logins'
  BY <1>9 DEF LoginCheck
<1>10. ASSUME NEW s \in Slot, LoginSet(s)
      PROVE  Logins'
  BY <1>10 DEF LoginSet
<1>11. ASSUME NEW s \in Slot, FindSession(s)
      PROVE  Logins'
  BY <1>11 DEF FindSession
<1>12. ASSUME NEW s \in Slot, WinMapFight(s)
      PROVE  Logins'
  BY <1>12 DEF WinMapFight, Save
<1>13. ASSUME NEW s \in Slot, LoseMapFight(s)
      PROVE  Logins'
  BY <1>13 DEF LoseMapFight
<1>14. ASSUME NEW s \in Slot, EndMapFight(s)
      PROVE  Logins'
  BY <1>14 DEF EndMapFight
<1>15. ASSUME NEW s \in Slot, RemoveRoom(s)
      PROVE  Logins'
  BY <1>15 DEF RemoveRoom
<1>16. ASSUME NEW s \in Slot, NEW i \in FightId, StartFight(i, s)
      PROVE  Logins'
  BY <1>16 DEF StartFight
<1>17. ASSUME NEW s \in Slot, JoinFails(s)
      PROVE  Logins'
  BY <1>17 DEF JoinFails
<1>18. ASSUME NEW s \in Slot, RefuseDone(s)
      PROVE  Logins'
  <2>1. \A t \in Slot : fighting'[t] => fighting[t]
    BY <1>18 DEF RefuseDone
  <2>. QED
    BY <1>18, <2>1 DEF RefuseDone
<1>19. ASSUME NEW s \in Slot, CancelDone(s)
      PROVE  Logins'
  BY <1>19 DEF CancelDone
<1>20. ASSUME NEW s \in Slot, NullUser(s)
      PROVE  Logins'
  BY <1>20 DEF NullUser
<1>21. ASSUME NEW i \in FightId, BeginFight(i)
      PROVE  Logins'
  BY <1>21 DEF BeginFight
<1>22. ASSUME NEW i \in FightId, GiveUp(i)
      PROVE  Logins'
  BY <1>22 DEF GiveUp
<1>23. ASSUME NEW i \in FightId, Pay(i)
      PROVE  Logins'
  BY <1>23 DEF Pay, Save
<1>24. ASSUME NEW i \in FightId, WriteFirst(i)
      PROVE  Logins'
  <2>1. /\ \A t \in Slot : user'[t] = None <=> user[t] = None
        /\ UNCHANGED <<open, fighting, online, rooms, threads, history>>
    BY <1>24, WriteFirstEffect
  <2>. QED
    BY <2>1
<1>25. ASSUME NEW i \in FightId, FreeFirst(i)
      PROVE  Logins'
  BY <1>25 DEF FreeFirst
<1>26. ASSUME NEW i \in FightId, WriteSecond(i)
      PROVE  Logins'
  <2>1. /\ \A t \in Slot : user'[t] = None <=> user[t] = None
        /\ UNCHANGED <<open, fighting, online, rooms, threads, history>>
    BY <1>26, WriteSecondEffect
  <2>. QED
    BY <2>1
<1>27. ASSUME NEW i \in FightId, FreeSecond(i)
      PROVE  Logins'
  BY <1>27 DEF FreeSecond
<1>28. ASSUME NEW i \in FightId,
             NEW strikes \in BOOLEAN, NEW back \in BOOLEAN, Round(i, strikes, back)
      PROVE  Logins'
  BY <1>28 DEF Round
<1>29. CASE UNCHANGED vars
  BY <1>29
<1> HIDE DEF TypeOK, Threads, Tasks, Logins, InLogin, InFight, InRequest
<1>30. ASSUME NEW s \in Slot, Client(s)
       PROVE  Logins'
  BY <1>1, <1>2, <1>3, <1>4, <1>5, <1>6, <1>7, <1>8, <1>30 DEF Client
<1>31. ASSUME NEW s \in Slot, Serve(s)
       PROVE  Logins'
  BY <1>9, <1>10, <1>11, <1>12, <1>13, <1>14, <1>15, <1>16, <1>17, <1>18, <1>19, <1>20,
     <1>31 DEF Serve
<1>32. ASSUME NEW i \in FightId, Run(i)
       PROVE  Logins'
  BY <1>21, <1>22, <1>23, <1>24, <1>25, <1>26, <1>27, <1>28, <1>32 DEF Run
<1>. QED
  BY <1>29, <1>30, <1>31, <1>32 DEF Next

\* Where the handlers are.
LEMMA ThreadsPreserved ==
  ASSUME TypeOK, Threads, Tasks, Logins, [Next]_vars
  PROVE  Threads'
<1> USE DEF TypeOK, Threads, Tasks, Logins, InLogin, InFight, InRequest
<1>1. ASSUME NEW s \in Slot, Connect(s)
      PROVE  Threads'
  BY <1>1 DEF Connect
<1>2. ASSUME NEW s \in Slot, Leave(s)
      PROVE  Threads'
  BY <1>2 DEF Leave
<1>3. ASSUME NEW s \in Slot, BeginMapFight(s)
      PROVE  Threads'
  BY <1>3 DEF BeginMapFight
<1>4. ASSUME NEW s \in Slot, CreateRoom(s)
      PROVE  Threads'
  BY <1>4 DEF CreateRoom
<1>5. ASSUME NEW s \in Slot, NEW u \in User, LoginRead(s, u)
      PROVE  Threads'
  BY <1>5 DEF LoginRead
<1>6. ASSUME NEW s \in Slot, NEW t \in Slot, Join(s, t)
      PROVE  Threads'
  BY <1>6 DEF Join
<1>7. ASSUME NEW s \in Slot, NEW t \in Slot, Refuse(s, t)
      PROVE  Threads'
  BY <1>7 DEF Refuse
<1>8. ASSUME NEW s \in Slot, NEW t \in Slot, Cancel(s, t)
      PROVE  Threads'
  BY <1>8 DEF Cancel
<1>9. ASSUME NEW s \in Slot, LoginCheck(s)
      PROVE  Threads'
  <2>1. CASE /\ Goto(s, "read", "checked") /\ online[loaded[s].name] = None
             /\ UNCHANGED <<loaded, late>>
    BY <1>9, <2>1 DEF LoginCheck
  <2>2. CASE /\ Goto(s, "read", "idle") /\ online[loaded[s].name] # None
             /\ loaded' = [loaded EXCEPT ![s] = None]
    BY <1>9, <2>2 DEF LoginCheck
  <2>. QED
    BY <1>9, <2>1, <2>2 DEF LoginCheck
<1>10. ASSUME NEW s \in Slot, LoginSet(s)
      PROVE  Threads'
  BY <1>10 DEF LoginSet
<1>11. ASSUME NEW s \in Slot, FindSession(s)
      PROVE  Threads'
  BY <1>11 DEF FindSession
<1>12. ASSUME NEW s \in Slot, WinMapFight(s)
      PROVE  Threads'
  BY <1>12 DEF WinMapFight, Save
<1>13. ASSUME NEW s \in Slot, LoseMapFight(s)
      PROVE  Threads'
  BY <1>13 DEF LoseMapFight
<1>14. ASSUME NEW s \in Slot, EndMapFight(s)
      PROVE  Threads'
  BY <1>14 DEF EndMapFight
<1>15. ASSUME NEW s \in Slot, RemoveRoom(s)
      PROVE  Threads'
  <2>1. /\ pc[s] \in {"join", "refuse", "cancel"} /\ pc'[s] \in {"joined", "refused", "cancelled"}
        /\ \A t \in Slot \ {s} : pc'[t] = pc[t]
    BY <1>15 DEF RemoveRoom
  <2>2. UNCHANGED <<open, user, loaded, room, fighter, found>>
    BY <1>15 DEF RemoveRoom
  <2>3. \A t \in Slot :
          /\ InLogin(t)' <=> InLogin(t)
          /\ InFight(t)' <=> InFight(t)
          /\ InRequest(t)' <=> InRequest(t)
          /\ pc'[t] # "idle" => pc[t] # "idle"
          /\ pc[t] \in {"ended", "saved"} => pc'[t] \in {"ended", "saved"}
    BY <2>1
  <2>4. Threads
    OBVIOUS
  <2> HIDE DEF InLogin, InFight, InRequest, TypeOK, Tasks
  <2>. QED
    BY <2>2, <2>3, <2>4
<1>16. ASSUME NEW s \in Slot, NEW i \in FightId, StartFight(i, s)
      PROVE  Threads'
  BY <1>16 DEF StartFight
<1>17. ASSUME NEW s \in Slot, JoinFails(s)
      PROVE  Threads'
  BY <1>17 DEF JoinFails
<1>18. ASSUME NEW s \in Slot, RefuseDone(s)
      PROVE  Threads'
  BY <1>18 DEF RefuseDone
<1>19. ASSUME NEW s \in Slot, CancelDone(s)
      PROVE  Threads'
  BY <1>19 DEF CancelDone
<1>20. ASSUME NEW s \in Slot, NullUser(s)
      PROVE  Threads'
  BY <1>20 DEF NullUser
<1>21. ASSUME NEW i \in FightId, BeginFight(i)
      PROVE  Threads'
  BY <1>21 DEF BeginFight
<1>22. ASSUME NEW i \in FightId, GiveUp(i)
      PROVE  Threads'
  BY <1>22 DEF GiveUp
<1>23. ASSUME NEW i \in FightId, Pay(i)
      PROVE  Threads'
  BY <1>23 DEF Pay, Save
<1>24. ASSUME NEW i \in FightId, WriteFirst(i)
      PROVE  Threads'
  <2>1. /\ \A t \in Slot : user'[t] = None <=> user[t] = None
        /\ UNCHANGED <<open, fighting, online, rooms, threads, history>>
    BY <1>24, WriteFirstEffect
  <2>. QED
    BY <2>1
<1>25. ASSUME NEW i \in FightId, FreeFirst(i)
      PROVE  Threads'
  BY <1>25 DEF FreeFirst
<1>26. ASSUME NEW i \in FightId, WriteSecond(i)
      PROVE  Threads'
  <2>1. /\ \A t \in Slot : user'[t] = None <=> user[t] = None
        /\ UNCHANGED <<open, fighting, online, rooms, threads, history>>
    BY <1>26, WriteSecondEffect
  <2>. QED
    BY <2>1
<1>27. ASSUME NEW i \in FightId, FreeSecond(i)
      PROVE  Threads'
  BY <1>27 DEF FreeSecond
<1>28. ASSUME NEW i \in FightId,
             NEW strikes \in BOOLEAN, NEW back \in BOOLEAN, Round(i, strikes, back)
      PROVE  Threads'
  BY <1>28 DEF Round
<1>29. CASE UNCHANGED vars
  BY <1>29
<1> HIDE DEF TypeOK, Threads, Tasks, Logins, InLogin, InFight, InRequest
<1>30. ASSUME NEW s \in Slot, Client(s)
       PROVE  Threads'
  BY <1>1, <1>2, <1>3, <1>4, <1>5, <1>6, <1>7, <1>8, <1>30 DEF Client
<1>31. ASSUME NEW s \in Slot, Serve(s)
       PROVE  Threads'
  BY <1>9, <1>10, <1>11, <1>12, <1>13, <1>14, <1>15, <1>16, <1>17, <1>18, <1>19, <1>20,
     <1>31 DEF Serve
<1>32. ASSUME NEW i \in FightId, Run(i)
       PROVE  Threads'
  BY <1>21, <1>22, <1>23, <1>24, <1>25, <1>26, <1>27, <1>28, <1>32 DEF Run
<1>. QED
  BY <1>29, <1>30, <1>31, <1>32 DEF Next

\* Where the tasks are.
LEMMA TasksPreserved ==
  ASSUME TypeOK, Threads, Tasks, [Next]_vars
  PROVE  Tasks'
<1> USE DEF TypeOK, Threads, Tasks, InLogin, InFight, InRequest
<1>1. ASSUME NEW s \in Slot, Connect(s)
      PROVE  Tasks'
  BY <1>1 DEF Connect
<1>2. ASSUME NEW s \in Slot, Leave(s)
      PROVE  Tasks'
  BY <1>2 DEF Leave
<1>3. ASSUME NEW s \in Slot, BeginMapFight(s)
      PROVE  Tasks'
  BY <1>3 DEF BeginMapFight
<1>4. ASSUME NEW s \in Slot, CreateRoom(s)
      PROVE  Tasks'
  BY <1>4 DEF CreateRoom
<1>5. ASSUME NEW s \in Slot, NEW u \in User, LoginRead(s, u)
      PROVE  Tasks'
  BY <1>5 DEF LoginRead
<1>6. ASSUME NEW s \in Slot, NEW t \in Slot, Join(s, t)
      PROVE  Tasks'
  BY <1>6 DEF Join
<1>7. ASSUME NEW s \in Slot, NEW t \in Slot, Refuse(s, t)
      PROVE  Tasks'
  BY <1>7 DEF Refuse
<1>8. ASSUME NEW s \in Slot, NEW t \in Slot, Cancel(s, t)
      PROVE  Tasks'
  BY <1>8 DEF Cancel
<1>9. ASSUME NEW s \in Slot, LoginCheck(s)
      PROVE  Tasks'
  BY <1>9 DEF LoginCheck
<1>10. ASSUME NEW s \in Slot, LoginSet(s)
      PROVE  Tasks'
  BY <1>10 DEF LoginSet
<1>11. ASSUME NEW s \in Slot, FindSession(s)
      PROVE  Tasks'
  BY <1>11 DEF FindSession
<1>12. ASSUME NEW s \in Slot, WinMapFight(s)
      PROVE  Tasks'
  BY <1>12 DEF WinMapFight, Save
<1>13. ASSUME NEW s \in Slot, LoseMapFight(s)
      PROVE  Tasks'
  BY <1>13 DEF LoseMapFight
<1>14. ASSUME NEW s \in Slot, EndMapFight(s)
      PROVE  Tasks'
  BY <1>14 DEF EndMapFight
<1>15. ASSUME NEW s \in Slot, RemoveRoom(s)
      PROVE  Tasks'
  BY <1>15 DEF RemoveRoom
<1>16. ASSUME NEW s \in Slot, NEW i \in FightId, StartFight(i, s)
      PROVE  Tasks'
  BY <1>16 DEF StartFight
<1>17. ASSUME NEW s \in Slot, JoinFails(s)
      PROVE  Tasks'
  BY <1>17 DEF JoinFails
<1>18. ASSUME NEW s \in Slot, RefuseDone(s)
      PROVE  Tasks'
  BY <1>18 DEF RefuseDone
<1>19. ASSUME NEW s \in Slot, CancelDone(s)
      PROVE  Tasks'
  BY <1>19 DEF CancelDone
<1>20. ASSUME NEW s \in Slot, NullUser(s)
      PROVE  Tasks'
  BY <1>20 DEF NullUser
<1>21. ASSUME NEW i \in FightId, BeginFight(i)
      PROVE  Tasks'
  BY <1>21 DEF BeginFight
<1>22. ASSUME NEW i \in FightId, GiveUp(i)
      PROVE  Tasks'
  BY <1>22 DEF GiveUp
<1>23. ASSUME NEW i \in FightId, Pay(i)
      PROVE  Tasks'
  <2>1. user1'[i] \in Record /\ user2'[i] \in Record
    BY <1>23, PayEffect DEF Gains
  <2>. QED
    BY <1>23, <2>1, PayEffect
<1>24. ASSUME NEW i \in FightId, WriteFirst(i)
      PROVE  Tasks'
  BY <1>24 DEF WriteFirst
<1>25. ASSUME NEW i \in FightId, FreeFirst(i)
      PROVE  Tasks'
  BY <1>25 DEF FreeFirst
<1>26. ASSUME NEW i \in FightId, WriteSecond(i)
      PROVE  Tasks'
  <2>1. CASE Delete(i)
    <3>1. /\ stage'[i] = "unused" /\ user1'[i] = None /\ user2'[i] = None
          /\ \A j \in FightId \ {i} : UNCHANGED <<stage[j], first[j], second[j], user1[j],
                                                   user2[j], hp1[j], hp2[j]>>
      BY <2>1 DEF Delete
    <3>. QED
      BY <3>1
  <2>2. CASE ~Delete(i)
    BY <1>26, <2>2, WriteSecondEffect
  <2>. QED
    BY <2>1, <2>2
<1>27. ASSUME NEW i \in FightId, FreeSecond(i)
      PROVE  Tasks'
  <2>1. /\ stage'[i] = "unused" /\ user1'[i] = None /\ user2'[i] = None
        /\ \A j \in FightId \ {i} : UNCHANGED <<stage[j], first[j], second[j], user1[j],
                                                 user2[j], hp1[j], hp2[j]>>
    BY <1>27 DEF FreeSecond, Delete
  <2>. QED
    BY <2>1
<1>28. ASSUME NEW i \in FightId,
             NEW strikes \in BOOLEAN, NEW back \in BOOLEAN, Round(i, strikes, back)
      PROVE  Tasks'
  BY <1>28 DEF Round
<1>29. CASE UNCHANGED vars
  BY <1>29
<1> HIDE DEF TypeOK, Threads, Tasks, InLogin, InFight, InRequest
<1>30. ASSUME NEW s \in Slot, Client(s)
       PROVE  Tasks'
  BY <1>1, <1>2, <1>3, <1>4, <1>5, <1>6, <1>7, <1>8, <1>30 DEF Client
<1>31. ASSUME NEW s \in Slot, Serve(s)
       PROVE  Tasks'
  BY <1>9, <1>10, <1>11, <1>12, <1>13, <1>14, <1>15, <1>16, <1>17, <1>18, <1>19, <1>20,
     <1>31 DEF Serve
<1>32. ASSUME NEW i \in FightId, Run(i)
       PROVE  Tasks'
  BY <1>21, <1>22, <1>23, <1>24, <1>25, <1>26, <1>27, <1>28, <1>32 DEF Run
<1>. QED
  BY <1>29, <1>30, <1>31, <1>32 DEF Next

\* The sessions that rooms point to.
LEMMA RoomsPreserved ==
  ASSUME TypeOK, Threads, Tasks, Logins, Rooms, [Next]_vars
  PROVE  Rooms'
<1> USE DEF TypeOK, Threads, Tasks, Logins, Rooms, Sought, Gone, InLogin, InFight, InRequest
<1>1. ASSUME NEW s \in Slot, Connect(s)
      PROVE  Rooms'
  BY <1>1 DEF Connect, Pointed
<1>2. ASSUME NEW s \in Slot, Leave(s)
      PROVE  Rooms'
  BY <1>2 DEF Leave
<1>3. ASSUME NEW s \in Slot, BeginMapFight(s)
      PROVE  Rooms'
  BY <1>3 DEF BeginMapFight
<1>4. ASSUME NEW s \in Slot, CreateRoom(s)
      PROVE  Rooms'
  BY <1>4 DEF CreateRoom
<1>5. ASSUME NEW s \in Slot, NEW u \in User, LoginRead(s, u)
      PROVE  Rooms'
  BY <1>5 DEF LoginRead
<1>6. ASSUME NEW s \in Slot, NEW t \in Slot, Join(s, t)
      PROVE  Rooms'
  BY <1>6 DEF Join
<1>7. ASSUME NEW s \in Slot, NEW t \in Slot, Refuse(s, t)
      PROVE  Rooms'
  BY <1>7 DEF Refuse
<1>8. ASSUME NEW s \in Slot, NEW t \in Slot, Cancel(s, t)
      PROVE  Rooms'
  BY <1>8 DEF Cancel
<1>9. ASSUME NEW s \in Slot, LoginCheck(s)
      PROVE  Rooms'
  BY <1>9 DEF LoginCheck
<1>10. ASSUME NEW s \in Slot, LoginSet(s)
      PROVE  Rooms'
  BY <1>10 DEF LoginSet
<1>11. ASSUME NEW s \in Slot, FindSession(s)
      PROVE  Rooms'
  BY <1>11 DEF FindSession
<1>12. ASSUME NEW s \in Slot, WinMapFight(s)
      PROVE  Rooms'
  BY <1>12 DEF WinMapFight, Save
<1>13. ASSUME NEW s \in Slot, LoseMapFight(s)
      PROVE  Rooms'
  BY <1>13 DEF LoseMapFight
<1>14. ASSUME NEW s \in Slot, EndMapFight(s)
      PROVE  Rooms'
  BY <1>14 DEF EndMapFight
<1>15. ASSUME NEW s \in Slot, RemoveRoom(s)
      PROVE  Rooms'
  BY <1>15 DEF RemoveRoom
<1>16. ASSUME NEW s \in Slot, NEW i \in FightId, StartFight(i, s)
      PROVE  Rooms'
  BY <1>16 DEF StartFight
<1>17. ASSUME NEW s \in Slot, JoinFails(s)
      PROVE  Rooms'
  BY <1>17 DEF JoinFails
<1>18. ASSUME NEW s \in Slot, RefuseDone(s)
      PROVE  Rooms'
  BY <1>18 DEF RefuseDone
<1>19. ASSUME NEW s \in Slot, CancelDone(s)
      PROVE  Rooms'
  BY <1>19 DEF CancelDone
<1>20. ASSUME NEW s \in Slot, NullUser(s)
      PROVE  Rooms'
  BY <1>20 DEF NullUser
<1>21. ASSUME NEW i \in FightId, BeginFight(i)
      PROVE  Rooms'
  BY <1>21 DEF BeginFight
<1>22. ASSUME NEW i \in FightId, GiveUp(i)
      PROVE  Rooms'
  BY <1>22 DEF GiveUp
<1>23. ASSUME NEW i \in FightId, Pay(i)
      PROVE  Rooms'
  BY <1>23 DEF Pay, Save
<1>24. ASSUME NEW i \in FightId, WriteFirst(i)
      PROVE  Rooms'
  <2>1. /\ \A t \in Slot : user'[t] = None <=> user[t] = None
        /\ UNCHANGED <<open, fighting, online, rooms, threads, history>>
    BY <1>24, WriteFirstEffect
  <2>. QED
    BY <2>1
<1>25. ASSUME NEW i \in FightId, FreeFirst(i)
      PROVE  Rooms'
  BY <1>25 DEF FreeFirst
<1>26. ASSUME NEW i \in FightId, WriteSecond(i)
      PROVE  Rooms'
  <2>1. /\ \A t \in Slot : user'[t] = None <=> user[t] = None
        /\ UNCHANGED <<open, fighting, online, rooms, threads, history>>
    BY <1>26, WriteSecondEffect
  <2>. QED
    BY <2>1
<1>27. ASSUME NEW i \in FightId, FreeSecond(i)
      PROVE  Rooms'
  BY <1>27 DEF FreeSecond
<1>28. ASSUME NEW i \in FightId,
             NEW strikes \in BOOLEAN, NEW back \in BOOLEAN, Round(i, strikes, back)
      PROVE  Rooms'
  BY <1>28 DEF Round
<1>29. CASE UNCHANGED vars
  BY <1>29
<1> HIDE DEF TypeOK, Threads, Tasks, Logins, Rooms, Sought, Gone, InLogin, InFight, InRequest
<1>30. ASSUME NEW s \in Slot, Client(s)
       PROVE  Rooms'
  BY <1>1, <1>2, <1>3, <1>4, <1>5, <1>6, <1>7, <1>8, <1>30 DEF Client
<1>31. ASSUME NEW s \in Slot, Serve(s)
       PROVE  Rooms'
  BY <1>9, <1>10, <1>11, <1>12, <1>13, <1>14, <1>15, <1>16, <1>17, <1>18, <1>19, <1>20,
     <1>31 DEF Serve
<1>32. ASSUME NEW i \in FightId, Run(i)
       PROVE  Rooms'
  BY <1>21, <1>22, <1>23, <1>24, <1>25, <1>26, <1>27, <1>28, <1>32 DEF Run
<1>. QED
  BY <1>29, <1>30, <1>31, <1>32 DEF Next

\* No copy has points that were not won.
LEMMA CopiesPreserved ==
  ASSUME TypeOK, Threads, Tasks, Copies, [Next]_vars
  PROVE  Copies'
<1> USE DEF TypeOK, Threads, Tasks, Copies, Fair, InLogin, InFight, InRequest
<1>1. ASSUME NEW s \in Slot, Connect(s)
      PROVE  Copies'
  BY <1>1 DEF Connect
<1>2. ASSUME NEW s \in Slot, Leave(s)
      PROVE  Copies'
  BY <1>2 DEF Leave
<1>3. ASSUME NEW s \in Slot, BeginMapFight(s)
      PROVE  Copies'
  BY <1>3 DEF BeginMapFight
<1>4. ASSUME NEW s \in Slot, CreateRoom(s)
      PROVE  Copies'
  BY <1>4 DEF CreateRoom
<1>5. ASSUME NEW s \in Slot, NEW u \in User, LoginRead(s, u)
      PROVE  Copies'
  BY <1>5 DEF LoginRead
<1>6. ASSUME NEW s \in Slot, NEW t \in Slot, Join(s, t)
      PROVE  Copies'
  BY <1>6 DEF Join
<1>7. ASSUME NEW s \in Slot, NEW t \in Slot, Refuse(s, t)
      PROVE  Copies'
  BY <1>7 DEF Refuse
<1>8. ASSUME NEW s \in Slot, NEW t \in Slot, Cancel(s, t)
      PROVE  Copies'
  BY <1>8 DEF Cancel
<1>9. ASSUME NEW s \in Slot, LoginCheck(s)
      PROVE  Copies'
  BY <1>9 DEF LoginCheck
<1>10. ASSUME NEW s \in Slot, LoginSet(s)
      PROVE  Copies'
  BY <1>10 DEF LoginSet
<1>11. ASSUME NEW s \in Slot, FindSession(s)
      PROVE  Copies'
  BY <1>11 DEF FindSession
<1>12. ASSUME NEW s \in Slot, WinMapFight(s)
      PROVE  Copies'
  BY <1>12 DEF WinMapFight, Save
<1>13. ASSUME NEW s \in Slot, LoseMapFight(s)
      PROVE  Copies'
  BY <1>13 DEF LoseMapFight
<1>14. ASSUME NEW s \in Slot, EndMapFight(s)
      PROVE  Copies'
  BY <1>14 DEF EndMapFight
<1>15. ASSUME NEW s \in Slot, RemoveRoom(s)
      PROVE  Copies'
  BY <1>15 DEF RemoveRoom
<1>16. ASSUME NEW s \in Slot, NEW i \in FightId, StartFight(i, s)
      PROVE  Copies'
  BY <1>16 DEF StartFight
<1>17. ASSUME NEW s \in Slot, JoinFails(s)
      PROVE  Copies'
  BY <1>17 DEF JoinFails
<1>18. ASSUME NEW s \in Slot, RefuseDone(s)
      PROVE  Copies'
  BY <1>18 DEF RefuseDone
<1>19. ASSUME NEW s \in Slot, CancelDone(s)
      PROVE  Copies'
  BY <1>19 DEF CancelDone
<1>20. ASSUME NEW s \in Slot, NullUser(s)
      PROVE  Copies'
  BY <1>20 DEF NullUser
<1>21. ASSUME NEW i \in FightId, BeginFight(i)
      PROVE  Copies'
  BY <1>21 DEF BeginFight
<1>22. ASSUME NEW i \in FightId, GiveUp(i)
      PROVE  Copies'
  BY <1>22 DEF GiveUp
<1>23. ASSUME NEW i \in FightId, Pay(i)
      PROVE  Copies'
  <2>1. PICK xp \in Nat :
          \/ Gains(user1[i], user1'[i], xp) /\ user2'[i] = user2[i] /\ Save(user1'[i], xp)
          \/ Gains(user2[i], user2'[i], xp) /\ user1'[i] = user1[i] /\ Save(user2'[i], xp)
    BY <1>23, PayEffect
  <2>2. PICK r, q \in Record :
          /\ q.name = r.name /\ q.points = r.points + xp /\ r.points <= earned[r.name]
          /\ Save(q, xp)
          /\ {user1'[i], user2'[i]} \subseteq {user1[i], user2[i], q}
    BY <1>23, <2>1 DEF Gains, Pay
  <2>3. \A u \in User : earned'[u] \in Nat /\ earned[u] \in Nat /\ earned[u] <= earned'[u]
    BY <2>2, SaveEffect
  <2>4. \A u \in User : row'[u] <= earned'[u]
    BY <2>2, <2>3, SaveEffect
  <2>5. \A x \in Record \cup {None} : Fair(x) => Fair(x)'
    BY <2>3
  <2>6. Fair(q)'
    BY <2>2, SaveEffect
  <2>7. UNCHANGED <<user, fighter, loaded>>
        /\ \A j \in FightId \ {i} : user1'[j] = user1[j] /\ user2'[j] = user2[j]
    BY <1>23, PayEffect
  <2> HIDE DEF Fair
  <2>. QED
    BY <2>2, <2>4, <2>5, <2>6, <2>7
<1>24. ASSUME NEW i \in FightId, WriteFirst(i)
      PROVE  Copies'
  <2>1. UNCHANGED <<row, threads, earned, user1, user2>>
    BY <1>24 DEF WriteFirst
  <2>2. \A s \in Slot : user'[s] \in {user[s], user1[i], None}
    BY <1>24, WriteFirstEffect
  <2>3. \A r : Fair(r) => Fair(r)'
    BY <2>1
  <2>4. Fair(None)'
    OBVIOUS
  <2> HIDE DEF Fair
  <2>. QED
    BY <2>1, <2>2, <2>3, <2>4
<1>25. ASSUME NEW i \in FightId, FreeFirst(i)
      PROVE  Copies'
  BY <1>25 DEF FreeFirst
<1>26. ASSUME NEW i \in FightId, WriteSecond(i)
      PROVE  Copies'
  <2>1. UNCHANGED <<row, threads, earned>>
    BY <1>26 DEF WriteSecond
  <2>2. \A s \in Slot : user'[s] \in {user[s], user2[i], None}
    BY <1>26, WriteSecondEffect
  <2>3. \A j \in FightId : user1'[j] \in {user1[j], None} /\ user2'[j] \in {user2[j], None}
    BY <1>26, WriteSecondEffect, DeleteEffect
  <2>4. \A r : Fair(r) => Fair(r)'
    BY <2>1
  <2>5. Fair(None)'
    OBVIOUS
  <2> HIDE DEF Fair
  <2>. QED
    BY <2>1, <2>2, <2>3, <2>4, <2>5
<1>27. ASSUME NEW i \in FightId, FreeSecond(i)
      PROVE  Copies'
  <2>1. UNCHANGED <<row, user, threads, earned>>
    BY <1>27 DEF FreeSecond
  <2>2. \A j \in FightId : user1'[j] \in {user1[j], None} /\ user2'[j] \in {user2[j], None}
    BY <1>27, DeleteEffect DEF FreeSecond
  <2>3. \A r : Fair(r) => Fair(r)'
    BY <2>1
  <2>4. Fair(None)'
    OBVIOUS
  <2> HIDE DEF Fair
  <2>. QED
    BY <2>1, <2>2, <2>3, <2>4
<1>28. ASSUME NEW i \in FightId,
             NEW strikes \in BOOLEAN, NEW back \in BOOLEAN, Round(i, strikes, back)
      PROVE  Copies'
  BY <1>28 DEF Round
<1>29. CASE UNCHANGED vars
  BY <1>29
<1> HIDE DEF TypeOK, Threads, Tasks, Copies, Fair, InLogin, InFight, InRequest
<1>30. ASSUME NEW s \in Slot, Client(s)
       PROVE  Copies'
  BY <1>1, <1>2, <1>3, <1>4, <1>5, <1>6, <1>7, <1>8, <1>30 DEF Client
<1>31. ASSUME NEW s \in Slot, Serve(s)
       PROVE  Copies'
  BY <1>9, <1>10, <1>11, <1>12, <1>13, <1>14, <1>15, <1>16, <1>17, <1>18, <1>19, <1>20,
     <1>31 DEF Serve
<1>32. ASSUME NEW i \in FightId, Run(i)
       PROVE  Copies'
  BY <1>21, <1>22, <1>23, <1>24, <1>25, <1>26, <1>27, <1>28, <1>32 DEF Run
<1>. QED
  BY <1>29, <1>30, <1>31, <1>32 DEF Next

\* Whose user is where.
LEMMA HomesPreserved ==
  ASSUME TypeOK, Threads, Tasks, Logins, Homes, [Next]_vars
  PROVE  Homes'
<1> USE DEF TypeOK, Threads, Tasks, Logins, Homes, Home, Away, Gone, FirstPending, SecondPending, InLogin, InFight, InRequest
<1>1. ASSUME NEW s \in Slot, Connect(s)
      PROVE  Homes'
  BY <1>1 DEF Connect, Pointed, PointAt
<1>2. ASSUME NEW s \in Slot, Leave(s)
      PROVE  Homes'
  BY <1>2 DEF Leave, DuelUsers, PointAt
<1>3. ASSUME NEW s \in Slot, BeginMapFight(s)
      PROVE  Homes'
  BY <1>3 DEF BeginMapFight
<1>4. ASSUME NEW s \in Slot, CreateRoom(s)
      PROVE  Homes'
  BY <1>4 DEF CreateRoom
<1>5. ASSUME NEW s \in Slot, NEW u \in User, LoginRead(s, u)
      PROVE  Homes'
  BY <1>5 DEF LoginRead
<1>6. ASSUME NEW s \in Slot, NEW t \in Slot, Join(s, t)
      PROVE  Homes'
  BY <1>6 DEF Join
<1>7. ASSUME NEW s \in Slot, NEW t \in Slot, Refuse(s, t)
      PROVE  Homes'
  BY <1>7 DEF Refuse
<1>8. ASSUME NEW s \in Slot, NEW t \in Slot, Cancel(s, t)
      PROVE  Homes'
  BY <1>8 DEF Cancel
<1>9. ASSUME NEW s \in Slot, LoginCheck(s)
      PROVE  Homes'
  BY <1>9 DEF LoginCheck
<1>10. ASSUME NEW s \in Slot, LoginSet(s)
      PROVE  Homes'
  BY <1>10 DEF LoginSet
<1>11. ASSUME NEW s \in Slot, FindSession(s)
      PROVE  Homes'
  BY <1>11 DEF FindSession
<1>12. ASSUME NEW s \in Slot, WinMapFight(s)
      PROVE  Homes'
  BY <1>12 DEF WinMapFight, Save
<1>13. ASSUME NEW s \in Slot, LoseMapFight(s)
      PROVE  Homes'
  BY <1>13 DEF LoseMapFight
<1>14. ASSUME NEW s \in Slot, EndMapFight(s)
      PROVE  Homes'
  BY <1>14 DEF EndMapFight
<1>15. ASSUME NEW s \in Slot, RemoveRoom(s)
      PROVE  Homes'
  BY <1>15 DEF RemoveRoom
<1>16. ASSUME NEW s \in Slot, NEW i \in FightId, StartFight(i, s)
      PROVE  Homes'
  <2>1. /\ UNCHANGED <<open, user, fighter, found, client, haunted, unlucky>>
        /\ pc' = [pc EXCEPT ![s] = "idle"] /\ pc[s] = "joined"
        /\ room[s] \in Slot /\ user[s] \in Record /\ user[room[s]] \in Record
    BY <1>16, StartEffect
  <2>2. Started(i, s, room[s])
    BY <1>16, StartEffect
  <2>3. Away(s, user[s]) /\ Away(room[s], user[room[s]])
    BY <2>1
  <2>4. \A j \in FightId \ {i} : UNCHANGED <<stage[j], first[j], second[j], user1[j], user2[j]>>
    BY <2>2 DEF Started
  <2>5. Away(first[i], user1[i])' /\ Away(second[i], user2[i])'
    BY <2>1, <2>2, <2>3 DEF Started
  <2>6. \A x \in Slot :
          /\ user[x] # None => Home(x, user[x])'
          /\ fighter[x] # None => Home(x, fighter[x])'
    BY <2>1
  <2>7. \A x \in Slot : pc'[x] \in {"ended", "saved"} =>
          IF found'[x] = None THEN fighter'[x].name \in unlucky' ELSE Away(found[x], fighter[x])'
    BY <2>1
  <2>8. \A j \in FightId \ {i} :
          /\ FirstPending(j)' => Away(first[j], user1[j])'
          /\ SecondPending(j)' => Away(second[j], user2[j])'
    BY <2>1, <2>4
  <2> HIDE DEF Home, Away, FirstPending, SecondPending, TypeOK, Threads, Tasks, Logins
  <2>. QED
    BY <2>1, <2>5, <2>6, <2>7, <2>8
<1>17. ASSUME NEW s \in Slot, JoinFails(s)
      PROVE  Homes'
  BY <1>17 DEF JoinFails
<1>18. ASSUME NEW s \in Slot, RefuseDone(s)
      PROVE  Homes'
  BY <1>18 DEF RefuseDone
<1>19. ASSUME NEW s \in Slot, CancelDone(s)
      PROVE  Homes'
  BY <1>19 DEF CancelDone
<1>20. ASSUME NEW s \in Slot, NullUser(s)
      PROVE  Homes'
  BY <1>20 DEF NullUser
<1>21. ASSUME NEW i \in FightId, BeginFight(i)
      PROVE  Homes'
  BY <1>21 DEF BeginFight
<1>22. ASSUME NEW i \in FightId, GiveUp(i)
      PROVE  Homes'
  BY <1>22 DEF GiveUp
<1>23. ASSUME NEW i \in FightId, Pay(i)
      PROVE  Homes'
  BY <1>23 DEF Pay, Save
<1>24. ASSUME NEW i \in FightId, WriteFirst(i)
      PROVE  Homes'
  <2>1. UNCHANGED <<open, client, haunted, unlucky, threads, first, second, user1, user2>>
    BY <1>24 DEF WriteFirst
  <2>2. Away(first[i], user1[i]) /\ first[i] \in Slot /\ user1[i] \in Record
    BY <1>24, WriteFirstEffect
  <2>3. \A s \in Slot : user'[s] # None => Home(s, user[s])'
    <3>1. user'[first[i]] # None => Home(first[i], user'[first[i]])
      BY <1>24, <2>2, WriteFirstEffect
    <3>2. \A s \in Slot \ {first[i]} : user'[s] = user[s]
      BY <1>24, WriteFirstEffect
    <3>. QED
      BY <2>1, <3>1, <3>2
  <2>4. \A j \in FightId :
          /\ FirstPending(j)' => FirstPending(j)
          /\ SecondPending(j)' => SecondPending(j)
    BY <1>24 DEF WriteFirst
  <2>. QED
    BY <2>1, <2>3, <2>4
<1>25. ASSUME NEW i \in FightId, FreeFirst(i)
      PROVE  Homes'
  BY <1>25 DEF FreeFirst
<1>26. ASSUME NEW i \in FightId, WriteSecond(i)
      PROVE  Homes'
  <2>1. UNCHANGED <<open, client, haunted, unlucky, threads>>
    BY <1>26 DEF WriteSecond
  <2>2. Away(second[i], user2[i]) /\ second[i] \in Slot /\ user2[i] \in Record
    BY <1>26, WriteSecondEffect
  <2>3. \A s \in Slot : user'[s] # None => Home(s, user[s])'
    <3>1. user'[second[i]] # None => Home(second[i], user'[second[i]])
      BY <1>26, <2>2, WriteSecondEffect
    <3>2. \A s \in Slot \ {second[i]} : user'[s] = user[s]
      BY <1>26, WriteSecondEffect
    <3>. QED
      BY <2>1, <3>1, <3>2
  <2>4. ~FirstPending(i)'
    BY <1>26 DEF WriteSecond, Delete
  <2>5. SecondPending(i)' => UNCHANGED <<second[i], user2[i]>>
    BY <1>26 DEF WriteSecond, Delete
  <2>6. \A j \in FightId \ {i} : UNCHANGED <<stage[j], first[j], second[j], user1[j], user2[j]>>
    BY <1>26 DEF WriteSecond, Delete
  <2>. QED
    <3>1. SecondPending(i)' => Away(second[i], user2[i])'
      BY <1>26, <2>1, <2>2, <2>5
    <3>2. \A j \in FightId :
            /\ FirstPending(j)' => Away(first[j], user1[j])'
            /\ SecondPending(j)' => Away(second[j], user2[j])'
      BY <2>1, <2>4, <2>6, <3>1
    <3>. QED
      BY <2>1, <2>3, <3>2
<1>27. ASSUME NEW i \in FightId, FreeSecond(i)
      PROVE  Homes'
  <2>1. UNCHANGED <<open, user, client, haunted, unlucky, threads>>
    BY <1>27 DEF FreeSecond
  <2>2. ~FirstPending(i)' /\ ~SecondPending(i)'
    BY <1>27 DEF FreeSecond, Delete
  <2>3. \A j \in FightId \ {i} : UNCHANGED <<stage[j], first[j], second[j], user1[j], user2[j]>>
    BY <1>27 DEF FreeSecond, Delete
  <2>. QED
    BY <2>1, <2>2, <2>3
<1>28. ASSUME NEW i \in FightId,
             NEW strikes \in BOOLEAN, NEW back \in BOOLEAN, Round(i, strikes, back)
      PROVE  Homes'
  BY <1>28 DEF Round
<1>29. CASE UNCHANGED vars
  BY <1>29
<1> HIDE DEF TypeOK, Threads, Tasks, Logins, Homes, Home, Away, Gone, FirstPending, SecondPending, InLogin, InFight, InRequest
<1>30. ASSUME NEW s \in Slot, Client(s)
       PROVE  Homes'
  BY <1>1, <1>2, <1>3, <1>4, <1>5, <1>6, <1>7, <1>8, <1>30 DEF Client
<1>31. ASSUME NEW s \in Slot, Serve(s)
       PROVE  Homes'
  BY <1>9, <1>10, <1>11, <1>12, <1>13, <1>14, <1>15, <1>16, <1>17, <1>18, <1>19, <1>20,
     <1>31 DEF Serve
<1>32. ASSUME NEW i \in FightId, Run(i)
       PROVE  Homes'
  BY <1>21, <1>22, <1>23, <1>24, <1>25, <1>26, <1>27, <1>28, <1>32 DEF Run
<1>. QED
  BY <1>29, <1>30, <1>31, <1>32 DEF Next

\* Requests, duels and handlers that hold nothing new keep what a session has.
LEMMA NoNewHolder ==
  ASSUME Exclusion, Tasks,
         \A x \in Slot : Safe(x)' => Safe(x),
         rooms' \subseteq rooms,
         \A x \in Slot : Takers(x)' \subseteq Takers(x),
         \A x \in Slot : PointAt(x)' \subseteq PointAt(x),
         \A x \in Slot : Own(x)' => Own(x),
         \A x \in Slot : Safe(x) /\ fighting[x] => fighting'[x] \/ ~Busy(x)',
         \A i \in FightId : stage'[i] # "unused" =>
           stage[i] # "unused" /\ first'[i] = first[i] /\ second'[i] = second[i]
  PROVE  Exclusion'
<1>1. ASSUME NEW x \in Slot, Safe(x)'
      PROVE  OneHolder(x)' /\ (Busy(x)' => fighting'[x])
  <2>1. OneHolder(x) /\ (Busy(x) => fighting[x])
    BY <1>1 DEF Exclusion
  <2>2. Busy(x)' => Busy(x)
    BY DEF Busy
  <2>3. OneHolder(x)'
    BY <2>1 DEF OneHolder
  <2>. QED
    BY <1>1, <2>1, <2>2, <2>3
<1>2. ASSUME NEW i \in FightId, stage'[i] # "unused", first'[i] = second'[i]
      PROVE  ~Safe(first[i])'
  <2>1. first[i] \in Slot /\ first'[i] = first[i] /\ ~Safe(first[i])
    BY <1>2 DEF Exclusion, Tasks
  <2>. QED
    BY <2>1
<1>. QED
  BY <1>1, <1>2 DEF Exclusion

\* Only bad luck and time make a session less safe.
LEMMA SafeStays ==
  ASSUME UNCHANGED <<open, haunted, client>>, unlucky \subseteq unlucky'
  PROVE  \A x \in Slot : Safe(x)' => Safe(x)
BY DEF Safe, Gone

\* One holder at a time, for a session whose user is not unlucky.
LEMMA ExclusionPreserved ==
  ASSUME TypeOK, Threads, Tasks, Logins, Homes, Rooms, Exclusion, [Next]_vars
  PROVE  Exclusion'
<1> USE DEF TypeOK, Threads, Tasks, Logins, InLogin, InFight, InRequest
<1>1. ASSUME NEW s \in Slot, Connect(s)
      PROVE  Exclusion'
  <2>1. UNCHANGED <<client, unlucky, rooms, fighting, threads, duel>> /\ ~open[s]
    BY <1>1 DEF Connect
  <2>2. \A x \in Slot : Takers(x)' = Takers(x) /\ (Own(x)' <=> Own(x)) /\ PointAt(x)' = PointAt(x)
    BY <2>1 DEF Takers, Own, PointAt
  <2>3. \A x \in Slot \ {s} : Safe(x)' <=> Safe(x)
    BY <1>1 DEF Connect, Safe, Gone
  <2>4. ASSUME Safe(s)'
        PROVE  ~Busy(s) /\ \A j \in FightId : stage[j] # "unused" => second[j] # s
    <3>1. ~Pointed(s)
      BY <1>1, <2>4 DEF Connect, Safe, Gone
    <3>2. s \notin rooms /\ Takers(s) = {} /\ PointAt(s) = {}
      BY <3>1 DEF Pointed, Takers
    <3>3. ~Own(s)
      BY <2>1 DEF Own
    <3>. QED
      BY <3>2, <3>3 DEF Busy, PointAt
  <2>5. \A x \in Slot : Busy(x)' <=> Busy(x)
    BY <2>1, <2>2 DEF Busy
  <2>6. \A x \in Slot : OneHolder(x)' <=> OneHolder(x)
    BY <2>1, <2>2 DEF OneHolder
  <2>7. ~Busy(s) => OneHolder(s)
    BY DEF Busy, OneHolder
  <2> HIDE DEF TypeOK, Threads, InLogin, InFight, InRequest
  <2>. QED
    BY <2>1, <2>3, <2>4, <2>5, <2>6, <2>7 DEF Exclusion
<1>2. ASSUME NEW s \in Slot, Leave(s)
      PROVE  Exclusion'
  <2>1. /\ UNCHANGED <<rooms, threads, duel>> /\ unlucky \subseteq unlucky' /\ ~open'[s]
        /\ \A x \in Slot \ {s} : fighting'[x] = fighting[x]
    BY <1>2 DEF Leave
  <2>2. \A x \in Slot : Takers(x)' = Takers(x) /\ (Own(x)' <=> Own(x)) /\ PointAt(x)' = PointAt(x)
    BY <2>1 DEF Takers, Own, PointAt
  <2>3. \A x \in Slot : Safe(x)' => Safe(x) /\ x # s
    BY <1>2 DEF Leave, Safe, Gone
  <2>5. \A x \in Slot : Busy(x)' <=> Busy(x)
    BY <2>1, <2>2 DEF Busy
  <2>6. \A x \in Slot : OneHolder(x)' <=> OneHolder(x)
    BY <2>1, <2>2 DEF OneHolder
  <2> HIDE DEF TypeOK, Threads, InLogin, InFight, InRequest
  <2>. QED
    BY <2>1, <2>3, <2>5, <2>6 DEF Exclusion
<1>3. ASSUME NEW s \in Slot, BeginMapFight(s)
      PROVE  Exclusion'
  <2>1. /\ UNCHANGED <<open, haunted, client, unlucky, duel>> /\ ~fighting[s] /\ fighting'[s]
        /\ \A x \in Slot \ {s} : fighting'[x] = fighting[x]
        /\ UNCHANGED rooms
    BY <1>3 DEF BeginMapFight
  <2>2. \A x \in Slot : Takers(x)' = Takers(x) /\ PointAt(x)' = PointAt(x)
    BY <1>3 DEF BeginMapFight, Takers, PointAt
  <2>3. \A x \in Slot \ {s} : Own(x)' <=> Own(x)
    BY <1>3 DEF BeginMapFight, Own
  <2>4. \A x \in Slot : Safe(x)' <=> Safe(x)
    BY <2>1 DEF Safe, Gone
  <2>5. Safe(s) => ~Busy(s)
    BY <2>1 DEF Exclusion
  <2>6. \A x \in Slot \ {s} : (Busy(x)' <=> Busy(x)) /\ (OneHolder(x)' <=> OneHolder(x))
    BY <2>1, <2>2, <2>3 DEF Busy, OneHolder
  <2>7. Safe(s) => OneHolder(s)'
    BY <2>1, <2>2, <2>3, <2>5 DEF Busy, OneHolder
  <2> HIDE DEF TypeOK, Threads, InLogin, InFight, InRequest
  <2>. QED
    BY <2>1, <2>4, <2>6, <2>7 DEF Exclusion
<1>4. ASSUME NEW s \in Slot, CreateRoom(s)
      PROVE  Exclusion'
  <2>1. /\ UNCHANGED <<open, haunted, client, unlucky, duel>> /\ ~fighting[s] /\ fighting'[s]
        /\ \A x \in Slot \ {s} : fighting'[x] = fighting[x]
        /\ rooms' = rooms \cup {s}
    BY <1>4 DEF CreateRoom
  <2>2. \A x \in Slot : Takers(x)' = Takers(x) /\ PointAt(x)' = PointAt(x)
    BY <1>4 DEF CreateRoom, Takers, PointAt
  <2>3. \A x \in Slot : Own(x)' <=> Own(x)
    BY <1>4 DEF CreateRoom, Own
  <2>4. \A x \in Slot : Safe(x)' <=> Safe(x)
    BY <2>1 DEF Safe, Gone
  <2>5. Safe(s) => ~Busy(s)
    BY <2>1 DEF Exclusion
  <2>6. \A x \in Slot \ {s} : (Busy(x)' <=> Busy(x)) /\ (OneHolder(x)' <=> OneHolder(x))
    BY <2>1, <2>2, <2>3 DEF Busy, OneHolder
  <2>7. Safe(s) => OneHolder(s)'
    BY <2>1, <2>2, <2>3, <2>5 DEF Busy, OneHolder
  <2> HIDE DEF TypeOK, Threads, InLogin, InFight, InRequest
  <2>. QED
    BY <2>1, <2>4, <2>6, <2>7 DEF Exclusion
<1>5. ASSUME NEW s \in Slot, NEW u \in User, LoginRead(s, u)
      PROVE  Exclusion'
  <2>1. UNCHANGED <<open, haunted, client, rooms, fighting, first, second>> /\ unlucky \subseteq unlucky'
    BY <1>5 DEF LoginRead
  <2>2. \A x \in Slot : Takers(x)' = Takers(x) /\ (Own(x)' <=> Own(x))
    BY <1>5 DEF LoginRead, Takers, Own
  <2>3. \A x \in Slot : PointAt(x)' \subseteq PointAt(x)
    BY <1>5 DEF LoginRead, PointAt
  <2>4. \A j \in FightId : stage'[j] # "unused" => stage[j] # "unused"
    BY <1>5 DEF LoginRead
  <2> HIDE DEF TypeOK, Threads, Tasks, InLogin, InFight, InRequest
  <2>. QED
    BY <2>1, <2>2, <2>3, <2>4, SafeStays, NoNewHolder
<1>6. ASSUME NEW s \in Slot, NEW t \in Slot, Join(s, t)
      PROVE  Exclusion'
  <2>1. /\ UNCHANGED <<open, haunted, client, unlucky, duel>> /\ ~fighting[s] /\ fighting'[s]
        /\ \A x \in Slot \ {s} : fighting'[x] = fighting[x]
        /\ UNCHANGED rooms
    BY <1>6 DEF Join
  <2>2. \A x \in Slot : Takers(x)' = Takers(x) /\ PointAt(x)' = PointAt(x)
    BY <1>6 DEF Join, Takers, PointAt
  <2>3. \A x \in Slot \ {s} : Own(x)' <=> Own(x)
    BY <1>6 DEF Join, Own
  <2>4. \A x \in Slot : Safe(x)' <=> Safe(x)
    BY <2>1 DEF Safe, Gone
  <2>5. Safe(s) => ~Busy(s)
    BY <2>1 DEF Exclusion
  <2>6. \A x \in Slot \ {s} : (Busy(x)' <=> Busy(x)) /\ (OneHolder(x)' <=> OneHolder(x))
    BY <2>1, <2>2, <2>3 DEF Busy, OneHolder
  <2>7. Safe(s) => OneHolder(s)'
    BY <2>1, <2>2, <2>3, <2>5 DEF Busy, OneHolder
  <2> HIDE DEF TypeOK, Threads, InLogin, InFight, InRequest
  <2>. QED
    BY <2>1, <2>4, <2>6, <2>7 DEF Exclusion
<1>7. ASSUME NEW s \in Slot, NEW t \in Slot, Refuse(s, t)
      PROVE  Exclusion'
  <2>1. UNCHANGED <<open, haunted, client, rooms, fighting, first, second>> /\ unlucky \subseteq unlucky'
    BY <1>7 DEF Refuse
  <2>2. \A x \in Slot : Takers(x)' = Takers(x) /\ (Own(x)' <=> Own(x))
    BY <1>7 DEF Refuse, Takers, Own
  <2>3. \A x \in Slot : PointAt(x)' \subseteq PointAt(x)
    BY <1>7 DEF Refuse, PointAt
  <2>4. \A j \in FightId : stage'[j] # "unused" => stage[j] # "unused"
    BY <1>7 DEF Refuse
  <2> HIDE DEF TypeOK, Threads, Tasks, InLogin, InFight, InRequest
  <2>. QED
    BY <2>1, <2>2, <2>3, <2>4, SafeStays, NoNewHolder
<1>8. ASSUME NEW s \in Slot, NEW t \in Slot, Cancel(s, t)
      PROVE  Exclusion'
  <2>1. UNCHANGED <<open, haunted, client, rooms, fighting, first, second>> /\ unlucky \subseteq unlucky'
    BY <1>8 DEF Cancel
  <2>2. \A x \in Slot : Takers(x)' = Takers(x) /\ (Own(x)' <=> Own(x))
    BY <1>8 DEF Cancel, Takers, Own
  <2>3. \A x \in Slot : PointAt(x)' \subseteq PointAt(x)
    BY <1>8 DEF Cancel, PointAt
  <2>4. \A j \in FightId : stage'[j] # "unused" => stage[j] # "unused"
    BY <1>8 DEF Cancel
  <2> HIDE DEF TypeOK, Threads, Tasks, InLogin, InFight, InRequest
  <2>. QED
    BY <2>1, <2>2, <2>3, <2>4, SafeStays, NoNewHolder
<1>9. ASSUME NEW s \in Slot, LoginCheck(s)
      PROVE  Exclusion'
  <2>1. UNCHANGED <<open, haunted, client, rooms, fighting, first, second>> /\ unlucky \subseteq unlucky'
    BY <1>9 DEF LoginCheck
  <2>2. \A x \in Slot : Takers(x)' = Takers(x) /\ (Own(x)' <=> Own(x))
    BY <1>9 DEF LoginCheck, Takers, Own
  <2>3. \A x \in Slot : PointAt(x)' \subseteq PointAt(x)
    BY <1>9 DEF LoginCheck, PointAt
  <2>4. \A j \in FightId : stage'[j] # "unused" => stage[j] # "unused"
    BY <1>9 DEF LoginCheck
  <2> HIDE DEF TypeOK, Threads, Tasks, InLogin, InFight, InRequest
  <2>. QED
    BY <2>1, <2>2, <2>3, <2>4, SafeStays, NoNewHolder
<1>10. ASSUME NEW s \in Slot, LoginSet(s)
      PROVE  Exclusion'
  <2>1. /\ UNCHANGED <<open, haunted, rooms, fighting, room, duel>> /\ unlucky \subseteq unlucky'
        /\ client[s] = None /\ \A x \in Slot \ {s} : client'[x] = client[x]
    BY <1>10 DEF LoginSet
  <2>2. \A x \in Slot : Takers(x)' = Takers(x) /\ (Own(x)' <=> Own(x)) /\ PointAt(x)' = PointAt(x)
    BY <1>10 DEF LoginSet, Takers, Own, PointAt
  <2>3. None \notin unlucky
    OBVIOUS
  <2>4. \A x \in Slot : Safe(x)' => Safe(x)
    BY <2>1, <2>3 DEF Safe, Gone
  <2> HIDE DEF TypeOK, Threads, Tasks, InLogin, InFight, InRequest
  <2>. QED
    BY <2>1, <2>2, <2>4, NoNewHolder
<1>11. ASSUME NEW s \in Slot, FindSession(s)
      PROVE  Exclusion'
  <2>1. UNCHANGED <<open, haunted, client, rooms, fighting, first, second>> /\ unlucky \subseteq unlucky'
    BY <1>11 DEF FindSession
  <2>2. \A x \in Slot : Takers(x)' = Takers(x) /\ (Own(x)' <=> Own(x))
    BY <1>11 DEF FindSession, Takers, Own
  <2>3. \A x \in Slot : PointAt(x)' \subseteq PointAt(x)
    BY <1>11 DEF FindSession, PointAt
  <2>4. \A j \in FightId : stage'[j] # "unused" => stage[j] # "unused"
    BY <1>11 DEF FindSession
  <2> HIDE DEF TypeOK, Threads, Tasks, InLogin, InFight, InRequest
  <2>. QED
    BY <2>1, <2>2, <2>3, <2>4, SafeStays, NoNewHolder
<1>12. ASSUME NEW s \in Slot, WinMapFight(s)
      PROVE  Exclusion'
  <2>1. UNCHANGED <<open, haunted, client, rooms, fighting, first, second>> /\ unlucky \subseteq unlucky'
    BY <1>12 DEF WinMapFight, Save
  <2>2. \A x \in Slot : Takers(x)' = Takers(x) /\ (Own(x)' <=> Own(x))
    BY <1>12 DEF WinMapFight, Save, Takers, Own
  <2>3. \A x \in Slot : PointAt(x)' \subseteq PointAt(x)
    BY <1>12 DEF WinMapFight, Save, PointAt
  <2>4. \A j \in FightId : stage'[j] # "unused" => stage[j] # "unused"
    BY <1>12 DEF WinMapFight, Save
  <2> HIDE DEF TypeOK, Threads, Tasks, InLogin, InFight, InRequest
  <2>. QED
    BY <2>1, <2>2, <2>3, <2>4, SafeStays, NoNewHolder
<1>13. ASSUME NEW s \in Slot, LoseMapFight(s)
      PROVE  Exclusion'
  <2>1. UNCHANGED <<open, haunted, client, rooms, fighting, first, second>> /\ unlucky \subseteq unlucky'
    BY <1>13 DEF LoseMapFight
  <2>2. \A x \in Slot : Takers(x)' = Takers(x) /\ (Own(x)' <=> Own(x))
    BY <1>13 DEF LoseMapFight, Takers, Own
  <2>3. \A x \in Slot : PointAt(x)' \subseteq PointAt(x)
    BY <1>13 DEF LoseMapFight, PointAt
  <2>4. \A j \in FightId : stage'[j] # "unused" => stage[j] # "unused"
    BY <1>13 DEF LoseMapFight
  <2> HIDE DEF TypeOK, Threads, Tasks, InLogin, InFight, InRequest
  <2>. QED
    BY <2>1, <2>2, <2>3, <2>4, SafeStays, NoNewHolder
<1>14. ASSUME NEW s \in Slot, EndMapFight(s)
      PROVE  Exclusion'
  <2>1. /\ UNCHANGED <<open, haunted, client, unlucky, rooms, duel>> /\ ~fighting'[s]
        /\ \A x \in Slot \ {s} : fighting'[x] = fighting[x]
        /\ Own(s) /\ ~Own(s)' /\ \A x \in Slot \ {s} : Own(x)' <=> Own(x)
    BY <1>14 DEF EndMapFight, Own
  <2>2. \A x \in Slot : Takers(x)' \subseteq Takers(x) /\ PointAt(x)' = PointAt(x)
    BY <1>14 DEF EndMapFight, Takers, PointAt
  <2>3. Safe(s) => s \notin rooms /\ Takers(s) = {} /\ PointAt(s) = {}
    BY <2>1 DEF Exclusion, OneHolder
  <2>4. Safe(s) => ~Busy(s)'
    BY <2>1, <2>2, <2>3 DEF Busy
  <2> HIDE DEF TypeOK, Threads, Tasks, InLogin, InFight, InRequest
  <2>. QED
    BY <2>1, <2>2, <2>4, SafeStays, NoNewHolder
<1>15. ASSUME NEW s \in Slot, RemoveRoom(s)
      PROVE  Exclusion'
  <2>1. /\ UNCHANGED <<open, haunted, client, fighting, room, duel>> /\ unlucky \subseteq unlucky'
        /\ rooms' \subseteq rooms /\ room[s] \in Slot
        /\ Mistaken(s, room[s]) \subseteq unlucky'
        /\ Gone(room[s]) \/ rooms' = rooms \ {room[s]}
    BY <1>15 DEF RemoveRoom
  <2>2. \A x \in Slot : PointAt(x)' = PointAt(x)
    BY <2>1 DEF PointAt
  <2>3. \A x \in Slot : Safe(x)' => Safe(x)
    BY <2>1, SafeStays
  <2>4. \A x \in Slot : Safe(x) /\ user[x] # None => user[x].name = client[x]
    BY DEF Safe, Gone, Home, Homes
  <2>5. Safe(room[s]) => user[room[s]] # None
    BY <2>1 DEF Rooms, Sought, Safe
  <2>6. CASE pc[s] # "cancel"
    <3>1. \A x \in Slot : Own(x)' <=> Own(x)
      BY <1>15, <2>6 DEF RemoveRoom, Own
    <3>2. \A x \in Slot : Takers(x)' = IF x = room[s] THEN Takers(x) \cup {s} ELSE Takers(x)
      BY <1>15, <2>6 DEF RemoveRoom, Takers
    <3>3. ASSUME Safe(room[s])'
          PROVE  room[s] \in rooms
      BY <2>1, <2>3, <2>4, <2>5, <2>6, <3>3 DEF Mistaken, Safe
    <3>4. ASSUME NEW x \in Slot, Safe(x)'
          PROVE  OneHolder(x)' /\ (Busy(x)' => fighting'[x])
      <4>1. Safe(x) /\ OneHolder(x) /\ (Busy(x) => fighting[x])
        BY <2>3, <3>4 DEF Exclusion
      <4>2. CASE x # room[s]
        <5>1. Takers(x)' = Takers(x)
          BY <3>2, <4>2
        <5>. QED
          BY <2>1, <2>2, <3>1, <4>1, <5>1 DEF OneHolder, Busy
      <4>3. CASE x = room[s]
        <5>1. x \in rooms /\ rooms' = rooms \ {x}
          BY <2>1, <3>3, <3>4, <4>1, <4>3 DEF Safe
        <5>2. Takers(x) = {} /\ PointAt(x) = {} /\ ~Own(x) /\ fighting[x]
          BY <4>1, <5>1 DEF OneHolder, Busy
        <5>3. Takers(x)' = {s} /\ PointAt(x)' = {} /\ ~Own(x)' /\ x \notin rooms'
          BY <2>2, <3>1, <3>2, <4>3, <5>1, <5>2
        <5>. QED
          BY <2>1, <5>2, <5>3 DEF OneHolder
      <4>. QED
        BY <4>2, <4>3
    <3> HIDE DEF TypeOK, Threads, Homes, Rooms, InLogin, InFight, InRequest
    <3>. QED
      BY <2>1, <2>3, <3>4 DEF Exclusion
  <2>7. CASE pc[s] = "cancel"
    <3>1. \A x \in Slot \ {s} : Own(x)' <=> Own(x)
      BY <1>15, <2>7 DEF RemoveRoom, Own
    <3>2. \A x \in Slot : Takers(x)' = Takers(x)
      BY <1>15, <2>7 DEF RemoveRoom, Takers
    <3>3. ASSUME Safe(s)'
          PROVE  room[s] = s /\ s \in rooms
      <4>1. Safe(s) /\ UNCHANGED client /\ client'[s] \notin unlucky'
        BY <2>1, <2>3, <3>3 DEF Safe
      <4>2. user[s] # None
        BY <2>7
      <4>3. user[s].name = client[s] /\ client[s] \notin unlucky'
        BY <2>4, <4>1, <4>2
      <4>. QED
        BY <2>1, <2>7, <4>2, <4>3 DEF Mistaken
    <3>4. ASSUME NEW x \in Slot, Safe(x)'
          PROVE  OneHolder(x)' /\ (Busy(x)' => fighting'[x])
      <4>1. Safe(x) /\ OneHolder(x) /\ (Busy(x) => fighting[x])
        BY <2>3, <3>4 DEF Exclusion
      <4>2. CASE x # s
        BY <2>1, <2>2, <3>1, <3>2, <4>1, <4>2 DEF OneHolder, Busy
      <4>3. CASE x = s
        <5>1. x \in rooms /\ rooms' = rooms \ {x}
          BY <2>1, <3>3, <3>4, <4>1, <4>3 DEF Safe
        <5>2. Takers(x) = {} /\ PointAt(x) = {} /\ fighting[x]
          BY <4>1, <5>1 DEF OneHolder, Busy
        <5>3. Takers(x)' = {} /\ PointAt(x)' = {} /\ x \notin rooms'
          BY <2>2, <3>2, <5>1, <5>2
        <5>. QED
          BY <2>1, <5>2, <5>3 DEF OneHolder
      <4>. QED
        BY <4>2, <4>3
    <3> HIDE DEF TypeOK, Threads, Homes, Rooms, InLogin, InFight, InRequest
    <3>. QED
      BY <2>1, <2>3, <3>4 DEF Exclusion
  <2>. QED
    BY <2>6, <2>7
<1>16. ASSUME NEW s \in Slot, NEW i \in FightId, StartFight(i, s)
      PROVE  Exclusion'
  <2>1. /\ UNCHANGED <<open, haunted, client, unlucky, rooms, fighting>>
        /\ pc[s] = "joined" /\ room[s] \in Slot
        /\ pc' = [pc EXCEPT ![s] = "idle"] /\ room' = [room EXCEPT ![s] = None]
    BY <1>16, StartEffect
  <2>2. Started(i, s, room[s])
    BY <1>16, StartEffect
  <2>3. \A x \in Slot : PointAt(x)' = IF x \in {s, room[s]} THEN PointAt(x) \cup {i} ELSE PointAt(x)
    BY <2>2 DEF Started
  <2>4. Own(s) /\ ~Own(s)' /\ \A x \in Slot \ {s} : Own(x)' <=> Own(x)
    BY <2>1 DEF Own
  <2>5. s \in Takers(room[s]) /\ \A x \in Slot : Takers(x)' = Takers(x) \ {s}
    BY <2>1 DEF Takers
  <2>6. \A x \in Slot : Safe(x)' <=> Safe(x)
    BY <2>1 DEF Safe, Gone
  <2>7. ASSUME NEW x \in Slot, Safe(x)
        PROVE  OneHolder(x)' /\ (Busy(x)' => fighting'[x]) /\ ~(x = s /\ x = room[s])
    <3>1. OneHolder(x) /\ (Busy(x) => fighting[x])
      BY <2>7 DEF Exclusion
    <3>2. CASE x = s
      <4>1. x \notin rooms /\ Takers(x) = {} /\ PointAt(x) = {} /\ fighting[x]
        BY <2>4, <3>1, <3>2 DEF OneHolder, Busy
      <4>2. x # room[s] /\ Takers(x)' = {} /\ PointAt(x)' = {i} /\ ~Own(x)'
        BY <2>3, <2>4, <2>5, <3>2, <4>1
      <4>. QED
        BY <2>1, <4>1, <4>2 DEF OneHolder
    <3>3. CASE x # s /\ x = room[s]
      <4>1. /\ x \notin rooms /\ PointAt(x) = {} /\ ~Own(x) /\ fighting[x]
            /\ \A t \in Takers(x) : t = s
        BY <2>5, <3>1, <3>3 DEF OneHolder, Busy
      <4>2. Takers(x)' = {} /\ PointAt(x)' = {i} /\ ~Own(x)'
        BY <2>3, <2>4, <2>5, <3>3, <4>1
      <4>. QED
        BY <2>1, <3>3, <4>1, <4>2 DEF OneHolder
    <3>4. CASE x # s /\ x # room[s]
      <4>1. PointAt(x)' = PointAt(x) /\ Takers(x)' \subseteq Takers(x) /\ (Own(x)' <=> Own(x))
        BY <2>3, <2>4, <2>5, <3>4
      <4>. QED
        BY <2>1, <3>1, <3>4, <4>1 DEF OneHolder, Busy
    <3>. QED
      BY <3>2, <3>3, <3>4
  <2>8. ASSUME NEW j \in FightId, stage'[j] # "unused", first'[j] = second'[j]
        PROVE  ~Safe(first[j])'
    <3>1. CASE j = i
      <4>1. first'[i] = s /\ s = room[s]
        BY <2>1, <2>2, <2>8, <3>1 DEF Started
      <4>. QED
        BY <2>6, <2>7, <3>1, <4>1
    <3>2. CASE j # i
      <4>1. UNCHANGED <<stage[j], first[j], second[j]>>
        BY <2>2, <3>2 DEF Started
      <4>2. first[j] \in Slot /\ ~Safe(first[j])
        BY <2>8, <4>1 DEF Exclusion
      <4>. QED
        BY <2>6, <4>1, <4>2
    <3>. QED
      BY <3>1, <3>2
  <2> HIDE DEF TypeOK, Threads, InLogin, InFight, InRequest
  <2>. QED
    BY <2>6, <2>7, <2>8 DEF Exclusion
<1>17. ASSUME NEW s \in Slot, JoinFails(s)
      PROVE  Exclusion'
  <2>1. /\ UNCHANGED <<open, haunted, client, unlucky, rooms, duel>> /\ ~fighting'[s]
        /\ \A x \in Slot \ {s} : fighting'[x] = fighting[x]
        /\ Own(s) /\ ~Own(s)' /\ \A x \in Slot \ {s} : Own(x)' <=> Own(x)
    BY <1>17 DEF JoinFails, Own
  <2>2. \A x \in Slot : Takers(x)' \subseteq Takers(x) /\ PointAt(x)' = PointAt(x)
    BY <1>17 DEF JoinFails, Takers, PointAt
  <2>3. Safe(s) => s \notin rooms /\ Takers(s) = {} /\ PointAt(s) = {}
    BY <2>1 DEF Exclusion, OneHolder
  <2>4. Safe(s) => ~Busy(s)'
    BY <2>1, <2>2, <2>3 DEF Busy
  <2> HIDE DEF TypeOK, Threads, Tasks, InLogin, InFight, InRequest
  <2>. QED
    BY <2>1, <2>2, <2>4, SafeStays, NoNewHolder
<1>18. ASSUME NEW s \in Slot, RefuseDone(s)
      PROVE  Exclusion'
  <2>1. /\ UNCHANGED <<open, haunted, client, unlucky, rooms, duel>>
        /\ room[s] \in Slot /\ s \in Takers(room[s])
        /\ \A x \in Slot : Own(x)' <=> Own(x)
    BY <1>18 DEF RefuseDone, Own, Takers
  <2>2. \A x \in Slot : Takers(x)' \subseteq Takers(x) /\ s \notin Takers(x)' /\ PointAt(x)' = PointAt(x)
    BY <1>18 DEF RefuseDone, Takers, PointAt
  <2>3. \/ Gone(room[s]) /\ UNCHANGED fighting
        \/ fighting' = [fighting EXCEPT ![room[s]] = FALSE]
    BY <1>18 DEF RefuseDone
  <2>4. ASSUME NEW x \in Slot, x = room[s], Safe(x)
        PROVE  ~Busy(x)'
    <3> HIDE DEF TypeOK, Threads, Tasks, Logins, Homes, Rooms, InLogin, InFight, InRequest
    <3>1. OneHolder(x)
      BY <2>4 DEF Exclusion
    <3>2. /\ \A t \in Takers(x) : t = s
          /\ x \notin rooms /\ PointAt(x) = {} /\ ~Own(x)
      BY <2>1, <2>4, <3>1 DEF OneHolder
    <3>3. Takers(x)' = {}
      BY <2>2, <3>2
    <3>. QED
      BY <2>1, <2>2, <2>4, <3>2, <3>3 DEF Busy
  <2>5. \A x \in Slot : x # room[s] => fighting'[x] = fighting[x]
    BY <2>1, <2>3
  <2> HIDE DEF TypeOK, Threads, Tasks, Logins, Homes, Rooms, InLogin, InFight, InRequest
  <2>6. \A x \in Slot : Safe(x) /\ fighting[x] => fighting'[x] \/ ~Busy(x)'
    BY <2>4, <2>5 DEF Safe
  <2>. QED
    BY <2>1, <2>2, <2>6, SafeStays, NoNewHolder
<1>19. ASSUME NEW s \in Slot, CancelDone(s)
      PROVE  Exclusion'
  <2>1. /\ UNCHANGED <<open, haunted, client, unlucky, rooms, duel>> /\ ~fighting'[s]
        /\ \A x \in Slot \ {s} : fighting'[x] = fighting[x]
        /\ Own(s) /\ ~Own(s)' /\ \A x \in Slot \ {s} : Own(x)' <=> Own(x)
    BY <1>19 DEF CancelDone, Own
  <2>2. \A x \in Slot : Takers(x)' \subseteq Takers(x) /\ PointAt(x)' = PointAt(x)
    BY <1>19 DEF CancelDone, Takers, PointAt
  <2>3. Safe(s) => s \notin rooms /\ Takers(s) = {} /\ PointAt(s) = {}
    BY <2>1 DEF Exclusion, OneHolder
  <2>4. Safe(s) => ~Busy(s)'
    BY <2>1, <2>2, <2>3 DEF Busy
  <2> HIDE DEF TypeOK, Threads, Tasks, InLogin, InFight, InRequest
  <2>. QED
    BY <2>1, <2>2, <2>4, SafeStays, NoNewHolder
<1>20. ASSUME NEW s \in Slot, NullUser(s)
      PROVE  Exclusion'
  <2>1. UNCHANGED <<open, haunted, client, rooms, fighting, first, second>> /\ unlucky \subseteq unlucky'
    BY <1>20 DEF NullUser
  <2>2. \A x \in Slot : Takers(x)' = Takers(x) /\ (Own(x)' <=> Own(x))
    BY <1>20 DEF NullUser, Takers, Own
  <2>3. \A x \in Slot : PointAt(x)' \subseteq PointAt(x)
    BY <1>20 DEF NullUser, PointAt
  <2>4. \A j \in FightId : stage'[j] # "unused" => stage[j] # "unused"
    BY <1>20 DEF NullUser
  <2> HIDE DEF TypeOK, Threads, Tasks, InLogin, InFight, InRequest
  <2>. QED
    BY <2>1, <2>2, <2>3, <2>4, SafeStays, NoNewHolder
<1>21. ASSUME NEW i \in FightId, BeginFight(i)
      PROVE  Exclusion'
  <2>1. UNCHANGED <<open, haunted, client, rooms, fighting, first, second>> /\ unlucky \subseteq unlucky'
    BY <1>21 DEF BeginFight
  <2>2. \A x \in Slot : Takers(x)' = Takers(x) /\ (Own(x)' <=> Own(x))
    BY <1>21 DEF BeginFight, Takers, Own
  <2>3. \A x \in Slot : PointAt(x)' \subseteq PointAt(x)
    BY <1>21 DEF BeginFight, PointAt
  <2>4. \A j \in FightId : stage'[j] # "unused" => stage[j] # "unused"
    BY <1>21 DEF BeginFight
  <2> HIDE DEF TypeOK, Threads, Tasks, InLogin, InFight, InRequest
  <2>. QED
    BY <2>1, <2>2, <2>3, <2>4, SafeStays, NoNewHolder
<1>22. ASSUME NEW i \in FightId, GiveUp(i)
      PROVE  Exclusion'
  <2>1. UNCHANGED <<open, haunted, client, rooms, fighting, first, second>> /\ unlucky \subseteq unlucky'
    BY <1>22 DEF GiveUp
  <2>2. \A x \in Slot : Takers(x)' = Takers(x) /\ (Own(x)' <=> Own(x))
    BY <1>22 DEF GiveUp, Takers, Own
  <2>3. \A x \in Slot : PointAt(x)' \subseteq PointAt(x)
    BY <1>22 DEF GiveUp, PointAt
  <2>4. \A j \in FightId : stage'[j] # "unused" => stage[j] # "unused"
    BY <1>22 DEF GiveUp
  <2> HIDE DEF TypeOK, Threads, Tasks, InLogin, InFight, InRequest
  <2>. QED
    BY <2>1, <2>2, <2>3, <2>4, SafeStays, NoNewHolder
<1>23. ASSUME NEW i \in FightId, Pay(i)
      PROVE  Exclusion'
  <2>1. UNCHANGED <<open, haunted, client, rooms, fighting, first, second>> /\ unlucky \subseteq unlucky'
    BY <1>23 DEF Pay, Save
  <2>2. \A x \in Slot : Takers(x)' = Takers(x) /\ (Own(x)' <=> Own(x))
    BY <1>23 DEF Pay, Save, Takers, Own
  <2>3. \A x \in Slot : PointAt(x)' \subseteq PointAt(x)
    BY <1>23 DEF Pay, Save, PointAt
  <2>4. \A j \in FightId : stage'[j] # "unused" => stage[j] # "unused"
    BY <1>23 DEF Pay, Save
  <2> HIDE DEF TypeOK, Threads, Tasks, InLogin, InFight, InRequest
  <2>. QED
    BY <2>1, <2>2, <2>3, <2>4, SafeStays, NoNewHolder
<1>24. ASSUME NEW i \in FightId, WriteFirst(i)
      PROVE  Exclusion'
  <2>1. UNCHANGED <<open, haunted, client, rooms, fighting, first, second>> /\ unlucky \subseteq unlucky'
    BY <1>24 DEF WriteFirst
  <2>2. \A x \in Slot : Takers(x)' = Takers(x) /\ (Own(x)' <=> Own(x))
    BY <1>24 DEF WriteFirst, Takers, Own
  <2>3. \A x \in Slot : PointAt(x)' \subseteq PointAt(x)
    BY <1>24 DEF WriteFirst, PointAt
  <2>4. \A j \in FightId : stage'[j] # "unused" => stage[j] # "unused"
    BY <1>24 DEF WriteFirst
  <2> HIDE DEF TypeOK, Threads, Tasks, InLogin, InFight, InRequest
  <2>. QED
    BY <2>1, <2>2, <2>3, <2>4, SafeStays, NoNewHolder
<1>25. ASSUME NEW i \in FightId, FreeFirst(i)
      PROVE  Exclusion'
  <2>1. /\ UNCHANGED <<open, haunted, client, unlucky, rooms, threads, first, second>>
        /\ fighting' = [fighting EXCEPT ![first[i]] = FALSE]
        /\ first[i] \in Slot /\ stage[i] # "unused" /\ i \in PointAt(first[i])
    BY <1>25 DEF FreeFirst, PointAt
  <2>2. \A x \in Slot : Takers(x)' = Takers(x) /\ (Own(x)' <=> Own(x))
    BY <2>1 DEF Takers, Own
  <2>3. \A j \in FightId : stage'[j] # "unused" => stage[j] # "unused"
    BY <1>25 DEF FreeFirst
  <2>4. \A x \in Slot : PointAt(x)' \subseteq PointAt(x)
    BY <1>25 DEF FreeFirst, PointAt
  <2>5. first[i] # second[i] => i \notin PointAt(first[i])'
    BY <1>25 DEF FreeFirst, PointAt
  <2>6. ASSUME NEW x \in Slot, x = first[i], Safe(x)
        PROVE  ~Busy(x)'
    <3> HIDE DEF TypeOK, Threads, Tasks, Logins, Homes, Rooms, InLogin, InFight, InRequest
    <3>1. OneHolder(x) /\ first[i] # second[i]
      BY <2>1, <2>6 DEF Exclusion
    <3>2. /\ \A j \in PointAt(x) : j = i
          /\ x \notin rooms /\ Takers(x) = {} /\ ~Own(x)
      BY <2>1, <2>6, <3>1 DEF OneHolder
    <3>3. PointAt(x)' = {}
      <4>1. i \notin PointAt(x)' /\ PointAt(x)' \subseteq PointAt(x)
        BY <2>1, <2>4, <2>5, <2>6, <3>1
      <4>. QED
        BY <3>2, <4>1
    <3>. QED
      BY <2>1, <2>2, <2>6, <3>2, <3>3 DEF Busy
  <2> HIDE DEF TypeOK, Threads, Tasks, Logins, Homes, Rooms, InLogin, InFight, InRequest
  <2>7. \A x \in Slot : x # first[i] => fighting'[x] = fighting[x]
    BY <2>1
  <2>8. \A x \in Slot : Safe(x) /\ fighting[x] => fighting'[x] \/ ~Busy(x)'
    BY <2>6, <2>7
  <2>. QED
    BY <2>1, <2>2, <2>3, <2>4, <2>8, SafeStays, NoNewHolder
<1>26. ASSUME NEW i \in FightId, WriteSecond(i)
      PROVE  Exclusion'
  <2>1. UNCHANGED <<open, haunted, client, unlucky, rooms, fighting, threads>>
    BY <1>26 DEF WriteSecond
  <2>2. \A x \in Slot : Takers(x)' = Takers(x) /\ (Own(x)' <=> Own(x))
    BY <2>1 DEF Takers, Own
  <2>3. \A j \in FightId : stage'[j] # "unused" =>
          stage[j] # "unused" /\ first'[j] = first[j] /\ second'[j] = second[j]
    BY <1>26 DEF WriteSecond, Delete
  <2>4. \A x \in Slot : PointAt(x)' \subseteq PointAt(x)
    BY <1>26 DEF WriteSecond, Delete, PointAt
  <2> HIDE DEF TypeOK, Threads, Tasks, InLogin, InFight, InRequest
  <2>. QED
    BY <2>1, <2>2, <2>3, <2>4, SafeStays, NoNewHolder
<1>27. ASSUME NEW i \in FightId, FreeSecond(i)
      PROVE  Exclusion'
  <2>1. /\ UNCHANGED <<open, haunted, client, unlucky, rooms, threads>>
        /\ fighting' = [fighting EXCEPT ![second[i]] = FALSE]
        /\ second[i] \in Slot /\ i \in PointAt(second[i])
    BY <1>27 DEF FreeSecond, PointAt
  <2>2. \A x \in Slot : Takers(x)' = Takers(x) /\ (Own(x)' <=> Own(x))
    BY <2>1 DEF Takers, Own
  <2>3. \A j \in FightId : stage'[j] # "unused" =>
          stage[j] # "unused" /\ first'[j] = first[j] /\ second'[j] = second[j]
    BY <1>27 DEF FreeSecond, Delete
  <2>4. \A x \in Slot : PointAt(x)' \subseteq PointAt(x) /\ i \notin PointAt(x)'
    BY <1>27 DEF FreeSecond, Delete, PointAt
  <2>6. ASSUME NEW x \in Slot, x = second[i], Safe(x)
        PROVE  ~Busy(x)'
    <3> HIDE DEF TypeOK, Threads, Tasks, Logins, Homes, Rooms, InLogin, InFight, InRequest
    <3>1. OneHolder(x)
      BY <2>6 DEF Exclusion
    <3>2. /\ \A j \in PointAt(x) : j = i
          /\ x \notin rooms /\ Takers(x) = {} /\ ~Own(x)
      BY <2>1, <2>6, <3>1 DEF OneHolder
    <3>3. PointAt(x)' = {}
      BY <2>4, <3>2
    <3>. QED
      BY <2>1, <2>2, <3>2, <3>3 DEF Busy
  <2> HIDE DEF TypeOK, Threads, Tasks, Logins, Homes, Rooms, InLogin, InFight, InRequest
  <2>7. \A x \in Slot : x # second[i] => fighting'[x] = fighting[x]
    BY <2>1
  <2>8. \A x \in Slot : Safe(x) /\ fighting[x] => fighting'[x] \/ ~Busy(x)'
    BY <2>6, <2>7
  <2>. QED
    BY <2>1, <2>2, <2>3, <2>4, <2>8, SafeStays, NoNewHolder
<1>28. ASSUME NEW i \in FightId,
             NEW strikes \in BOOLEAN, NEW back \in BOOLEAN, Round(i, strikes, back)
      PROVE  Exclusion'
  <2>1. UNCHANGED <<open, haunted, client, rooms, fighting, first, second>> /\ unlucky \subseteq unlucky'
    BY <1>28 DEF Round
  <2>2. \A x \in Slot : Takers(x)' = Takers(x) /\ (Own(x)' <=> Own(x))
    BY <1>28 DEF Round, Takers, Own
  <2>3. \A x \in Slot : PointAt(x)' \subseteq PointAt(x)
    BY <1>28 DEF Round, PointAt
  <2>4. \A j \in FightId : stage'[j] # "unused" => stage[j] # "unused"
    BY <1>28 DEF Round
  <2> HIDE DEF TypeOK, Threads, Tasks, InLogin, InFight, InRequest
  <2>. QED
    BY <2>1, <2>2, <2>3, <2>4, SafeStays, NoNewHolder
<1>29. CASE UNCHANGED vars
  BY <1>29 DEF Exclusion, OneHolder, Busy, Safe, Gone, Takers, Own, PointAt
<1> HIDE DEF TypeOK, Threads, Tasks, Logins, InLogin, InFight, InRequest
<1>30. ASSUME NEW s \in Slot, Client(s)
       PROVE  Exclusion'
  BY <1>1, <1>2, <1>3, <1>4, <1>5, <1>6, <1>7, <1>8, <1>30 DEF Client
<1>31. ASSUME NEW s \in Slot, Serve(s)
       PROVE  Exclusion'
  BY <1>9, <1>10, <1>11, <1>12, <1>13, <1>14, <1>15, <1>16, <1>17, <1>18, <1>19, <1>20,
     <1>31 DEF Serve
<1>32. ASSUME NEW i \in FightId, Run(i)
       PROVE  Exclusion'
  BY <1>21, <1>22, <1>23, <1>24, <1>25, <1>26, <1>27, <1>28, <1>32 DEF Run
<1>. QED
  BY <1>29, <1>30, <1>31, <1>32 DEF Next

\* A lucky user is in the session where he has logged in, and nowhere else.
LEMMA LuckyHome ==
  ASSUME TypeOK, Logins, Threads, Homes, NEW u \in User, u \notin unlucky
  PROVE  /\ \A s \in Slot : user[s] # None /\ user[s].name = u => client[s] = u
         /\ \A s \in Slot : fighter[s] # None /\ fighter[s].name = u => client[s] = u
         /\ \A i \in FightId : FirstPending(i) /\ user1[i].name = u => client[first[i]] = u
         /\ \A i \in FightId : SecondPending(i) /\ user2[i].name = u => client[second[i]] = u
         /\ \A s \in Slot : client[s] = u => Safe(s)
         /\ \A s, t \in Slot : client[s] = u /\ client[t] = u => s = t
<1>1. \A s \in Slot : client[s] = u => Safe(s) /\ online[u] = s
  BY DEF TypeOK, Logins, Safe, Gone
<1>2. /\ \A s \in Slot : user[s] # None /\ user[s].name = u => client[s] = u
      /\ \A s \in Slot : fighter[s] # None /\ fighter[s].name = u => client[s] = u
  BY DEF Homes, Home
<1>3. /\ \A i \in FightId : FirstPending(i) /\ user1[i].name = u => client[first[i]] = u
      /\ \A i \in FightId : SecondPending(i) /\ user2[i].name = u => client[second[i]] = u
  BY DEF Homes, Away
<1>. QED
  BY <1>1, <1>2, <1>3

\* A map fight has found the session of a lucky user, and no login enters one who
\* is there.
LEMMA LuckyThreads ==
  ASSUME TypeOK, Logins, Threads, Homes, NEW u \in User, u \notin unlucky, NEW s \in Slot
  PROVE  /\ fighter[s] # None /\ fighter[s].name = u /\ pc[s] \in {"ended", "saved"} =>
              found[s] = s
         /\ loaded[s] # None /\ loaded[s].name = u /\ s \notin late =>
              \A t \in Slot : client[t] # u
<1>1. ASSUME fighter[s] # None, fighter[s].name = u, pc[s] \in {"ended", "saved"}
      PROVE  found[s] = s
  <2>1. found[s] \in Slot /\ Away(found[s], fighter[s])
    BY <1>1 DEF Homes, TypeOK
  <2>2. client[found[s]] = u /\ client[s] = u
    BY <1>1, <2>1, LuckyHome DEF Away
  <2>. QED
    BY <2>1, <2>2, LuckyHome
<1>2. ASSUME loaded[s] # None, loaded[s].name = u, s \notin late, NEW t \in Slot
      PROVE  client[t] # u
  BY <1>2 DEF Logins
<1>. QED
  BY <1>1, <1>2

\* A session from which nothing is owed has all the points.
LEMMA NothingOwed ==
  ASSUME Truth, NEW s \in Slot, pc[s] # "saved", PointAt(s) = {}
  PROVE  Exact(user[s])
BY DEF Truth, Owed, PointAt

\* Steps that pay nobody.
LEMMA TruthKept ==
  ASSUME Truth, UNCHANGED <<row, earned>>, unlucky \subseteq unlucky',
         \A s \in Slot : fighter'[s] = fighter[s] \/ Exact(fighter[s])',
         \A s \in Slot : (user'[s] = user[s] /\ (Owed(s) => Owed(s)')) \/ Exact(user[s])',
         \A s \in Slot : (loaded'[s] = loaded[s] /\ (s \in late => s \in late')) \/ Exact(loaded[s])',
         \A i \in FightId : FirstPending(i)' =>
           (FirstPending(i) /\ user1'[i] = user1[i]) \/ Exact(user1[i])',
         \A i \in FightId : SecondPending(i)' =>
           (SecondPending(i) /\ user2'[i] = user2[i]) \/ Exact(user2[i])'
  PROVE  Truth'
<1>1. \A r : Exact(r) => (r # None /\ r.name \notin unlucky' => r.points = earned'[r.name])
  BY DEF Exact
<1>2. \A u \in User : u \in unlucky' \/ row'[u] = earned'[u]
  BY DEF Truth
<1>3. \A s \in Slot : Exact(fighter[s])'
  BY <1>1 DEF Truth, Exact
<1>4. \A s \in Slot : Exact(user[s])' \/ Owed(s)'
  BY <1>1 DEF Truth, Exact
<1>5. \A s \in Slot : s \in late' \/ Exact(loaded[s])'
  BY <1>1 DEF Truth, Exact
<1>6. /\ \A i \in FightId : FirstPending(i)' => Exact(user1[i])'
      /\ \A i \in FightId : SecondPending(i)' => Exact(user2[i])'
  BY <1>1 DEF Truth, Exact
<1>. QED
  BY <1>2, <1>3, <1>4, <1>5, <1>6 DEF Truth

\* The user w has been paid: a copy of him is the one that was paid.
NotThe(w, r) == w \in unlucky' \/ r = None \/ r.name # w

Follows(w, paid, old, new) == new = paid \/ (new = old /\ NotThe(w, old))

\* A step that pays w, whose copies all follow or are owed.
LEMMA GainKeepsTruth ==
  ASSUME TypeOK, Truth, NEW w \in User, NEW xp \in Nat, NEW paid \in Record,
         paid.name = w, Save(paid, xp),
         w \in unlucky' \/ paid.points = earned[w] + xp,
         \A s \in Slot : Follows(w, paid, fighter[s], fighter'[s]),
         \A s \in Slot :
           user'[s] = user[s] /\ (Owed(s) => Owed(s)') /\ (NotThe(w, user[s]) \/ Owed(s)'),
         \A s \in Slot : s \in late \/ NotThe(w, loaded[s]),
         UNCHANGED <<loaded, late>>,
         \A i \in FightId : FirstPending(i)' =>
           FirstPending(i) /\ Follows(w, paid, user1[i], user1'[i]),
         \A i \in FightId : SecondPending(i)' =>
           SecondPending(i) /\ Follows(w, paid, user2[i], user2'[i])
  PROVE  Truth'
<1>1. /\ \A u \in User : earned'[u] = IF u = w THEN earned[u] + xp ELSE earned[u]
      /\ \A u \in User : u # w => row'[u] = row[u]
      /\ unlucky \subseteq unlucky'
      /\ row'[w] = paid.points \/ w \in unlucky'
  BY SaveEffect
<1>2. Exact(paid)'
  BY <1>1 DEF Exact
<1>3. ASSUME NEW r \in Record \cup {None}, Exact(r), NotThe(w, r)
      PROVE  r # None /\ r.name \notin unlucky' => r.points = earned'[r.name]
  BY <1>1, <1>3 DEF Exact, NotThe
<1>4. ASSUME NEW r \in Record \cup {None}, NEW q, Exact(r), Follows(w, paid, r, q)
      PROVE  q # None /\ q.name \notin unlucky' => q.points = earned'[q.name]
  BY <1>2, <1>3, <1>4 DEF Follows, Exact
<1>5. \A u \in User : u \in unlucky' \/ row'[u] = earned'[u]
  BY <1>1 DEF Truth
<1>6. \A s \in Slot : Exact(fighter[s])'
  BY <1>4 DEF Truth, TypeOK, Exact
<1>7. \A s \in Slot : Exact(user[s])' \/ Owed(s)'
  <2> SUFFICES ASSUME NEW s \in Slot, ~Owed(s)'
               PROVE  Exact(user[s])'
    OBVIOUS
  <2>1. Exact(user[s]) /\ NotThe(w, user[s]) /\ user'[s] = user[s]
    BY DEF Truth
  <2>. QED
    BY <1>3, <2>1 DEF TypeOK, Exact
<1>8. \A s \in Slot : s \in late' \/ Exact(loaded[s])'
  BY <1>3 DEF Truth, TypeOK, Exact
<1>9. \A i \in FightId : FirstPending(i)' => Exact(user1[i])'
  BY <1>4 DEF Truth, TypeOK, Exact
<1>10. \A i \in FightId : SecondPending(i)' => Exact(user2[i])'
  BY <1>4 DEF Truth, TypeOK, Exact
<1>. QED
  BY <1>5, <1>6, <1>7, <1>8, <1>9, <1>10 DEF Truth

\* The pay of the first user of a duel reaches copy, row and history alike.
LEMMA PayFirstKeepsTruth ==
  ASSUME TypeOK, Logins, Threads, Tasks, Homes, Exclusion, Truth, NEW i \in FightId, Pay(i),
         NEW xp \in Nat, Gains(user1[i], user1'[i], xp), user2'[i] = user2[i],
         Save(user1'[i], xp)
  PROVE  Truth'
<1> DEFINE w    == user1[i].name
           paid == user1'[i]
           h    == first[i]
<1>1. /\ stage[i] = "won" /\ stage' = [stage EXCEPT ![i] = "write1"]
      /\ \A j \in FightId \ {i} : user1'[j] = user1[j] /\ user2'[j] = user2[j]
      /\ UNCHANGED <<sessions, threads, first, second, late>>
  BY PayEffect
<1>2. /\ first[i] \in Slot /\ second[i] \in Slot /\ user1[i] \in Record
      /\ FirstPending(i) /\ SecondPending(i)
  BY <1>1 DEF Tasks, FirstPending, SecondPending
<1>3. /\ paid \in Record /\ paid.name = w /\ paid.points = user1[i].points + xp /\ w \in User
  BY <1>2 DEF Gains
<1>4. unlucky \subseteq unlucky'
  BY <1>3, SaveEffect
<1>5. /\ \A s \in Slot : Owed(s) => Owed(s)'
      /\ Owed(first[i])' /\ Owed(second[i])'
  BY <1>1, <1>2 DEF Owed, TypeOK
<1>6. \A j \in FightId : /\ FirstPending(j)' <=> FirstPending(j)
                         /\ SecondPending(j)' <=> SecondPending(j)
  BY <1>1 DEF FirstPending, SecondPending, TypeOK
<1>7. ASSUME w \notin unlucky'
      PROVE  /\ client[h] = w
             /\ \A j \in FightId : FirstPending(j) /\ first[j] = h => j = i
             /\ \A j \in FightId : SecondPending(j) /\ second[j] = h => j = i
             /\ first[i] # second[i]
             /\ fighter[h] = None
  <2>1. w \in User /\ w \notin unlucky
    BY <1>3, <1>4, <1>7
  <2>2. client[h] = w /\ Safe(h)
    BY <1>2, <2>1, LuckyHome
  <2>3. OneHolder(h) /\ first[i] # second[i]
    BY <1>1, <1>2, <2>2 DEF Exclusion
  <2>4. i \in PointAt(h)
    BY <1>1 DEF PointAt
  <2>5. /\ \A j \in PointAt(h) : j = i
        /\ ~Own(h)
    BY <1>2, <2>3, <2>4 DEF OneHolder
  <2>6. fighter[h] = None
    BY <1>2, <2>5 DEF Threads, InFight, Own
  <2>7. \A j \in FightId : /\ FirstPending(j) /\ first[j] = h => j \in PointAt(h)
                           /\ SecondPending(j) /\ second[j] = h => j \in PointAt(h)
    BY DEF PointAt, FirstPending, SecondPending
  <2>. QED
    BY <2>2, <2>3, <2>5, <2>6, <2>7
<1>8. w \in unlucky' \/ paid.points = earned[w] + xp
  <2>1. Exact(user1[i])
    BY <1>2 DEF Truth
  <2>. QED
    BY <1>2, <1>3, <1>4, <2>1 DEF Exact
<1>9. ASSUME NEW s \in Slot
      PROVE  NotThe(w, fighter[s])
  <2> SUFFICES ASSUME w \notin unlucky', fighter[s] # None, fighter[s].name = w
               PROVE  FALSE
    BY DEF NotThe
  <2>1. client[s] = w /\ w \notin unlucky
    BY <1>3, <1>4, LuckyHome
  <2>2. s = h
    BY <1>2, <1>3, <1>7, <2>1, LuckyHome
  <2>. QED
    BY <1>7, <2>2
<1>10. ASSUME NEW s \in Slot
       PROVE  NotThe(w, user[s]) \/ Owed(s)'
  <2> SUFFICES ASSUME w \notin unlucky', user[s] # None, user[s].name = w
               PROVE  Owed(s)'
    BY DEF NotThe
  <2>1. client[s] = w /\ w \notin unlucky
    BY <1>3, <1>4, LuckyHome
  <2>2. s = h
    BY <1>2, <1>3, <1>7, <2>1, LuckyHome
  <2>. QED
    BY <1>1, <1>5, <2>2
<1>11. ASSUME NEW s \in Slot
       PROVE  s \in late \/ NotThe(w, loaded[s])
  <2> SUFFICES ASSUME w \notin unlucky', loaded[s] # None, loaded[s].name = w, s \notin late
               PROVE  FALSE
    BY DEF NotThe
  <2>1. w \notin unlucky
    BY <1>4
  <2>. QED
    BY <1>2, <1>3, <1>7, <2>1, LuckyThreads
<1>12. ASSUME NEW j \in FightId, FirstPending(j)
       PROVE  Follows(w, paid, user1[j], user1'[j])
  <2> SUFFICES ASSUME user1'[j] # paid
               PROVE  user1'[j] = user1[j] /\ NotThe(w, user1[j])
    BY DEF Follows
  <2>1. user1'[j] = user1[j]
    BY <1>1
  <2> SUFFICES ASSUME w \notin unlucky', user1[j] # None, user1[j].name = w
               PROVE  FALSE
    BY <2>1 DEF NotThe
  <2>2. client[first[j]] = w /\ w \notin unlucky
    BY <1>3, <1>4, <1>12, LuckyHome
  <2>3. first[j] \in Slot
    BY <1>12 DEF Tasks, FirstPending
  <2>4. first[j] = h
    BY <1>2, <1>3, <1>7, <2>2, <2>3, LuckyHome
  <2>5. j = i
    BY <1>7, <1>12, <2>4
  <2>. QED
    BY <1>7, <2>4, <2>5
<1>13. ASSUME NEW j \in FightId, SecondPending(j)
       PROVE  Follows(w, paid, user2[j], user2'[j])
  <2> SUFFICES ASSUME user2'[j] # paid
               PROVE  user2'[j] = user2[j] /\ NotThe(w, user2[j])
    BY DEF Follows
  <2>1. user2'[j] = user2[j]
    BY <1>1
  <2> SUFFICES ASSUME w \notin unlucky', user2[j] # None, user2[j].name = w
               PROVE  FALSE
    BY <2>1 DEF NotThe
  <2>2. client[second[j]] = w /\ w \notin unlucky
    BY <1>3, <1>4, <1>13, LuckyHome
  <2>3. second[j] \in Slot
    BY <1>13 DEF Tasks, SecondPending
  <2>4. second[j] = h
    BY <1>2, <1>3, <1>7, <2>2, <2>3, LuckyHome
  <2>5. j = i
    BY <1>7, <1>13, <2>4
  <2>. QED
    BY <1>7, <2>4, <2>5
<1> HIDE DEF w, paid, h
<1>14. UNCHANGED <<user, fighter, loaded, late>>
  BY <1>1
<1>15. \A s \in Slot : Follows(w, paid, fighter[s], fighter'[s])
  BY <1>9, <1>14 DEF Follows
<1>16. Save(paid, xp)
  BY DEF paid
<1>. QED
  BY <1>3, <1>5, <1>6, <1>8, <1>10, <1>11, <1>12, <1>13, <1>14, <1>15, <1>16,
     GainKeepsTruth

\* The pay of the second user of a duel reaches copy, row and history alike.
LEMMA PaySecondKeepsTruth ==
  ASSUME TypeOK, Logins, Threads, Tasks, Homes, Exclusion, Truth, NEW i \in FightId, Pay(i),
         NEW xp \in Nat, Gains(user2[i], user2'[i], xp), user1'[i] = user1[i],
         Save(user2'[i], xp)
  PROVE  Truth'
<1> DEFINE w    == user2[i].name
           paid == user2'[i]
           h    == second[i]
<1>1. /\ stage[i] = "won" /\ stage' = [stage EXCEPT ![i] = "write1"]
      /\ \A j \in FightId \ {i} : user1'[j] = user1[j] /\ user2'[j] = user2[j]
      /\ UNCHANGED <<sessions, threads, first, second, late>>
  BY PayEffect
<1>2. /\ first[i] \in Slot /\ second[i] \in Slot /\ user2[i] \in Record
      /\ FirstPending(i) /\ SecondPending(i)
  BY <1>1 DEF Tasks, FirstPending, SecondPending
<1>3. /\ paid \in Record /\ paid.name = w /\ paid.points = user2[i].points + xp /\ w \in User
  BY <1>2 DEF Gains
<1>4. unlucky \subseteq unlucky'
  BY <1>3, SaveEffect
<1>5. /\ \A s \in Slot : Owed(s) => Owed(s)'
      /\ Owed(first[i])' /\ Owed(second[i])'
  BY <1>1, <1>2 DEF Owed, TypeOK
<1>6. \A j \in FightId : /\ FirstPending(j)' <=> FirstPending(j)
                         /\ SecondPending(j)' <=> SecondPending(j)
  BY <1>1 DEF FirstPending, SecondPending, TypeOK
<1>7. ASSUME w \notin unlucky'
      PROVE  /\ client[h] = w
             /\ \A j \in FightId : FirstPending(j) /\ first[j] = h => j = i
             /\ \A j \in FightId : SecondPending(j) /\ second[j] = h => j = i
             /\ first[i] # second[i]
             /\ fighter[h] = None
  <2>1. w \in User /\ w \notin unlucky
    BY <1>3, <1>4, <1>7
  <2>2. client[h] = w /\ Safe(h)
    BY <1>2, <2>1, LuckyHome
  <2>3. OneHolder(h) /\ first[i] # second[i]
    BY <1>1, <1>2, <2>2 DEF Exclusion
  <2>4. i \in PointAt(h)
    BY <1>1 DEF PointAt
  <2>5. /\ \A j \in PointAt(h) : j = i
        /\ ~Own(h)
    BY <1>2, <2>3, <2>4 DEF OneHolder
  <2>6. fighter[h] = None
    BY <1>2, <2>5 DEF Threads, InFight, Own
  <2>7. \A j \in FightId : /\ FirstPending(j) /\ first[j] = h => j \in PointAt(h)
                           /\ SecondPending(j) /\ second[j] = h => j \in PointAt(h)
    BY DEF PointAt, FirstPending, SecondPending
  <2>. QED
    BY <2>2, <2>3, <2>5, <2>6, <2>7
<1>8. w \in unlucky' \/ paid.points = earned[w] + xp
  <2>1. Exact(user2[i])
    BY <1>2 DEF Truth
  <2>. QED
    BY <1>2, <1>3, <1>4, <2>1 DEF Exact
<1>9. ASSUME NEW s \in Slot
      PROVE  NotThe(w, fighter[s])
  <2> SUFFICES ASSUME w \notin unlucky', fighter[s] # None, fighter[s].name = w
               PROVE  FALSE
    BY DEF NotThe
  <2>1. client[s] = w /\ w \notin unlucky
    BY <1>3, <1>4, LuckyHome
  <2>2. s = h
    BY <1>2, <1>3, <1>7, <2>1, LuckyHome
  <2>. QED
    BY <1>7, <2>2
<1>10. ASSUME NEW s \in Slot
       PROVE  NotThe(w, user[s]) \/ Owed(s)'
  <2> SUFFICES ASSUME w \notin unlucky', user[s] # None, user[s].name = w
               PROVE  Owed(s)'
    BY DEF NotThe
  <2>1. client[s] = w /\ w \notin unlucky
    BY <1>3, <1>4, LuckyHome
  <2>2. s = h
    BY <1>2, <1>3, <1>7, <2>1, LuckyHome
  <2>. QED
    BY <1>1, <1>5, <2>2
<1>11. ASSUME NEW s \in Slot
       PROVE  s \in late \/ NotThe(w, loaded[s])
  <2> SUFFICES ASSUME w \notin unlucky', loaded[s] # None, loaded[s].name = w, s \notin late
               PROVE  FALSE
    BY DEF NotThe
  <2>1. w \notin unlucky
    BY <1>4
  <2>. QED
    BY <1>2, <1>3, <1>7, <2>1, LuckyThreads
<1>12. ASSUME NEW j \in FightId, FirstPending(j)
       PROVE  Follows(w, paid, user1[j], user1'[j])
  <2> SUFFICES ASSUME user1'[j] # paid
               PROVE  user1'[j] = user1[j] /\ NotThe(w, user1[j])
    BY DEF Follows
  <2>1. user1'[j] = user1[j]
    BY <1>1
  <2> SUFFICES ASSUME w \notin unlucky', user1[j] # None, user1[j].name = w
               PROVE  FALSE
    BY <2>1 DEF NotThe
  <2>2. client[first[j]] = w /\ w \notin unlucky
    BY <1>3, <1>4, <1>12, LuckyHome
  <2>3. first[j] \in Slot
    BY <1>12 DEF Tasks, FirstPending
  <2>4. first[j] = h
    BY <1>2, <1>3, <1>7, <2>2, <2>3, LuckyHome
  <2>5. j = i
    BY <1>7, <1>12, <2>4
  <2>. QED
    BY <1>7, <2>4, <2>5
<1>13. ASSUME NEW j \in FightId, SecondPending(j)
       PROVE  Follows(w, paid, user2[j], user2'[j])
  <2> SUFFICES ASSUME user2'[j] # paid
               PROVE  user2'[j] = user2[j] /\ NotThe(w, user2[j])
    BY DEF Follows
  <2>1. user2'[j] = user2[j]
    BY <1>1
  <2> SUFFICES ASSUME w \notin unlucky', user2[j] # None, user2[j].name = w
               PROVE  FALSE
    BY <2>1 DEF NotThe
  <2>2. client[second[j]] = w /\ w \notin unlucky
    BY <1>3, <1>4, <1>13, LuckyHome
  <2>3. second[j] \in Slot
    BY <1>13 DEF Tasks, SecondPending
  <2>4. second[j] = h
    BY <1>2, <1>3, <1>7, <2>2, <2>3, LuckyHome
  <2>5. j = i
    BY <1>7, <1>13, <2>4
  <2>. QED
    BY <1>7, <2>4, <2>5
<1> HIDE DEF w, paid, h
<1>14. UNCHANGED <<user, fighter, loaded, late>>
  BY <1>1
<1>15. \A s \in Slot : Follows(w, paid, fighter[s], fighter'[s])
  BY <1>9, <1>14 DEF Follows
<1>16. Save(paid, xp)
  BY DEF paid
<1>. QED
  BY <1>3, <1>5, <1>6, <1>8, <1>10, <1>11, <1>12, <1>13, <1>14, <1>15, <1>16,
     GainKeepsTruth
\* ... and no other step separates them.
LEMMA TruthPreserved ==
  ASSUME TypeOK, Logins, Threads, Tasks, Homes, Exclusion, Truth, [Next]_vars
  PROVE  Truth'
<1> USE DEF TypeOK, Tasks, InLogin, InFight, InRequest
<1>1. ASSUME NEW s \in Slot, Connect(s)
      PROVE  Truth'
  <2>1. /\ UNCHANGED <<row, earned, fighter, user, loaded, late, user1, user2>>
        /\ unlucky \subseteq unlucky'
    BY <1>1 DEF Connect
  <2>2. \A x \in Slot : Owed(x) => Owed(x)'
    BY <1>1 DEF Connect, Owed
  <2>3. \A j \in FightId : /\ FirstPending(j)' => FirstPending(j)
                           /\ SecondPending(j)' => SecondPending(j)
    BY <1>1 DEF Connect, FirstPending, SecondPending
  <2> HIDE DEF TypeOK, Tasks
  <2>. QED
    BY <2>1, <2>2, <2>3, TruthKept
<1>2. ASSUME NEW s \in Slot, Leave(s)
      PROVE  Truth'
  <2>1. /\ UNCHANGED <<row, earned, fighter, loaded, late, duel, pc>> /\ unlucky \subseteq unlucky'
        /\ user'[s] = None /\ \A x \in Slot : x # s => user'[x] = user[x]
    BY <1>2 DEF Leave
  <2>2. \A x \in Slot : Owed(x) => Owed(x)'
    BY <2>1 DEF Owed
  <2>3. \A j \in FightId : /\ FirstPending(j)' => FirstPending(j)
                           /\ SecondPending(j)' => SecondPending(j)
    BY <2>1 DEF FirstPending, SecondPending
  <2>4. \A x \in Slot : user'[x] = user[x] \/ Exact(user[x])'
    BY <2>1 DEF Exact
  <2> HIDE DEF TypeOK, Tasks
  <2>. QED
    BY <2>1, <2>2, <2>3, <2>4, TruthKept
<1>3. ASSUME NEW s \in Slot, BeginMapFight(s)
      PROVE  Truth'
  <2>1. /\ UNCHANGED <<row, earned, unlucky, user, loaded, late, duel>>
        /\ fighter'[s] = user[s] /\ \A x \in Slot : x # s => fighter'[x] = fighter[x]
        /\ user[s] \in Record /\ ~fighting[s] /\ pc[s] = "idle"
    BY <1>3 DEF BeginMapFight, MayFight
  <2>2. \A x \in Slot : Owed(x) => Owed(x)'
    BY <1>3 DEF BeginMapFight, Owed
  <2>3. \A j \in FightId : /\ FirstPending(j)' => FirstPending(j)
                           /\ SecondPending(j)' => SecondPending(j)
    BY <2>1 DEF FirstPending, SecondPending
  <2> HIDE DEF TypeOK, Tasks
  <2>4. Exact(user[s])
    <3>1. CASE user[s].name \in unlucky
      BY <3>1 DEF Exact
    <3>2. CASE user[s].name \notin unlucky
      <4>1. user[s].name \in User
        BY <2>1
      <4>2. Safe(s)
        BY <2>1, <3>2, <4>1, LuckyHome
      <4>3. PointAt(s) = {}
        BY <2>1, <4>2 DEF Exclusion, Busy
      <4>. QED
        BY <2>1, <4>3, NothingOwed
    <3>. QED
      BY <3>1, <3>2
  <2>5. \A x \in Slot : fighter'[x] = fighter[x] \/ Exact(fighter[x])'
    BY <2>1, <2>4 DEF Exact
  <2>. QED
    BY <2>1, <2>2, <2>3, <2>5, TruthKept
<1>4. ASSUME NEW s \in Slot, CreateRoom(s)
      PROVE  Truth'
  <2>1. /\ UNCHANGED <<row, earned, fighter, user, loaded, late, user1, user2>>
        /\ unlucky \subseteq unlucky'
    BY <1>4 DEF CreateRoom
  <2>2. \A x \in Slot : Owed(x) => Owed(x)'
    BY <1>4 DEF CreateRoom, Owed
  <2>3. \A j \in FightId : /\ FirstPending(j)' => FirstPending(j)
                           /\ SecondPending(j)' => SecondPending(j)
    BY <1>4 DEF CreateRoom, FirstPending, SecondPending
  <2> HIDE DEF TypeOK, Tasks
  <2>. QED
    BY <2>1, <2>2, <2>3, TruthKept
<1>5. ASSUME NEW s \in Slot, NEW u \in User, LoginRead(s, u)
      PROVE  Truth'
  <2>1. /\ UNCHANGED <<row, earned, fighter, user, duel>> /\ unlucky \subseteq unlucky'
        /\ \A x \in Slot : x # s => loaded'[x] = loaded[x]
        /\ \A x \in Slot : x # s /\ x \in late => x \in late'
    BY <1>5 DEF LoginRead
  <2>2. \A x \in Slot : Owed(x) => Owed(x)'
    BY <1>5 DEF LoginRead, Owed
  <2>3. \A j \in FightId : /\ FirstPending(j)' => FirstPending(j)
                           /\ SecondPending(j)' => SecondPending(j)
    BY <2>1 DEF FirstPending, SecondPending
  <2>4. Exact(loaded[s])'
    BY <1>5 DEF LoginRead, Truth, Exact
  <2> HIDE DEF TypeOK, Tasks
  <2>. QED
    BY <2>1, <2>2, <2>3, <2>4, TruthKept
<1>6. ASSUME NEW s \in Slot, NEW t \in Slot, Join(s, t)
      PROVE  Truth'
  <2>1. /\ UNCHANGED <<row, earned, fighter, user, loaded, late, user1, user2>>
        /\ unlucky \subseteq unlucky'
    BY <1>6 DEF Join
  <2>2. \A x \in Slot : Owed(x) => Owed(x)'
    BY <1>6 DEF Join, Owed
  <2>3. \A j \in FightId : /\ FirstPending(j)' => FirstPending(j)
                           /\ SecondPending(j)' => SecondPending(j)
    BY <1>6 DEF Join, FirstPending, SecondPending
  <2> HIDE DEF TypeOK, Tasks
  <2>. QED
    BY <2>1, <2>2, <2>3, TruthKept
<1>7. ASSUME NEW s \in Slot, NEW t \in Slot, Refuse(s, t)
      PROVE  Truth'
  <2>1. /\ UNCHANGED <<row, earned, fighter, user, loaded, late, user1, user2>>
        /\ unlucky \subseteq unlucky'
    BY <1>7 DEF Refuse
  <2>2. \A x \in Slot : Owed(x) => Owed(x)'
    BY <1>7 DEF Refuse, Owed
  <2>3. \A j \in FightId : /\ FirstPending(j)' => FirstPending(j)
                           /\ SecondPending(j)' => SecondPending(j)
    BY <1>7 DEF Refuse, FirstPending, SecondPending
  <2> HIDE DEF TypeOK, Tasks
  <2>. QED
    BY <2>1, <2>2, <2>3, TruthKept
<1>8. ASSUME NEW s \in Slot, NEW t \in Slot, Cancel(s, t)
      PROVE  Truth'
  <2>1. /\ UNCHANGED <<row, earned, fighter, user, loaded, late, user1, user2>>
        /\ unlucky \subseteq unlucky'
    BY <1>8 DEF Cancel
  <2>2. \A x \in Slot : Owed(x) => Owed(x)'
    BY <1>8 DEF Cancel, Owed
  <2>3. \A j \in FightId : /\ FirstPending(j)' => FirstPending(j)
                           /\ SecondPending(j)' => SecondPending(j)
    BY <1>8 DEF Cancel, FirstPending, SecondPending
  <2> HIDE DEF TypeOK, Tasks
  <2>. QED
    BY <2>1, <2>2, <2>3, TruthKept
<1>9. ASSUME NEW s \in Slot, LoginCheck(s)
      PROVE  Truth'
  <2>1. /\ UNCHANGED <<row, earned, fighter, user, duel>> /\ unlucky \subseteq unlucky'
        /\ \A x \in Slot : x # s => loaded'[x] = loaded[x]
        /\ \A x \in Slot : x # s /\ x \in late => x \in late'
    BY <1>9 DEF LoginCheck
  <2>2. \A x \in Slot : Owed(x) => Owed(x)'
    BY <1>9 DEF LoginCheck, Owed
  <2>3. \A j \in FightId : /\ FirstPending(j)' => FirstPending(j)
                           /\ SecondPending(j)' => SecondPending(j)
    BY <2>1 DEF FirstPending, SecondPending
  <2>4. (loaded'[s] = loaded[s] /\ (s \in late => s \in late')) \/ Exact(loaded[s])'
    BY <1>9 DEF LoginCheck, Exact
  <2> HIDE DEF TypeOK, Tasks
  <2>. QED
    BY <2>1, <2>2, <2>3, <2>4, TruthKept
<1>10. ASSUME NEW s \in Slot, LoginSet(s)
      PROVE  Truth'
  <2>1. /\ UNCHANGED <<row, earned, fighter, duel>> /\ unlucky \subseteq unlucky'
        /\ loaded[s] \in Record /\ loaded'[s] = None
        /\ user'[s] = loaded[s] /\ \A x \in Slot : x # s => user'[x] = user[x]
        /\ \A x \in Slot : x # s => loaded'[x] = loaded[x]
        /\ \A x \in Slot : x # s /\ x \in late => x \in late'
        /\ s \in late => loaded[s].name \in unlucky'
    BY <1>10 DEF LoginSet, Threads
  <2>2. \A x \in Slot : Owed(x) => Owed(x)'
    BY <1>10 DEF LoginSet, Owed
  <2>3. \A j \in FightId : /\ FirstPending(j)' => FirstPending(j)
                           /\ SecondPending(j)' => SecondPending(j)
    BY <2>1 DEF FirstPending, SecondPending
  <2>4. Exact(loaded[s])' /\ Exact(user[s])'
    BY <2>1 DEF Truth, Exact
  <2> HIDE DEF TypeOK, Tasks
  <2>. QED
    BY <2>1, <2>2, <2>3, <2>4, TruthKept
<1>11. ASSUME NEW s \in Slot, FindSession(s)
      PROVE  Truth'
  <2>1. /\ UNCHANGED <<row, earned, fighter, user, loaded, late, user1, user2>>
        /\ unlucky \subseteq unlucky'
    BY <1>11 DEF FindSession
  <2>2. \A x \in Slot : Owed(x) => Owed(x)'
    BY <1>11 DEF FindSession, Owed
  <2>3. \A j \in FightId : /\ FirstPending(j)' => FirstPending(j)
                           /\ SecondPending(j)' => SecondPending(j)
    BY <1>11 DEF FindSession, FirstPending, SecondPending
  <2> HIDE DEF TypeOK, Tasks
  <2>. QED
    BY <2>1, <2>2, <2>3, TruthKept
<1>12. ASSUME NEW s \in Slot, WinMapFight(s)
      PROVE  Truth'
  <2> DEFINE w    == fighter[s].name
             paid == fighter'[s]
  <2>1. /\ UNCHANGED <<sessions, loaded, duel, client, late, found>>
        /\ pc[s] = "ended" /\ pc' = [pc EXCEPT ![s] = "saved"]
        /\ \A x \in Slot : x # s => fighter'[x] = fighter[x]
        /\ fighter[s] \in Record /\ paid \in Record
        /\ paid.name = w /\ paid.points = fighter[s].points + XP_PER_MONSTER_LEVEL
        /\ w \in User /\ Save(paid, XP_PER_MONSTER_LEVEL)
    BY <1>12 DEF WinMapFight, Threads
  <2>2. \A x \in Slot : (Owed(x) => Owed(x)') /\ Owed(s)'
    BY <2>1 DEF Owed
  <2>3. \A j \in FightId : /\ FirstPending(j)' <=> FirstPending(j)
                           /\ SecondPending(j)' <=> SecondPending(j)
    BY <2>1 DEF FirstPending, SecondPending
  <2>4. \A j \in FightId : FirstPending(j) => first[j] \in Slot /\ user1[j] \in Record
    BY DEF FirstPending
  <2>5. \A j \in FightId : SecondPending(j) => second[j] \in Slot /\ user2[j] \in Record
    BY DEF SecondPending
  <2>6. XP_PER_MONSTER_LEVEL \in Nat /\ Own(s)
    BY <2>1 DEF Own
  <2> HIDE DEF TypeOK, Tasks, w, paid
  <2>7. unlucky \subseteq unlucky'
    BY <2>1, <2>6, SaveEffect
  <2>8. w \in unlucky' \/ paid.points = earned[w] + XP_PER_MONSTER_LEVEL
    <3>1. Exact(fighter[s])
      BY DEF Truth
    <3>. QED
      BY <2>1, <2>7, <3>1 DEF Exact, w, TypeOK
  <2>9. ASSUME w \notin unlucky'
        PROVE  /\ w \notin unlucky /\ client[s] = w
               /\ \A x \in Slot : client[x] = w => x = s
               /\ PointAt(s) = {}
    <3>1. w \notin unlucky
      BY <2>7, <2>9
    <3>2. client[s] = w
      BY <2>1, <3>1, LuckyHome DEF w
    <3>3. Safe(s) /\ \A x \in Slot : client[x] = w => x = s
      BY <2>1, <3>1, <3>2, LuckyHome
    <3>4. PointAt(s) = {}
      BY <2>6, <3>3 DEF Exclusion, OneHolder
    <3>. QED
      BY <3>1, <3>2, <3>3, <3>4
  <2>10. ASSUME NEW x \in Slot
         PROVE  NotThe(w, fighter[x]) \/ x = s
    BY <2>1, <2>9, LuckyHome DEF NotThe
  <2>11. ASSUME NEW x \in Slot
         PROVE  NotThe(w, user[x]) \/ Owed(x)'
    BY <2>1, <2>2, <2>9, LuckyHome DEF NotThe
  <2>12. ASSUME NEW x \in Slot
         PROVE  x \in late \/ NotThe(w, loaded[x])
    BY <2>1, <2>9, LuckyThreads DEF NotThe
  <2>13. ASSUME NEW j \in FightId, FirstPending(j)
         PROVE  NotThe(w, user1[j])
    <3>1. first[j] = s => j \in PointAt(s)
      BY <2>13 DEF FirstPending, PointAt
    <3>. QED
      BY <2>1, <2>4, <2>9, <2>13, <3>1, LuckyHome DEF NotThe
  <2>14. ASSUME NEW j \in FightId, SecondPending(j)
         PROVE  NotThe(w, user2[j])
    <3>1. second[j] = s => j \in PointAt(s)
      BY <2>14 DEF SecondPending, PointAt
    <3>. QED
      BY <2>1, <2>5, <2>9, <2>14, <3>1, LuckyHome DEF NotThe
  <2>15. \A x \in Slot : Follows(w, paid, fighter[x], fighter'[x])
    BY <2>1, <2>10 DEF Follows, paid
  <2>16. /\ \A j \in FightId : FirstPending(j)' =>
              FirstPending(j) /\ Follows(w, paid, user1[j], user1'[j])
         /\ \A j \in FightId : SecondPending(j)' =>
              SecondPending(j) /\ Follows(w, paid, user2[j], user2'[j])
    BY <2>1, <2>3, <2>13, <2>14 DEF Follows
  <2>. QED
    BY <2>1, <2>2, <2>6, <2>8, <2>11, <2>12, <2>15, <2>16, GainKeepsTruth
<1>13. ASSUME NEW s \in Slot, LoseMapFight(s)
      PROVE  Truth'
  <2>1. /\ UNCHANGED <<row, earned, fighter, user, loaded, late, user1, user2>>
        /\ unlucky \subseteq unlucky'
    BY <1>13 DEF LoseMapFight
  <2>2. \A x \in Slot : Owed(x) => Owed(x)'
    BY <1>13 DEF LoseMapFight, Owed
  <2>3. \A j \in FightId : /\ FirstPending(j)' => FirstPending(j)
                           /\ SecondPending(j)' => SecondPending(j)
    BY <1>13 DEF LoseMapFight, FirstPending, SecondPending
  <2> HIDE DEF TypeOK, Tasks
  <2>. QED
    BY <2>1, <2>2, <2>3, TruthKept
<1>14. ASSUME NEW s \in Slot, EndMapFight(s)
      PROVE  Truth'
  <2>1. /\ UNCHANGED <<row, earned, unlucky, loaded, late, duel>>
        /\ fighter'[s] = None /\ \A x \in Slot : x # s => fighter'[x] = fighter[x]
        /\ pc[s] = "saved" /\ fighter[s] \in Record /\ user[s] \in Record
        /\ pc' = [pc EXCEPT ![s] = "idle"]
        /\ \/ found[s] # s /\ UNCHANGED user
           \/ found[s] \in Slot /\ user' = [user EXCEPT ![found[s]] = fighter[s]]
    BY <1>14 DEF EndMapFight, Threads
  <2>2. \A x \in Slot : x # s => (Owed(x) => Owed(x)')
    BY <2>1 DEF Owed
  <2>3. \A j \in FightId : /\ FirstPending(j)' => FirstPending(j)
                           /\ SecondPending(j)' => SecondPending(j)
    BY <2>1 DEF FirstPending, SecondPending
  <2>4. Exact(fighter[s])
    BY DEF Truth
  <2>5. \A x \in Slot : user'[x] = user[x] \/ Exact(user[x])'
    BY <2>1, <2>4 DEF Exact
  <2> HIDE DEF Tasks
  <2>6. Exact(user[s])'
    <3>1. CASE found[s] = s
      BY <2>1, <2>4, <3>1 DEF Exact
    <3>2. CASE found[s] # s
      <4> SUFFICES ASSUME user[s].name \notin unlucky
                   PROVE  FALSE
        BY <2>1, <2>5 DEF Exact
      <4>1. client[s] = user[s].name /\ Safe(s) /\ user[s].name \in User
        BY <2>1, LuckyHome
      <4>2. fighter[s].name = client[s]
        BY <2>1, <4>1 DEF Homes, Home, Safe, Gone
      <4>. QED
        BY <2>1, <3>2, <4>1, <4>2, LuckyThreads
    <3>. QED
      BY <3>1, <3>2
  <2>7. \A x \in Slot : fighter'[x] = fighter[x] \/ Exact(fighter[x])'
    BY <2>1 DEF Exact
  <2>8. \A x \in Slot : (user'[x] = user[x] /\ (Owed(x) => Owed(x)')) \/ Exact(user[x])'
    BY <2>2, <2>5, <2>6
  <2> HIDE DEF TypeOK
  <2>. QED
    BY <2>1, <2>3, <2>7, <2>8, TruthKept
<1>15. ASSUME NEW s \in Slot, RemoveRoom(s)
      PROVE  Truth'
  <2>1. /\ UNCHANGED <<row, earned, fighter, user, loaded, late, user1, user2>>
        /\ unlucky \subseteq unlucky'
    BY <1>15 DEF RemoveRoom
  <2>2. \A x \in Slot : Owed(x) => Owed(x)'
    BY <1>15 DEF RemoveRoom, Owed
  <2>3. \A j \in FightId : /\ FirstPending(j)' => FirstPending(j)
                           /\ SecondPending(j)' => SecondPending(j)
    BY <1>15 DEF RemoveRoom, FirstPending, SecondPending
  <2> HIDE DEF TypeOK, Tasks
  <2>. QED
    BY <2>1, <2>2, <2>3, TruthKept
<1>16. ASSUME NEW s \in Slot, NEW i \in FightId, StartFight(i, s)
      PROVE  Truth'
  <2>1. /\ UNCHANGED <<row, earned, unlucky, user, fighter, loaded, late>>
        /\ pc[s] = "joined" /\ room[s] \in Slot /\ Started(i, s, room[s])
        /\ user[s] \in Record /\ user[room[s]] \in Record
        /\ pc' = [pc EXCEPT ![s] = "idle"]
    BY <1>16, StartEffect
  <2>2. \A x \in Slot : Owed(x) => Owed(x)'
    <3>1. \A j \in FightId : stage[j] # "unused" =>
            first'[j] = first[j] /\ second'[j] = second[j] /\ stage'[j] = stage[j]
      BY <2>1 DEF Started
    <3>2. pc[s] # "saved" /\ \A x \in Slot : x # s => pc'[x] = pc[x]
      BY <2>1
    <3> HIDE DEF TypeOK, Tasks
    <3>. QED
      BY <3>1, <3>2 DEF Owed
  <2>3. \A j \in FightId : j # i =>
          /\ FirstPending(j)' => FirstPending(j) /\ user1'[j] = user1[j]
          /\ SecondPending(j)' => SecondPending(j) /\ user2'[j] = user2[j]
    BY <2>1 DEF Started, FirstPending, SecondPending
  <2>4. s \in Takers(room[s]) /\ Own(s)
    BY <2>1 DEF Takers, Own
  <2> HIDE DEF TypeOK, Tasks
  <2>5. ASSUME NEW x \in {s, room[s]}
        PROVE  Exact(user[x])
    <3>1. CASE user[x].name \in unlucky
      BY <3>1 DEF Exact
    <3>2. CASE user[x].name \notin unlucky
      <4>1. x \in Slot /\ user[x] \in Record /\ user[x].name \in User
        BY <2>1
      <4>2. OneHolder(x)
        BY <3>2, <4>1, LuckyHome DEF Exclusion
      <4>3. CASE x = s
        <5>1. PointAt(x) = {} /\ pc[x] # "saved"
          BY <2>1, <2>4, <4>2, <4>3 DEF OneHolder
        <5>. QED
          BY <4>1, <5>1, NothingOwed
      <4>4. CASE x = room[s]
        <5>1. PointAt(x) = {} /\ pc[x] # "saved"
          BY <2>4, <4>2, <4>4 DEF OneHolder, Own
        <5>. QED
          BY <4>1, <5>1, NothingOwed
      <4>. QED
        BY <4>3, <4>4
    <3>. QED
      BY <3>1, <3>2
  <2>6. Exact(user1[i])' /\ Exact(user2[i])'
    <3>1. PICK a, b \in {s, room[s]} : user1'[i] = user[a] /\ user2'[i] = user[b]
      BY <2>1 DEF Started
    <3>2. Exact(user[a]) /\ Exact(user[b])
      BY <2>5
    <3>. QED
      BY <2>1, <3>1, <3>2 DEF Exact
  <2>. QED
    BY <2>1, <2>2, <2>3, <2>6, TruthKept
<1>17. ASSUME NEW s \in Slot, JoinFails(s)
      PROVE  Truth'
  <2>1. /\ UNCHANGED <<row, earned, fighter, user, loaded, late, user1, user2>>
        /\ unlucky \subseteq unlucky'
    BY <1>17 DEF JoinFails
  <2>2. \A x \in Slot : Owed(x) => Owed(x)'
    BY <1>17 DEF JoinFails, Owed
  <2>3. \A j \in FightId : /\ FirstPending(j)' => FirstPending(j)
                           /\ SecondPending(j)' => SecondPending(j)
    BY <1>17 DEF JoinFails, FirstPending, SecondPending
  <2> HIDE DEF TypeOK, Tasks
  <2>. QED
    BY <2>1, <2>2, <2>3, TruthKept
<1>18. ASSUME NEW s \in Slot, RefuseDone(s)
      PROVE  Truth'
  <2>1. /\ UNCHANGED <<row, earned, fighter, user, loaded, late, user1, user2>>
        /\ unlucky \subseteq unlucky'
    BY <1>18 DEF RefuseDone
  <2>2. \A x \in Slot : Owed(x) => Owed(x)'
    BY <1>18 DEF RefuseDone, Owed
  <2>3. \A j \in FightId : /\ FirstPending(j)' => FirstPending(j)
                           /\ SecondPending(j)' => SecondPending(j)
    BY <1>18 DEF RefuseDone, FirstPending, SecondPending
  <2> HIDE DEF TypeOK, Tasks
  <2>. QED
    BY <2>1, <2>2, <2>3, TruthKept
<1>19. ASSUME NEW s \in Slot, CancelDone(s)
      PROVE  Truth'
  <2>1. /\ UNCHANGED <<row, earned, fighter, user, loaded, late, user1, user2>>
        /\ unlucky \subseteq unlucky'
    BY <1>19 DEF CancelDone
  <2>2. \A x \in Slot : Owed(x) => Owed(x)'
    BY <1>19 DEF CancelDone, Owed
  <2>3. \A j \in FightId : /\ FirstPending(j)' => FirstPending(j)
                           /\ SecondPending(j)' => SecondPending(j)
    BY <1>19 DEF CancelDone, FirstPending, SecondPending
  <2> HIDE DEF TypeOK, Tasks
  <2>. QED
    BY <2>1, <2>2, <2>3, TruthKept
<1>20. ASSUME NEW s \in Slot, NullUser(s)
      PROVE  Truth'
  <2>1. /\ UNCHANGED <<row, earned, fighter, user, loaded, late, user1, user2>>
        /\ unlucky \subseteq unlucky'
    BY <1>20 DEF NullUser
  <2>2. \A x \in Slot : Owed(x) => Owed(x)'
    BY <1>20 DEF NullUser, Owed
  <2>3. \A j \in FightId : /\ FirstPending(j)' => FirstPending(j)
                           /\ SecondPending(j)' => SecondPending(j)
    BY <1>20 DEF NullUser, FirstPending, SecondPending
  <2> HIDE DEF TypeOK, Tasks
  <2>. QED
    BY <2>1, <2>2, <2>3, TruthKept
<1>21. ASSUME NEW i \in FightId, BeginFight(i)
      PROVE  Truth'
  <2>1. /\ UNCHANGED <<row, earned, fighter, user, loaded, late, user1, user2>>
        /\ unlucky \subseteq unlucky'
    BY <1>21 DEF BeginFight
  <2>2. \A x \in Slot : Owed(x) => Owed(x)'
    BY <1>21 DEF BeginFight, Owed
  <2>3. \A j \in FightId : /\ FirstPending(j)' => FirstPending(j)
                           /\ SecondPending(j)' => SecondPending(j)
    BY <1>21 DEF BeginFight, FirstPending, SecondPending
  <2> HIDE DEF TypeOK, Tasks
  <2>. QED
    BY <2>1, <2>2, <2>3, TruthKept
<1>22. ASSUME NEW i \in FightId, GiveUp(i)
      PROVE  Truth'
  <2>1. /\ UNCHANGED <<row, earned, fighter, user, loaded, late, user1, user2>>
        /\ unlucky \subseteq unlucky'
    BY <1>22 DEF GiveUp
  <2>2. \A x \in Slot : Owed(x) => Owed(x)'
    BY <1>22 DEF GiveUp, Owed
  <2>3. \A j \in FightId : /\ FirstPending(j)' => FirstPending(j)
                           /\ SecondPending(j)' => SecondPending(j)
    BY <1>22 DEF GiveUp, FirstPending, SecondPending
  <2> HIDE DEF TypeOK, Tasks
  <2>. QED
    BY <2>1, <2>2, <2>3, TruthKept
<1>23. ASSUME NEW i \in FightId, Pay(i)
      PROVE  Truth'
  <2>1. PICK xp \in Nat :
          \/ Gains(user1[i], user1'[i], xp) /\ user2'[i] = user2[i] /\ Save(user1'[i], xp)
          \/ Gains(user2[i], user2'[i], xp) /\ user1'[i] = user1[i] /\ Save(user2'[i], xp)
    BY <1>23, PayEffect
  <2> HIDE DEF TypeOK, Tasks
  <2>. QED
    BY <1>23, <2>1, PayFirstKeepsTruth, PaySecondKeepsTruth
<1>24. ASSUME NEW i \in FightId, WriteFirst(i)
      PROVE  Truth'
  <2>1. /\ UNCHANGED <<row, earned, unlucky, fighter, loaded, late, user1, user2, pc, first, second>>
        /\ first[i] \in Slot /\ stage[i] = "write1" /\ stage'[i] \in {"clear1", "write2"}
        /\ \A j \in FightId : j # i => stage'[j] = stage[j]
        /\ \A x \in Slot : x # first[i] => user'[x] = user[x]
        /\ user'[first[i]] \in {None, user1[i]}
    BY <1>24, WriteFirstEffect DEF Logins
  <2>2. \A x \in Slot : x # first[i] => (Owed(x) => Owed(x)')
    BY <2>1 DEF Owed
  <2>3. \A j \in FightId : /\ FirstPending(j)' => FirstPending(j)
                           /\ SecondPending(j)' => SecondPending(j)
    BY <2>1 DEF FirstPending, SecondPending
  <2> HIDE DEF TypeOK, Tasks
  <2>4. Exact(user1[i])
    BY <2>1 DEF Truth, FirstPending
  <2>5. ASSUME NEW x \in Slot, x = first[i]
        PROVE  Exact(user[x])'
    BY <2>1, <2>4, <2>5 DEF Exact
  <2>6. \A x \in Slot : (user'[x] = user[x] /\ (Owed(x) => Owed(x)')) \/ Exact(user[x])'
    BY <2>1, <2>2, <2>5
  <2>. QED
    BY <2>1, <2>3, <2>6, TruthKept
<1>25. ASSUME NEW i \in FightId, FreeFirst(i)
      PROVE  Truth'
  <2>1. /\ UNCHANGED <<row, earned, fighter, user, loaded, late, user1, user2>>
        /\ unlucky \subseteq unlucky'
    BY <1>25 DEF FreeFirst
  <2>2. \A x \in Slot : Owed(x) => Owed(x)'
    BY <1>25 DEF FreeFirst, Owed
  <2>3. \A j \in FightId : /\ FirstPending(j)' => FirstPending(j)
                           /\ SecondPending(j)' => SecondPending(j)
    BY <1>25 DEF FreeFirst, FirstPending, SecondPending
  <2> HIDE DEF TypeOK, Tasks
  <2>. QED
    BY <2>1, <2>2, <2>3, TruthKept
<1>26. ASSUME NEW i \in FightId, WriteSecond(i)
      PROVE  Truth'
  <2>1. /\ UNCHANGED <<row, earned, unlucky, fighter, loaded, late, pc>>
        /\ second[i] \in Slot /\ stage[i] = "write2" /\ stage'[i] \in {"free2", "unused"}
        /\ \A j \in FightId : j # i => stage'[j] = stage[j] /\ first'[j] = first[j]
                               /\ second'[j] = second[j] /\ user1'[j] = user1[j]
                               /\ user2'[j] = user2[j]
        /\ stage'[i] = "free2" => user2'[i] = user2[i]
        /\ \A x \in Slot : x # second[i] => user'[x] = user[x]
        /\ user'[second[i]] \in {None, user2[i]}
    BY <1>26, WriteSecondEffect, DeleteEffect DEF Logins
  <2>2. ASSUME NEW x \in Slot, x # second[i], Owed(x)
        PROVE  Owed(x)'
    <3> HIDE DEF TypeOK, Tasks
    <3>1. CASE pc[x] = "saved"
      BY <2>1, <3>1 DEF Owed
    <3>2. ASSUME NEW j \in FightId, first[j] = x, stage[j] = "write1"
          PROVE  Owed(x)'
      BY <2>1, <3>2 DEF Owed
    <3>3. ASSUME NEW j \in FightId, second[j] = x, stage[j] \in {"write1", "clear1", "write2"}
          PROVE  Owed(x)'
      <4>1. j # i
        BY <2>2, <3>3
      <4>. QED
        BY <2>1, <3>3, <4>1 DEF Owed
    <3>. QED
      BY <2>2, <3>1, <3>2, <3>3 DEF Owed
  <2>3. \A j \in FightId :
          /\ FirstPending(j)' => FirstPending(j) /\ user1'[j] = user1[j]
          /\ SecondPending(j)' => SecondPending(j) /\ user2'[j] = user2[j]
    BY <2>1 DEF FirstPending, SecondPending
  <2> HIDE DEF TypeOK, Tasks
  <2>4. Exact(user2[i])
    BY <2>1 DEF Truth, SecondPending
  <2>5. ASSUME NEW x \in Slot, x = second[i]
        PROVE  (user'[x] = user[x] /\ (Owed(x) => Owed(x)')) \/ Exact(user[x])'
    BY <2>1, <2>4, <2>5 DEF Exact
  <2>6. \A x \in Slot : (user'[x] = user[x] /\ (Owed(x) => Owed(x)')) \/ Exact(user[x])'
    BY <2>1, <2>2, <2>5
  <2>. QED
    BY <2>1, <2>3, <2>6, TruthKept
<1>27. ASSUME NEW i \in FightId, FreeSecond(i)
      PROVE  Truth'
  <2>1. /\ UNCHANGED <<row, earned, unlucky, fighter, user, loaded, late, pc>>
        /\ stage[i] = "free2" /\ stage'[i] = "unused"
        /\ \A j \in FightId : j # i => stage'[j] = stage[j] /\ first'[j] = first[j]
                               /\ second'[j] = second[j] /\ user1'[j] = user1[j]
                               /\ user2'[j] = user2[j]
    BY <1>27, DeleteEffect DEF FreeSecond
  <2>2. \A x \in Slot : Owed(x) => Owed(x)'
    BY <2>1 DEF Owed
  <2>3. \A j \in FightId :
          /\ FirstPending(j)' => FirstPending(j) /\ user1'[j] = user1[j]
          /\ SecondPending(j)' => SecondPending(j) /\ user2'[j] = user2[j]
    BY <2>1 DEF FirstPending, SecondPending
  <2> HIDE DEF TypeOK, Tasks
  <2>. QED
    BY <2>1, <2>2, <2>3, TruthKept
<1>28. ASSUME NEW i \in FightId,
             NEW strikes \in BOOLEAN, NEW back \in BOOLEAN, Round(i, strikes, back)
      PROVE  Truth'
  <2>1. /\ UNCHANGED <<row, earned, fighter, user, loaded, late, user1, user2>>
        /\ unlucky \subseteq unlucky'
    BY <1>28 DEF Round
  <2>2. \A x \in Slot : Owed(x) => Owed(x)'
    BY <1>28 DEF Round, Owed
  <2>3. \A j \in FightId : /\ FirstPending(j)' => FirstPending(j)
                           /\ SecondPending(j)' => SecondPending(j)
    BY <1>28 DEF Round, FirstPending, SecondPending
  <2> HIDE DEF TypeOK, Tasks
  <2>. QED
    BY <2>1, <2>2, <2>3, TruthKept
<1>29. CASE UNCHANGED vars
  BY <1>29 DEF Truth, Exact, Owed, FirstPending, SecondPending, vars, threads, sessions, duel, history, luck
<1> HIDE DEF TypeOK, Tasks, InLogin, InFight, InRequest
<1>30. ASSUME NEW s \in Slot, Client(s)
       PROVE  Truth'
  BY <1>1, <1>2, <1>3, <1>4, <1>5, <1>6, <1>7, <1>8, <1>30 DEF Client
<1>31. ASSUME NEW s \in Slot, Serve(s)
       PROVE  Truth'
  BY <1>9, <1>10, <1>11, <1>12, <1>13, <1>14, <1>15, <1>16, <1>17, <1>18, <1>19, <1>20,
     <1>31 DEF Serve
<1>32. ASSUME NEW i \in FightId, Run(i)
       PROVE  Truth'
  BY <1>21, <1>22, <1>23, <1>24, <1>25, <1>26, <1>27, <1>28, <1>32 DEF Run
<1>. QED
  BY <1>29, <1>30, <1>31, <1>32 DEF Next

\* The invariant holds at first ...
LEMMA InitEstablishes == Init => IInv
<1> SUFFICES ASSUME Init PROVE IInv
  OBVIOUS
<1> USE DEF Init
<1>1. TypeOK
  <2>1. /\ hp1 \in [FightId -> 0..HP] /\ hp2 \in [FightId -> 0..HP]
        /\ row \in [User -> Nat] /\ earned \in [User -> Nat]
    OBVIOUS
  <2>2. {haunted, late} \subseteq SUBSET Slot /\ unlucky \in SUBSET User /\ rooms \in SUBSET Slot
    OBVIOUS
  <2>3. pc \in [Slot -> PC] /\ stage \in [FightId -> Stage]
    BY DEF PC, Stage
  <2>. QED
    BY <2>1, <2>2, <2>3 DEF TypeOK
<1>2. Logins
  BY DEF Logins
<1>3. Threads
  BY DEF Threads, InLogin, InFight, InRequest
<1>4. Tasks /\ Rooms
  BY DEF Tasks, Rooms, Sought
<1>5. Copies
  BY DEF Copies, Fair
<1>6. Homes
  BY DEF Homes, FirstPending, SecondPending
<1>7. Exclusion
  BY DEF Exclusion, Safe, Gone
<1>8. Truth
  BY DEF Truth, Exact, FirstPending, SecondPending
<1>. QED
  BY <1>1, <1>2, <1>3, <1>4, <1>5, <1>6, <1>7, <1>8 DEF IInv

\* ... and is kept by every step.
LEMMA StepPreserves == IInv /\ [Next]_vars => IInv'
BY TypePreserved, LoginsPreserved, ThreadsPreserved, TasksPreserved, RoomsPreserved,
   CopiesPreserved, HomesPreserved, ExclusionPreserved, TruthPreserved DEF IInv

(* The inductive invariant holds: registry, sessions, the locals of the      *)
(* handlers, the copies that fights hold and the rows of the database agree  *)
(* (websocketSession.h, requestHanlder.h, mapFight.h, UserFight.h).          *)
THEOREM Invariance == Spec => []IInv
BY InitEstablishes, StepPreserves, PTL DEF Spec

(* No point is in the database or a session that was not won               *)
(* (UserFight.h:23-61, mapFight.h:24-60).                                  *)
THEOREM Unearned == Spec => []NothingUnearned
<1>1. IInv => NothingUnearned
  BY DEF IInv, Copies, Fair, NothingUnearned
<1>. QED
  BY <1>1, Invariance, PTL

(* Every user but the unlucky ones has all points won, in the database and, *)
(* between fights, in the session, whatever falls between the steps of a    *)
(* login or of an answer to a challenge (UserFight.h:34-60, mapFight.h:47-60, *)
(* requestHanlder.h:34-50, fightManage.h:135-170).                          *)
THEOREM Lossless == Spec => []NothingLost
<1>1. IInv => NothingLost
  <2> SUFFICES ASSUME IInv, NEW u \in User, u \notin unlucky
               PROVE  /\ row[u] = earned[u]
                      /\ \A s \in Slot : open[s] /\ ~fighting[s] /\ user[s] # None
                           /\ user[s].name = u => user[s].points = row[u]
    BY DEF NothingLost
  <2>1. row[u] = earned[u]
    BY DEF IInv, Truth
  <2>2. ASSUME NEW s \in Slot, open[s], ~fighting[s], user[s] # None, user[s].name = u
        PROVE  user[s].points = row[u]
    <3>1. Safe(s)
      BY <2>2, LuckyHome DEF IInv
    <3>2. PointAt(s) = {} /\ pc[s] # "saved"
      BY <2>2, <3>1 DEF IInv, Exclusion, Busy, Own
    <3>3. Exact(user[s])
      BY <3>2, NothingOwed DEF IInv
    <3>. QED
      BY <2>1, <2>2, <3>3 DEF Exact
  <2>. QED
    BY <2>1, <2>2
<1>. QED
  BY <1>1, Invariance, PTL

(* A session holds its own client's user, unless something still pointed   *)
(* at its place when it began, even when a map fight has looked its        *)
(* session up before it saved (UserFight.h:49, userFightTask.h:49,         *)
(* mapFight.h:30-59).                                                      *)
THEOREM OwnUser == Spec => []SessionIsClients
<1>1. IInv => SessionIsClients
  BY DEF IInv, Homes, Home, SessionIsClients
<1>. QED
  BY <1>1, Invariance, PTL
=============================================================================
