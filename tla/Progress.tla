------------------------------- MODULE Progress -------------------------------
(***************************************************************************)
(* What users win while they fight monsters and each other, across the     *)
(* sessions they have: the row of a user in the database, the user of a    *)
(* session (websocketSession.h), and the copies that Fight (mapFight.h)    *)
(* and UserFight (UserFight.h) take when a fight begins and write back     *)
(* when it ends.                                                           *)
(*                                                                         *)
(* A UserFight keeps pointers to two sessions, and a session is a local    *)
(* variable in the stack of a thread of the pool.  When its client leaves, *)
(* the thread serves another connection and builds the new session in the  *)
(* same place: a Slot here.  The pointer then reads and writes the new     *)
(* session.                                                                *)
(*                                                                         *)
(* A request is taken in pieces where it reads what another thread may     *)
(* change before it acts: a login reads the row and looks for the user in  *)
(* the registry before it enters both; the requests that answer a          *)
(* challenge find its room, remove it, and turn to the session it points   *)
(* to; a map fight finds the session before it saves the user.  Module     *)
(* Duel has the challenge in more detail; levels, equipment and monsters   *)
(* are module MapFight, and a user is worth a number of points here.       *)
(***************************************************************************)
EXTENDS Naturals, FiniteSets

CONSTANTS
  Slot,       \* the places of the sessions, one for each thread of the pool
  User,       \* the users of the database
  FightId,    \* the UserFight objects there may be at a time (bound)
  None,       \* no user, no session
  MaxXP,      \* no fight begins for a user who has won as much (bound)
  MaxRequests, \* logins and answers under way at a time (bound)
  MaxUnlucky, \* nothing happens when more users than that are unlucky (bound)
  HP,         \* users begin a duel with a health of 1 to HP (bound)
  POINTS_PER_LEVEL, XP_PER_MONSTER_LEVEL

Record == [name : User, points : Nat]

ASSUME ProgressAssumption ==
  /\ None \notin User \cup Slot \cup Record
  /\ IsFiniteSet(Slot) /\ IsFiniteSet(User) /\ IsFiniteSet(FightId)
  /\ HP \in Nat \ {0} /\ MaxXP \in Nat /\ MaxRequests \in Nat /\ MaxUnlucky \in Nat
  /\ POINTS_PER_LEVEL \in Nat \ {0} /\ XP_PER_MONSTER_LEVEL \in Nat \ {0}

VARIABLES
  open,       \* whether a session is registered in a slot
  user,       \* WebsocketSession::user, a Record or None
  fighting,   \* WebsocketSession::fighting
  online,     \* userConnfdMap: the slot of the descriptor, or None
  rooms,      \* fightRoomMap: the slots of the creators
  row,        \* the table user: the points of each user
  pc,         \* where the thread of each slot is
  loaded,     \* login: its local variable user
  room,       \* joinUserFight and others: the slot its room points to
  fighter,    \* Fight::user of the map fight in this thread, or None
  found,      \* Fight::endFight: its local variable session, or None
  stage,      \* how far the UserFightTask of each fight is
  first, second,   \* UserFight::session1 and session2
  user1, user2,    \* the copies of their users
  hp1, hp2,
  crashed,    \* the process has followed an invalid pointer
  client,     \* history: who has logged in at a slot, or None
  earned,     \* history: all XP won by each user
  haunted,    \* history: slots opened while something pointed at them
  late,       \* history: logins whose user was online after they read the row
  unlucky     \* history: users who may lose points, and why is said below

sessions == <<open, user, fighting, online, rooms>>
threads  == <<pc, loaded, room, fighter, found>>
duel     == <<stage, first, second, user1, user2, hp1, hp2>>
luck     == <<haunted, late, unlucky>>
history  == <<client, earned, luck>>
vars == <<sessions, row, threads, duel, crashed, history>>

Level(points) == 1 + points \div POINTS_PER_LEVEL

PC == {"idle", "read", "checked", "join", "refuse", "cancel", "joined", "refused",
       "cancelled", "fight", "ended", "saved"}

Stage == {"unused", "poll", "rounds", "won", "write1", "clear1", "write2", "free1", "free2"}

\* The fights that will still look at the session in slot s.
PointAt(s) ==
  {i \in FightId :
     \/ first[i] = s /\ stage[i] \notin {"unused", "write2", "free2"}
     \/ second[i] = s /\ stage[i] # "unused"}

\* A duel, a room, a request or a map fight has a pointer to slot s.
Pointed(s) ==
  \/ PointAt(s) # {} \/ s \in rooms
  \/ \E t \in Slot : s \in {room[t], found[t]}

Init ==
  /\ open = [s \in Slot |-> FALSE]
  /\ user = [s \in Slot |-> None]
  /\ fighting = [s \in Slot |-> FALSE]
  /\ online = [u \in User |-> None]
  /\ rooms = {}
  /\ row = [u \in User |-> 0]
  /\ pc = [s \in Slot |-> "idle"]
  /\ loaded = [s \in Slot |-> None] /\ room = [s \in Slot |-> None]
  /\ fighter = [s \in Slot |-> None] /\ found = [s \in Slot |-> None]
  /\ stage = [i \in FightId |-> "unused"]
  /\ first = [i \in FightId |-> None] /\ second = [i \in FightId |-> None]
  /\ user1 = [i \in FightId |-> None] /\ user2 = [i \in FightId |-> None]
  /\ hp1 = [i \in FightId |-> 0] /\ hp2 = [i \in FightId |-> 0]
  /\ crashed = FALSE
  /\ client = [s \in Slot |-> None]
  /\ earned = [u \in User |-> 0]
  /\ haunted = {} /\ late = {} /\ unlucky = {}

Goto(s, from, to) ==
  /\ pc[s] = from
  /\ pc' = [pc EXCEPT ![s] = to]

\* Bound on the requests taken in pieces.
Begins(s, to) ==
  /\ Cardinality({t \in Slot : loaded[t] # None \/ room[t] # None}) < MaxRequests
  /\ Goto(s, "idle", to)

-----------------------------------------------------------------------------
(* Sessions come and go.                                                   *)

Connect(s) ==
  /\ ~open[s]
  /\ open' = [open EXCEPT ![s] = TRUE]
  /\ haunted' = IF Pointed(s) THEN haunted \cup {s} ELSE haunted
  /\ UNCHANGED <<user, fighting, online, rooms, row, threads, duel, crashed, client,
                 earned, late, unlucky>>

\* login: the row is read ...
LoginRead(s, u) ==
  /\ open[s] /\ user[s] = None
  /\ Begins(s, "read")
  /\ loaded' = [loaded EXCEPT ![s] = [name |-> u, points |-> row[u]]]
  /\ late' = IF online[u] # None THEN late \cup {s} ELSE late
  /\ UNCHANGED <<sessions, row, room, fighter, found, duel, crashed, client, earned, haunted,
                 unlucky>>

\* ... the user is not to be online ...
LoginCheck(s) ==
  /\ \/ /\ Goto(s, "read", "checked") /\ online[loaded[s].name] = None
        /\ UNCHANGED <<loaded, late>>
     \/ /\ Goto(s, "read", "idle") /\ online[loaded[s].name] # None
        /\ loaded' = [loaded EXCEPT ![s] = None]
        /\ late' = late \ {s}
  /\ UNCHANGED <<sessions, row, room, fighter, found, duel, crashed, client, earned, haunted,
                 unlucky>>

\* ... and is entered in the registry and the session.
LoginSet(s) ==
  LET u == loaded[s].name
  IN  /\ Goto(s, "checked", "idle")
      /\ online' = [online EXCEPT ![u] = s]
      /\ user' = [user EXCEPT ![s] = loaded[s]]
      /\ loaded' = [loaded EXCEPT ![s] = None]
      /\ client' = [client EXCEPT ![s] = u]
      /\ unlucky' = IF s \in haunted \cup late THEN unlucky \cup {u} ELSE unlucky
      /\ late' = (late \cup {t \in Slot : loaded[t] # None /\ loaded[t].name = u}) \ {s}
      /\ UNCHANGED <<open, fighting, rooms, row, room, fighter, found, duel, crashed,
                     earned, haunted>>

\* The users whose duel the session in slot s is part of.
DuelUsers(s) ==
  {user1[i].name : i \in {j \in PointAt(s) : first[j] = s}}
    \cup {user2[i].name : i \in {j \in PointAt(s) : second[j] = s}}

\* recv returns 0: one name of this descriptor is removed, and the session is
\* destroyed with its user.  Its room stays.
Leave(s) ==
  /\ open[s] /\ pc[s] = "idle"
  /\ open' = [open EXCEPT ![s] = FALSE]
  /\ user' = [user EXCEPT ![s] = None]
  /\ fighting' = [fighting EXCEPT ![s] = FALSE]
  /\ client' = [client EXCEPT ![s] = None]
  /\ \/ (\A u \in User : online[u] # s) /\ UNCHANGED online
     \/ \E u \in User : online[u] = s /\ online' = [online EXCEPT ![u] = None]
  /\ unlucky' = unlucky \cup DuelUsers(s)
  /\ haunted' = haunted \ {s}
  /\ UNCHANGED <<rooms, row, threads, duel, crashed, earned, late>>

-----------------------------------------------------------------------------
(* Map fights.  A session that is fighting has all requests refused but    *)
(* userFightReady and cancelUserFight.                                     *)

MayFight(s) == open[s] /\ user[s] # None /\ ~fighting[s] /\ earned[user[s].name] < MaxXP

\* beginMapFight, and the copy of Fight's constructor.
BeginMapFight(s) ==
  /\ MayFight(s)
  /\ Goto(s, "idle", "fight")
  /\ fighter' = [fighter EXCEPT ![s] = user[s]]
  /\ fighting' = [fighting EXCEPT ![s] = TRUE]
  /\ UNCHANGED <<open, user, online, rooms, row, loaded, room, found, duel, crashed, history>>

\* endFight begins: getSessionByUsername, which is null when the user is not
\* online.
FindSession(s) ==
  /\ Goto(s, "fight", "ended")
  /\ found' = [found EXCEPT ![s] = online[fighter[s].name]]
  /\ UNCHANGED <<sessions, row, loaded, room, fighter, duel, crashed, history>>

\* updateUser, which may fail, with what the user has won.
Save(r, xp) ==
  /\ earned' = [earned EXCEPT ![r.name] = @ + xp]
  /\ \/ row' = [row EXCEPT ![r.name] = r.points] /\ UNCHANGED unlucky
     \/ unlucky' = unlucky \cup {r.name} /\ UNCHANGED row

\* A monster of level 1 is beaten, and the user is saved.
WinMapFight(s) ==
  LET won == [fighter[s] EXCEPT !.points = @ + XP_PER_MONSTER_LEVEL]
  IN  /\ Goto(s, "ended", "saved")
      /\ fighter' = [fighter EXCEPT ![s] = won]
      /\ Save(won, XP_PER_MONSTER_LEVEL)
      /\ UNCHANGED <<sessions, loaded, room, found, duel, crashed, client, haunted, late>>

LoseMapFight(s) ==
  /\ Goto(s, "ended", "saved")
  /\ UNCHANGED <<sessions, row, loaded, room, fighter, found, duel, crashed, history>>

(* The user is put into the session that was found, or into the one that   *)
(* is in its slot now.  A null pointer is followed, and so is the null     *)
(* user of a session; one that is destroyed may have anything there.       *)
EndMapFight(s) ==
  LET t    == found[s]
      null == t \in Slot => user[t] = None
  IN  /\ Goto(s, "saved", "idle")
      /\ fighter' = [fighter EXCEPT ![s] = None] /\ found' = [found EXCEPT ![s] = None]
      /\ fighting' = [fighting EXCEPT ![s] = FALSE]
      /\ IF null
           THEN /\ crashed' = TRUE \/ (t \in Slot /\ ~open[t] /\ UNCHANGED crashed)
                /\ UNCHANGED user
           ELSE user' = [user EXCEPT ![t] = fighter[s]] /\ UNCHANGED crashed
      /\ UNCHANGED <<open, online, rooms, row, loaded, room, duel, history>>

-----------------------------------------------------------------------------
(* Duels.                                                                  *)

CreateRoom(s) ==
  /\ MayFight(s) /\ pc[s] = "idle"
  /\ rooms' = rooms \cup {s}
  /\ fighting' = [fighting EXCEPT ![s] = TRUE]
  /\ UNCHANGED <<open, user, online, row, threads, duel, crashed, history>>

\* The session of the creator has been destroyed, whoever is in its slot now.
Gone(t) == ~open[t] \/ t \in haunted

\* Mutant: the session that joins is not marked as fighting.
JoinUnmarked(s, t) ==
  /\ MayFight(s) /\ t \in rooms
  /\ Begins(s, "join")
  /\ room' = [room EXCEPT ![s] = t]
  /\ UNCHANGED <<sessions, row, loaded, fighter, found, duel, crashed, history>>

\* joinUserFight finds a room.
Join(s, t) ==
  /\ MayFight(s) /\ t \in rooms
  /\ Begins(s, "join")
  /\ room' = [room EXCEPT ![s] = t]
  /\ fighting' = [fighting EXCEPT ![s] = TRUE]
  /\ UNCHANGED <<open, user, online, rooms, row, loaded, fighter, found, duel, crashed,
                 history>>

\* And refuseUserFight.
Refuse(s, t) ==
  /\ open[s] /\ user[s] # None /\ ~fighting[s] /\ t \in rooms
  /\ Begins(s, "refuse")
  /\ room' = [room EXCEPT ![s] = t]
  /\ UNCHANGED <<sessions, row, loaded, fighter, found, duel, crashed, history>>

\* And cancelUserFight, by the descriptor: a room of this session, or one that
\* an earlier session with the same descriptor has left.
Cancel(s, t) ==
  /\ open[s] /\ fighting[s] /\ t \in rooms
  /\ t = s \/ Gone(t)
  /\ Begins(s, "cancel")
  /\ room' = [room EXCEPT ![s] = t]
  /\ UNCHANGED <<sessions, row, loaded, fighter, found, duel, crashed, history>>

\* Whose challenge is taken without there being one: the creator's, whose room
\* another request has removed, or that of a session which cancels a room that
\* is not its own.
Mistaken(s, t) ==
  LET whom == IF pc[s] = "cancel" THEN s ELSE t
  IN  IF (t \notin rooms \/ (pc[s] = "cancel" /\ s # t)) /\ user[whom] # None
        THEN {user[whom].name} ELSE {}

\* removeFightRoom, whether the room is still there or not.  Several rooms may
\* point to a slot if earlier sessions have left theirs.
RemoveRoom(s) ==
  /\ \/ Goto(s, "join", "joined")
     \/ Goto(s, "refuse", "refused")
     \/ Goto(s, "cancel", "cancelled")
  /\ \/ rooms' = rooms \ {room[s]}
     \/ Gone(room[s]) /\ UNCHANGED rooms
  /\ unlucky' = unlucky \cup Mistaken(s, room[s])
  /\ UNCHANGED <<open, user, fighting, online, row, loaded, room, fighter, found, duel,
                 crashed, client, earned, haunted, late>>

\* The handler returns.
Finish(s, from) == Goto(s, from, "idle") /\ room' = [room EXCEPT ![s] = None]

(* The UserFight is made, of the session that joins and of the one that is *)
(* in the slot of the creator now.                                         *)
StartFight(i, s) ==
  LET t == room[s]
  IN  /\ Finish(s, "joined")
      /\ user[t] # None
      /\ earned[user[s].name] < MaxXP /\ earned[user[t].name] < MaxXP
      /\ stage[i] = "unused" /\ stage' = [stage EXCEPT ![i] = "poll"]
      /\ \E p \in {<<s, t>>, <<t, s>>} :     \* ordered by agility
           /\ first' = [first EXCEPT ![i] = p[1]]
           /\ second' = [second EXCEPT ![i] = p[2]]
           /\ user1' = [user1 EXCEPT ![i] = user[p[1]]]
           /\ user2' = [user2 EXCEPT ![i] = user[p[2]]]
      /\ UNCHANGED <<sessions, row, loaded, fighter, found, hp1, hp2, crashed, history>>

\* The descriptor of the creator is not open.
JoinFails(s) ==
  /\ Finish(s, "joined") /\ Gone(room[s])
  /\ fighting' = [fighting EXCEPT ![s] = FALSE]
  /\ UNCHANGED <<open, user, online, rooms, row, loaded, fighter, found, duel, crashed,
                 history>>

\* The creator is let go, through the pointer of the room, if its descriptor
\* is open.
RefuseDone(s) ==
  /\ Finish(s, "refused")
  /\ \/ user[room[s]] # None /\ fighting' = [fighting EXCEPT ![room[s]] = FALSE]
     \/ Gone(room[s]) /\ UNCHANGED fighting
  /\ UNCHANGED <<open, user, online, rooms, row, loaded, fighter, found, duel, crashed,
                 history>>

\* The creator has no user any more, and its name or agility is read.
NullUser(s) ==
  /\ pc[s] \in {"joined", "refused"} /\ user[room[s]] = None
  /\ crashed' = TRUE
  /\ UNCHANGED <<sessions, row, threads, duel, history>>

CancelDone(s) ==
  /\ Finish(s, "cancelled")
  /\ fighting' = [fighting EXCEPT ![s] = FALSE]
  /\ UNCHANGED <<open, user, online, rooms, row, loaded, fighter, found, duel, crashed,
                 history>>

\* Both users seem ready: a flag in a destroyed session may have any value.
BeginFight(i) ==
  /\ stage[i] = "poll"
  /\ stage' = [stage EXCEPT ![i] = "rounds"]
  /\ \E h1, h2 \in 1..HP : hp1' = [hp1 EXCEPT ![i] = h1] /\ hp2' = [hp2 EXCEPT ![i] = h2]
  /\ UNCHANGED <<sessions, row, threads, first, second, user1, user2, crashed, history>>

\* A user is not ready in time, or is seen to have left.
GiveUp(i) ==
  /\ stage[i] = "poll"
  /\ stage' = [stage EXCEPT ![i] = "free1"]
  /\ UNCHANGED <<sessions, row, threads, first, second, user1, user2, hp1, hp2,
                 crashed, history>>

(* A round of fighting(): one random number decides for both.  The users   *)
(* are ordered by agility without their equipment and hit with it, so that *)
(* either may strike alone; the second only if it is still standing.       *)
Round(i, strikes, back) ==
  /\ stage[i] = "rounds"
  /\ hp2' = [hp2 EXCEPT ![i] = IF strikes THEN @ - 1 ELSE @]
  /\ hp1' = [hp1 EXCEPT ![i] = IF hp2'[i] > 0 /\ back THEN @ - 1 ELSE @]
  /\ stage' = [stage EXCEPT ![i] = IF hp1'[i] = 0 \/ hp2'[i] = 0 THEN "won" ELSE "rounds"]
  /\ UNCHANGED <<sessions, row, threads, first, second, user1, user2, crashed, history>>

\* Mutant: the loser is paid as well.
PayBoth(i) ==
  LET xp1 == IF hp2[i] = 0 THEN XP_PER_MONSTER_LEVEL * Level(user2[i].points) ELSE 0
      xp2 == XP_PER_MONSTER_LEVEL * Level(user1[i].points)
  IN  /\ stage[i] = "won"
      /\ stage' = [stage EXCEPT ![i] = "write1"]
      /\ user1' = [user1 EXCEPT ![i].points = @ + xp1]
      /\ user2' = [user2 EXCEPT ![i].points = @ + xp2]
      /\ IF xp1 > 0 THEN Save(user1'[i], xp1) ELSE Save(user2'[i], xp2)
      /\ hp1' = [hp1 EXCEPT ![i] = 0] /\ hp2' = [hp2 EXCEPT ![i] = 0]
      /\ UNCHANGED <<sessions, threads, first, second, crashed, client, haunted, late>>

\* endFight: the winner is paid for the level of the loser, and is saved.
Pay(i) ==
  LET xp1 == IF hp2[i] = 0 THEN XP_PER_MONSTER_LEVEL * Level(user2[i].points) ELSE 0
      xp2 == IF hp2[i] = 0 THEN 0 ELSE XP_PER_MONSTER_LEVEL * Level(user1[i].points)
  IN  /\ stage[i] = "won"
      /\ stage' = [stage EXCEPT ![i] = "write1"]
      /\ user1' = [user1 EXCEPT ![i].points = @ + xp1]
      /\ user2' = [user2 EXCEPT ![i].points = @ + xp2]
      /\ IF xp1 > 0 THEN Save(user1'[i], xp1) ELSE Save(user2'[i], xp2)
      /\ hp1' = [hp1 EXCEPT ![i] = 0] /\ hp2' = [hp2 EXCEPT ![i] = 0]
      /\ UNCHANGED <<sessions, threads, first, second, crashed, client, haunted, late>>

\* endFight: isSessionOpen and setUser.  A session that is in the slot is taken
\* for the one that fought; in a destroyed one isSessionOpen may see a
\* descriptor that is in use again, and then a null user is followed.
SetUser(s, copy) ==
  \/ user[s] # None /\ user' = [user EXCEPT ![s] = copy] /\ UNCHANGED crashed
  \/ user[s] = None /\ crashed' = TRUE /\ UNCHANGED user

WriteFirst(i) ==
  /\ stage[i] = "write1"
  /\ \/ SetUser(first[i], user1[i]) /\ stage' = [stage EXCEPT ![i] = "clear1"]
     \/ /\ ~open[first[i]] /\ UNCHANGED <<user, crashed>>
        /\ stage' = [stage EXCEPT ![i] = "write2"]
  /\ UNCHANGED <<open, fighting, online, rooms, row, threads, first, second, user1, user2,
                 hp1, hp2, history>>

\* setFight(false), after setUser in endFight and alone in run().
FreeFirst(i) ==
  /\ stage[i] \in {"clear1", "free1"}
  /\ stage' = [stage EXCEPT ![i] = IF @ = "clear1" THEN "write2" ELSE "free2"]
  /\ fighting' = [fighting EXCEPT ![first[i]] = FALSE]
  /\ UNCHANGED <<open, user, online, rooms, row, threads, first, second, user1, user2,
                 hp1, hp2, crashed, history>>

\* The task and its UserFight are deleted.
Delete(i) ==
  /\ stage' = [stage EXCEPT ![i] = "unused"]
  /\ first' = [first EXCEPT ![i] = None] /\ second' = [second EXCEPT ![i] = None]
  /\ user1' = [user1 EXCEPT ![i] = None] /\ user2' = [user2 EXCEPT ![i] = None]
  /\ hp1' = [hp1 EXCEPT ![i] = 0] /\ hp2' = [hp2 EXCEPT ![i] = 0]

\* Mutant: the second session gets the first user.
WriteSecondMixedUp(i) ==
  /\ stage[i] = "write2"
  /\ \/ /\ SetUser(second[i], user1[i]) /\ stage' = [stage EXCEPT ![i] = "free2"]
        /\ UNCHANGED <<first, second, user1, user2, hp1, hp2>>
     \/ ~open[second[i]] /\ Delete(i) /\ UNCHANGED <<user, crashed>>
  /\ UNCHANGED <<open, fighting, online, rooms, row, threads, history>>

WriteSecond(i) ==
  /\ stage[i] = "write2"
  /\ \/ /\ SetUser(second[i], user2[i]) /\ stage' = [stage EXCEPT ![i] = "free2"]
        /\ UNCHANGED <<first, second, user1, user2, hp1, hp2>>
     \/ ~open[second[i]] /\ Delete(i) /\ UNCHANGED <<user, crashed>>
  /\ UNCHANGED <<open, fighting, online, rooms, row, threads, history>>

FreeSecond(i) ==
  /\ stage[i] = "free2" /\ Delete(i)
  /\ fighting' = [fighting EXCEPT ![second[i]] = FALSE]
  /\ UNCHANGED <<open, user, online, rooms, row, threads, crashed, history>>

-----------------------------------------------------------------------------

Client(s) ==
  \/ Connect(s) \/ Leave(s) \/ BeginMapFight(s) \/ CreateRoom(s)
  \/ \E u \in User : LoginRead(s, u)
  \/ \E t \in Slot : Join(s, t) \/ Refuse(s, t) \/ Cancel(s, t)

Serve(s) ==
  \/ LoginCheck(s) \/ LoginSet(s)
  \/ FindSession(s) \/ WinMapFight(s) \/ LoseMapFight(s) \/ EndMapFight(s)
  \/ RemoveRoom(s) \/ (\E i \in FightId : StartFight(i, s)) \/ JoinFails(s)
  \/ RefuseDone(s) \/ CancelDone(s) \/ NullUser(s)

Run(i) ==
  \/ BeginFight(i) \/ GiveUp(i) \/ Pay(i)
  \/ WriteFirst(i) \/ FreeFirst(i) \/ WriteSecond(i) \/ FreeSecond(i)
  \/ \E strikes, back \in BOOLEAN : Round(i, strikes, back)

Next ==
  /\ ~crashed /\ Cardinality(unlucky) <= MaxUnlucky
  /\ (\E s \in Slot : Client(s) \/ Serve(s)) \/ \E i \in FightId : Run(i)

Spec == Init /\ [][Next]_vars

-----------------------------------------------------------------------------
(* Properties.                                                             *)

TypeOK ==
  /\ open \in [Slot -> BOOLEAN] /\ fighting \in [Slot -> BOOLEAN]
  /\ user \in [Slot -> Record \cup {None}]
  /\ online \in [User -> Slot \cup {None}]
  /\ rooms \in SUBSET Slot
  /\ row \in [User -> Nat] /\ earned \in [User -> Nat]
  /\ pc \in [Slot -> PC]
  /\ loaded \in [Slot -> Record \cup {None}]
  /\ room \in [Slot -> Slot \cup {None}]
  /\ fighter \in [Slot -> Record \cup {None}]
  /\ found \in [Slot -> Slot \cup {None}]
  /\ stage \in [FightId -> Stage]
  /\ first \in [FightId -> Slot \cup {None}] /\ second \in [FightId -> Slot \cup {None}]
  /\ user1 \in [FightId -> Record \cup {None}]
  /\ user2 \in [FightId -> Record \cup {None}]
  /\ hp1 \in [FightId -> 0..HP] /\ hp2 \in [FightId -> 0..HP]
  /\ crashed \in BOOLEAN
  /\ client \in [Slot -> User \cup {None}]
  /\ haunted \in SUBSET Slot /\ late \in SUBSET Slot /\ unlucky \in SUBSET User

(* Whatever is written back over what, no user ever has points that were   *)
(* not won: not in the database, not in a session (UserFight.h:23-61,      *)
(* mapFight.h:24-60).                                                      *)
NothingUnearned ==
  /\ \A u \in User : row[u] <= earned[u]
  /\ \A s \in Slot : user[s] # None => user[s].points <= earned[user[s].name]

(* Points are lost only by a user who left in the middle of a duel, whose  *)
(* update failed, who had a session in a place that a duel, a room, a      *)
(* request or a map fight still pointed at, whom a login entered that had  *)
(* read the row while an earlier session could still change it, or whose   *)
(* challenge was taken twice.  Everybody else has every point won, in the  *)
(* database and, between fights, in the session: the copies taken and      *)
(* written back are not stale (UserFight.h:34-60, mapFight.h:47-60,        *)
(* requestHanlder.h:34-50, fightManage.h:135-170).                         *)
NothingLost ==
  \A u \in User \ unlucky :
    /\ row[u] = earned[u]
    /\ \A s \in Slot :
         open[s] /\ ~fighting[s] /\ user[s] # None /\ user[s].name = u =>
           user[s].points = row[u]

(* The user of a session is the one who has logged in there, unless the    *)
(* session is in a place that something still pointed at when it began     *)
(* (UserFight.h:49, userFightTask.h:49, mapFight.h:30-59).                 *)
SessionIsClients ==
  \A s \in Slot \ haunted : user[s] # None => user[s].name = client[s]
=============================================================================
