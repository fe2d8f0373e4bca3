--------------------------------- MODULE Duel ---------------------------------
(***************************************************************************)
(* Fights between two users: the rooms of FightManage (fightManage.h), the *)
(* requests that create, join, refuse and cancel a challenge               *)
(* (requestHanlder.h), and the UserFightTask that waits for both users to  *)
(* be ready, fights, and releases them (userFightTask.h, UserFight.h).     *)
(*                                                                         *)
(* Requests of different sessions are handled by different threads.  The   *)
(* room's semaphore orders nothing: getSem returns a copy of the sem_t, so *)
(* that every handler waits on, and posts, a semaphore of its own.  The    *)
(* wait always succeeds and is not a step here.                            *)
(*                                                                         *)
(* A session that disconnects leaves its room and its fights behind, with  *)
(* pointers to a destroyed session, and its descriptor may be given to a   *)
(* later session.  So may its place: a session is a local variable of      *)
(* receiveRequest, so that the thread which serves the next connection     *)
(* builds the next session where the last one was.  What is read through   *)
(* such a pointer is arbitrary, a user that is null ends the process, and  *)
(* what is written reaches the session that is there now.                  *)
(***************************************************************************)
EXTENDS Naturals, FiniteSets

CONSTANTS
  Session,     \* the WebsocketSession objects of a run (bound)
  Fd,          \* descriptors
  FightId,     \* the UserFightTask objects there may be at a time (bound)
  Leaving,     \* the sessions that may disconnect (bound)
  Answering,   \* the sessions that may answer userFightReady (bound)
  MaxRequests, \* requests handled at a time (bound)
  CHECK_TIME,  \* polls before a fight is given up (50 in the code)
  None         \* no session, no descriptor

ASSUME DuelAssumption ==
  /\ None \notin Session \cup Fd
  /\ IsFiniteSet(FightId) /\ IsFiniteSet(Session)
  /\ Leaving \subseteq Session /\ Answering \subseteq Session
  /\ MaxRequests \in Nat /\ CHECK_TIME \in Nat \ {0}

VARIABLES
  connfd,        \* WebsocketSession::connfd
  place,         \* where the session is: named for the first one there
  life,          \* "unborn", "open" (registered) or "gone" (destroyed)
  fighting,      \* WebsocketSession::fighting
  ready,         \* WebsocketSession::readyToFight
  fightRoomMap,  \* the creator of the room of each descriptor, or None
  pc,            \* where the handler of each session is
  op,            \* the request the handler is serving
  room,          \* its local variable fightRoom: the creator
  fd,            \* its argument creatorConnfd
  stage,         \* how far the task of each fight is
  polls,         \* its loop counter
  first, second, \* UserFight::session1 and session2
  mixed,         \* history: the sessions whose rooms were mistaken for one another
  struck,        \* history: the sessions let go instead of one that was in their place
  crashed        \* the process has dereferenced a null user

objects  == <<connfd, place, life>>
flags    == <<fighting, ready>>
requests == <<pc, op, room, fd>>
fights   == <<stage, polls, first, second>>
outcomes == <<mixed, struck, crashed>>
vars == <<objects, flags, fightRoomMap, requests, fights, outcomes>>

Op    == {"none", "create", "join", "refuse", "cancel"}
PC    == {"idle", "begin", "insert", "recheck", "remove", "removed", "start"}
Stage == {"unused", "poll1", "poll2", "fight", "release1", "release2"}

Init ==
  /\ connfd = [s \in Session |-> None]
  /\ place = [s \in Session |-> s]
  /\ life = [s \in Session |-> "unborn"]
  /\ fighting = [s \in Session |-> FALSE]
  /\ ready = [s \in Session |-> FALSE]   \* set before it is ever read
  /\ fightRoomMap = [f \in Fd |-> None]
  /\ pc = [s \in Session |-> "idle"]
  /\ op = [s \in Session |-> "none"]
  /\ room = [s \in Session |-> None]
  /\ fd = [s \in Session |-> None]
  /\ stage = [i \in FightId |-> "unused"]
  /\ polls = [i \in FightId |-> 0]
  /\ first = [i \in FightId |-> None]
  /\ second = [i \in FightId |-> None]
  /\ mixed = {} /\ struck = {} /\ crashed = FALSE

\* isSessionOpen(connfd), and isSessionOpen(session) through a pointer.
FdOpen(f)  == \E s \in Session : life[s] = "open" /\ connfd[s] = f
PtrOpen(s) == IF life[s] = "gone" THEN BOOLEAN ELSE {life[s] = "open"}
Ready(s)   == IF life[s] = "gone" THEN BOOLEAN ELSE {ready[s]}

Goto(s, from, to) ==
  /\ pc[s] = from
  /\ pc' = [pc EXCEPT ![s] = to]

SetFight(s, b) == fighting' = [fighting EXCEPT ![s] = b]

\* The session that is in the place of s now, if any.
Present(s) == {t \in Session : life[t] = "open" /\ place[t] = place[s]}

\* setFight(false) through a pointer to s.
LetGo(s) ==
  IF life[s] = "gone"
    THEN /\ fighting' = [t \in Session |-> fighting[t] /\ t \notin Present(s)]
         /\ struck' = struck \cup {t \in Present(s) : fighting[t]}
    ELSE SetFight(s, FALSE) /\ UNCHANGED struck

\* getUser() of a session that is gone may be null, and is dereferenced.
Crash(s) ==
  /\ life[s] = "gone"
  /\ crashed' = TRUE
  /\ UNCHANGED <<objects, flags, fightRoomMap, requests, fights, mixed, struck>>

\* The handler returns to the receive loop.
Finish(s) ==
  /\ pc' = [pc EXCEPT ![s] = "idle"]
  /\ op' = [op EXCEPT ![s] = "none"]
  /\ room' = [room EXCEPT ![s] = None]
  /\ fd' = [fd EXCEPT ![s] = None]

-----------------------------------------------------------------------------
(* Sessions come and go.  fighting starts as FALSE, readyToFight is left   *)
(* as the memory was.                                                      *)

\* A room, a request or a task has a pointer to t.
Pointed(t) ==
  \/ \E f \in Fd : fightRoomMap[f] = t
  \/ \E u \in Session : room[u] = t
  \/ \E i \in FightId : t \in {first[i], second[i]}

\* accept returns a descriptor that no session has at the moment.  The session
\* is built in a place of its own, or in one that has become free: if nothing
\* points there any more this is no difference.
Connect(s) ==
  /\ life[s] = "unborn"
  /\ \E f \in Fd : ~FdOpen(f) /\ connfd' = [connfd EXCEPT ![s] = f]
  /\ \/ UNCHANGED place
     \/ \E t \in Session :
          /\ life[t] = "gone" /\ Present(t) = {} /\ Pointed(t)
          /\ place' = [place EXCEPT ![s] = place[t]]
  /\ life' = [life EXCEPT ![s] = "open"]
  /\ UNCHANGED <<flags, fightRoomMap, requests, fights, outcomes>>

\* The session is removed from the registry and destroyed, with its flags.
Disconnect(s) ==
  /\ s \in Leaving
  /\ life[s] = "open" /\ pc[s] = "idle"
  /\ life' = [life EXCEPT ![s] = "gone"]
  /\ SetFight(s, FALSE)
  /\ ready' = [ready EXCEPT ![s] = FALSE]
  /\ UNCHANGED <<connfd, place, fightRoomMap, requests, fights, outcomes>>

-----------------------------------------------------------------------------
(* Requests.  A session that is fighting may only cancel or be ready; the  *)
(* others are refused while it is.                                         *)

Request(s, o, f) ==
  /\ life[s] = "open"
  /\ Cardinality({t \in Session : pc[t] # "idle"}) < MaxRequests
  /\ Goto(s, "idle", "begin")
  /\ op' = [op EXCEPT ![s] = o]
  /\ fd' = [fd EXCEPT ![s] = f]
  /\ UNCHANGED <<objects, ready, fightRoomMap, room, fights, outcomes>>

RequestCreate(s) ==
  ~fighting[s] /\ SetFight(s, TRUE) /\ Request(s, "create", connfd[s])

RequestJoin(s, f) ==
  ~fighting[s] /\ SetFight(s, TRUE) /\ Request(s, "join", f)

RequestRefuse(s, f) ==
  ~fighting[s] /\ UNCHANGED fighting /\ Request(s, "refuse", f)

RequestCancel(s) ==
  fighting[s] /\ UNCHANGED fighting /\ Request(s, "cancel", connfd[s])

UserFightReady(s) ==
  /\ s \in Answering
  /\ life[s] = "open" /\ pc[s] = "idle" /\ fighting[s]
  /\ ready' = [ready EXCEPT ![s] = TRUE]
  /\ UNCHANGED <<objects, fighting, fightRoomMap, requests, fights, outcomes>>

(* createUserFight: the session must have no room, and the opponent must   *)
(* be another open session that is not fighting.                           *)
CheckCreate(s) ==
  /\ op[s] = "create" /\ pc[s] = "begin"
  /\ \/ /\ fightRoomMap[connfd[s]] = None
        /\ \E o \in Session : life[o] = "open" /\ ~fighting[o]
        /\ Goto(s, "begin", "insert")
        /\ UNCHANGED <<op, room, fd, fighting>>
     \/ Finish(s) /\ SetFight(s, FALSE)    \* no such opponent, or a room
  /\ UNCHANGED <<objects, ready, fightRoomMap, fights, outcomes>>

InsertRoom(s) ==
  /\ op[s] = "create" /\ pc[s] = "insert"
  /\ fightRoomMap' = [fightRoomMap EXCEPT ![connfd[s]] = s]
  /\ Finish(s)
  /\ UNCHANGED <<objects, flags, fights, outcomes>>

\* Mutant: the flag is kept.
KeepFlag(s) == Finish(s) /\ UNCHANGED fighting

\* A request that finds no room: joinUserFight returns FALSE.
NoRoom(s) ==
  /\ Finish(s)
  /\ IF op[s] = "join" THEN SetFight(s, FALSE) ELSE UNCHANGED fighting

\* The first look at the room, in join, refuse and cancel alike.
FindRoom(s) ==
  /\ op[s] \in {"join", "refuse", "cancel"} /\ pc[s] = "begin"
  /\ \/ /\ fightRoomMap[fd[s]] = None
        /\ NoRoom(s)
     \/ /\ fightRoomMap[fd[s]] # None
        /\ Goto(s, "begin", "recheck")
        /\ room' = [room EXCEPT ![s] = fightRoomMap[fd[s]]]
        /\ UNCHANGED <<op, fd, fighting>>
  /\ UNCHANGED <<objects, ready, fightRoomMap, fights, outcomes>>

\* The second look, after sem_wait.
RecheckRoom(s) ==
  /\ pc[s] = "recheck"
  /\ \/ fightRoomMap[fd[s]] = None /\ NoRoom(s)
     \/ /\ fightRoomMap[fd[s]] # None
        /\ Goto(s, "recheck", "remove")
        /\ UNCHANGED <<op, room, fd, fighting>>
  /\ UNCHANGED <<objects, ready, fightRoomMap, fights, outcomes>>

\* Mutant: the room stays.
KeepRoom(s) ==
  Goto(s, "remove", "removed")
  /\ UNCHANGED <<objects, flags, fightRoomMap, op, room, fd, fights, outcomes>>

\* removeFightRoom erases whatever room the descriptor has by now, which may be
\* another one than the request found, or one that an earlier session left.
RemoveFightRoom(s) ==
  /\ Goto(s, "remove", "removed")
  /\ fightRoomMap' = [fightRoomMap EXCEPT ![fd[s]] = None]
  /\ LET owner == IF op[s] = "cancel" THEN s ELSE room[s]
         mistaken == {owner, room[s], fightRoomMap[fd[s]]} \ {None}
     IN  mixed' = IF fightRoomMap[fd[s]] = owner THEN mixed ELSE mixed \cup mistaken
  /\ UNCHANGED <<objects, flags, op, room, fd, fights, struck, crashed>>

CancelDone(s) ==
  /\ op[s] = "cancel" /\ pc[s] = "removed"
  /\ Finish(s) /\ SetFight(s, FALSE)
  /\ UNCHANGED <<objects, ready, fightRoomMap, fights, outcomes>>

\* The creator is told, and let go through the room's pointer, if its
\* descriptor is open.
RefuseDone(s) ==
  /\ op[s] = "refuse" /\ pc[s] = "removed"
  /\ \/ /\ Finish(s)
        /\ IF FdOpen(fd[s]) THEN LetGo(room[s]) ELSE UNCHANGED <<fighting, struck>>
        /\ UNCHANGED <<objects, ready, fightRoomMap, fights, mixed, crashed>>
     \/ FdOpen(fd[s]) /\ Crash(room[s])

\* Both users are told of the fight, or the creator has left.
JoinAnswer(s) ==
  /\ op[s] = "join" /\ pc[s] = "removed"
  /\ \/ /\ IF FdOpen(fd[s])
             THEN Goto(s, "removed", "start") /\ UNCHANGED <<op, room, fd, fighting>>
             ELSE Finish(s) /\ SetFight(s, FALSE)
        /\ UNCHANGED <<objects, ready, fightRoomMap, fights, outcomes>>
     \/ Crash(room[s])    \* the name of the creator is in the answer

(* userFight: both flags are reset after the users have been told, and the *)
(* task is added.  The users are ordered by agility, here arbitrarily.     *)
StartFight(s) ==
  /\ op[s] = "join" /\ pc[s] = "start"
  /\ \/ /\ ready' = [t \in Session |-> ready[t] /\ t \notin {s, room[s]} \cup Present(room[s])]
        /\ \E i \in FightId :
             /\ stage[i] = "unused"
             /\ stage' = [stage EXCEPT ![i] = "poll1"]
             /\ \/ first' = [first EXCEPT ![i] = s] /\ second' = [second EXCEPT ![i] = room[s]]
                \/ first' = [first EXCEPT ![i] = room[s]] /\ second' = [second EXCEPT ![i] = s]
        /\ Finish(s)
        /\ UNCHANGED <<objects, fighting, fightRoomMap, polls, outcomes>>
     \/ Crash(room[s])    \* the agility of the creator is compared

-----------------------------------------------------------------------------
(* UserFightTask::run: at most CHECK_TIME polls, the fight or not, and the  *)
(* release of both users.                                                  *)

Advance(i, from, to) ==
  /\ stage[i] = from
  /\ stage' = [stage EXCEPT ![i] = to]


\* Mutant: one poll too many.
NotReadyOnceMore(i, here) ==
  /\ polls' = [polls EXCEPT ![i] = @ + 1]
  /\ Advance(i, here, IF polls[i] < CHECK_TIME THEN "poll1" ELSE "release1")

\* checkFightReadyStatus: a user not ready ends the poll, not the wait.
NotReady(i, here) ==
  /\ polls' = [polls EXCEPT ![i] = @ + 1]
  /\ Advance(i, here, IF polls[i] + 1 < CHECK_TIME THEN "poll1" ELSE "release1")

Poll(i, s, here, ahead) ==
  /\ stage[i] = here
  /\ \/ TRUE \in PtrOpen(s) /\ TRUE \in Ready(s) /\ Advance(i, here, ahead) /\ UNCHANGED polls
     \/ TRUE \in PtrOpen(s) /\ FALSE \in Ready(s) /\ NotReady(i, here)
     \/ FALSE \in PtrOpen(s) /\ Advance(i, here, "release1") /\ UNCHANGED polls
  /\ UNCHANGED <<objects, flags, fightRoomMap, requests, first, second, outcomes>>

PollFirst(i)  == Poll(i, first[i], "poll1", "poll2")
PollSecond(i) == Poll(i, second[i], "poll2", "fight")

\* The rounds of fighting() and the update of the winner.
EndFight(i) ==
  /\ Advance(i, "fight", "release1")
  /\ UNCHANGED <<objects, flags, fightRoomMap, requests, polls, first, second, outcomes>>

\* setFight(false) on each session that is open, in run and in endFight, where
\* setUser comes before it; the second time the task and its UserFight are
\* deleted.
Release(i, s, here, ahead) ==
  /\ stage[i] = here
  /\ \/ /\ Advance(i, here, ahead)
        /\ \/ TRUE \in PtrOpen(s) /\ LetGo(s)
           \/ FALSE \in PtrOpen(s) /\ UNCHANGED <<fighting, struck>>
        /\ IF ahead = "unused" THEN /\ polls' = [polls EXCEPT ![i] = 0]
                                   /\ first' = [first EXCEPT ![i] = None]
                                   /\ second' = [second EXCEPT ![i] = None]
                              ELSE UNCHANGED <<polls, first, second>>
        /\ UNCHANGED <<objects, ready, fightRoomMap, requests, mixed, crashed>>
     \/ Crash(s)

ReleaseFirst(i)  == Release(i, first[i], "release1", "release2")
ReleaseSecond(i) == Release(i, second[i], "release2", "unused")

-----------------------------------------------------------------------------

Handle(s) ==
  /\ ~crashed
  /\ \/ CheckCreate(s) \/ InsertRoom(s)
     \/ FindRoom(s) \/ RecheckRoom(s) \/ RemoveFightRoom(s)
     \/ CancelDone(s) \/ RefuseDone(s) \/ JoinAnswer(s) \/ StartFight(s)

Client(s) ==
  /\ ~crashed
  /\ \/ Connect(s) \/ Disconnect(s) \/ UserFightReady(s)
     \/ RequestCreate(s) \/ RequestCancel(s)
     \/ \E f \in Fd : RequestJoin(s, f) \/ RequestRefuse(s, f)

Run(i) ==
  /\ ~crashed
  /\ PollFirst(i) \/ PollSecond(i) \/ EndFight(i) \/ ReleaseFirst(i) \/ ReleaseSecond(i)

Next ==
  \/ \E s \in Session : Handle(s) \/ Client(s)
  \/ \E i \in FightId : Run(i)

Spec == Init /\ [][Next]_vars

(***************************************************************************)
(* The threads of the pool run; fighting() comes to an end, which needs    *)
(* random numbers and is not shown here.  Users owe nothing.  StartFight   *)
(* waits for one of the bounded FightId only in the model, the queue of    *)
(* the pool is never full: strong fairness makes up for that wait.         *)
(***************************************************************************)
FairSpec ==
  /\ Spec
  /\ \A s \in Session : WF_vars(Handle(s)) /\ SF_vars(~crashed /\ StartFight(s))
  /\ \A i \in FightId : WF_vars(Run(i))

-----------------------------------------------------------------------------
(* Properties.                                                             *)

TypeOK ==
  /\ life \in [Session -> {"unborn", "open", "gone"}]
  /\ fighting \in [Session -> BOOLEAN] /\ ready \in [Session -> BOOLEAN]
  /\ fightRoomMap \in [Fd -> Session \cup {None}]
  /\ pc \in [Session -> PC] /\ op \in [Session -> Op]
  /\ room \in [Session -> Session \cup {None}]
  /\ connfd \in [Session -> Fd \cup {None}]
  /\ fd \in [Session -> Fd \cup {None}]
  /\ stage \in [FightId -> Stage]
  /\ polls \in [FightId -> 0..CHECK_TIME]
  /\ first \in [FightId -> Session \cup {None}]
  /\ second \in [FightId -> Session \cup {None}]
  /\ mixed \in SUBSET Session /\ struck \in SUBSET Session
  /\ place \in [Session -> Session]
  /\ crashed \in BOOLEAN

\* The fights that have not released s yet.
FightsOf(s) ==
  {i \in FightId : \/ first[i] = s /\ stage[i] \in {"poll1", "poll2", "fight", "release1"}
                   \/ second[i] = s /\ stage[i] # "unused"}

\* The requests that hold s: those of s itself that have set its flag or are
\* about to clear it, and those that have taken its room.
RequestsOf(s) ==
  {t \in Session :
     \/ t = s /\ op[t] \in {"create", "join"}
     \/ t = s /\ op[t] = "cancel" /\ pc[t] = "removed"
     \/ room[t] = s /\ op[t] \in {"join", "refuse"} /\ pc[t] \in {"removed", "start"}}

\* A descriptor that a session had which is gone.
Reused(f) == \E t \in Session : life[t] = "gone" /\ connfd[t] = f

\* The requests between taking a room and adding the task of the fight.
Matching == {t \in Session : op[t] = "join" /\ pc[t] \in {"removed", "start"}}

RoomOf(s) == {f \in Fd : fightRoomMap[f] = s}

(* Nobody is locked out: a session with the flag fighting, which has every *)
(* request but two refused, is held by something that will clear the flag  *)
(* or can be made to: a request, its room, or a fight                      *)
(* (requestHanlder.h:131-180, fightManage.h, userFightTask.h:43-64).  This *)
(* is so whatever requests race for its room, unless its descriptor had    *)
(* another owner and rooms were mistaken.                                  *)
FightingIsOwned ==
  \A s \in Session :
    life[s] = "open" /\ fighting[s] /\ ~(s \in mixed /\ Reused(connfd[s])) =>
    RequestsOf(s) \cup RoomOf(s) \cup FightsOf(s) # {}

(* Without two requests taking one room, and unless it was let go in the   *)
(* place of a session that is gone, a session is held by one request, room *)
(* or fight at a time, and keeps the flag as long as it is                 *)
(* (fightManage.h:108-243, userFightTask.h:50-62).                         *)
OneFightAtATime ==
  \A s \in Session \ (mixed \cup struck) : life[s] = "open" =>
    LET holders == Cardinality(RequestsOf(s)) + Cardinality(RoomOf(s)) +
                   Cardinality(FightsOf(s))
    IN  holders <= 1 /\ (holders = 1 => fighting[s])

\* The match s is in: a request that has taken a room, and then the fight.
Matches(s) ==
  {room[t] : t \in {s} \cap Matching} \cup {t \in Matching : room[t] = s}
    \cup {second[i] : i \in {j \in FightsOf(s) : first[j] = s}}
    \cup {first[i] : i \in {j \in FightsOf(s) : second[j] = s}}

ChallengeState ==
  [s \in Session |-> IF Matches(s) # {} THEN "matched"
                     ELSE IF RoomOf(s) # {} THEN "waiting" ELSE "free"]

ChallengeOpponent ==
  [s \in Session |-> IF Matches(s) # {} THEN CHOOSE t \in Matches(s) : TRUE ELSE None]

Promised == INSTANCE Challenge
              WITH state <- ChallengeState, opponent <- ChallengeOpponent

(* Rooms, requests, flags and fight tasks implement the abstract challenge *)
(* as long as no rooms and no sessions are mistaken: a challenge is        *)
(* accepted by one user who is free, the two stay matched with each other  *)
(* without a gap while they are handed from the request to the task, and   *)
(* each is let go once (fightManage.h:131-253, userFightTask.h:43-64).     *)
ImplementsChallenge ==
  /\ Promised!Init
  /\ [][mixed' \cup struck' = {} => Promised!Next]_<<ChallengeState, ChallengeOpponent>>

=============================================================================
