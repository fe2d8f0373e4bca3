------------------------------ MODULE DuelProofs ------------------------------
(***************************************************************************)
(* Theorems of Duel, for any number of sessions, descriptors and fights:   *)
(* who holds a session that is fighting, that this is one thing at a time, *)
(* and that rooms and tasks together implement Challenge.                  *)
(***************************************************************************)
EXTENDS Duel, FiniteSetTheorems, TLAPS

(* The inductive invariant, one conjunct per idea.                         *)

\* A session has its descriptor from accept on, and alone while it is open.
Descriptors ==
  /\ \A s \in Session :
       IF life[s] = "unborn" THEN ~fighting[s] ELSE connfd[s] \in Fd
  /\ \A s, t \in Session :
       life[s] = "open" /\ life[t] = "open" /\ connfd[s] = connfd[t] => s = t

\* The local variables of a handler.
Handlers ==
  \A t \in Session :
    /\ pc[t] = "idle" <=> op[t] = "none"
    /\ pc[t] = "idle" => room[t] = None
    /\ pc[t] # "idle" => life[t] = "open" /\ fd[t] \in Fd
    /\ op[t] \in {"create", "cancel"} => fd[t] = connfd[t]
    /\ op[t] = "create" => pc[t] \in {"begin", "insert"}
    /\ pc[t] = "insert" => op[t] = "create" /\ fightRoomMap[connfd[t]] = None
    /\ pc[t] = "start" => op[t] = "join"
    /\ pc[t] \in {"recheck", "remove", "removed", "start"} => room[t] # None

\* What points at a session: it has been there, under the descriptor by which
\* its room was found.
Born(s) == s \in Session /\ life[s] # "unborn"

Pointers ==
  /\ \A f \in Fd : fightRoomMap[f] # None =>
       Born(fightRoomMap[f]) /\ connfd[fightRoomMap[f]] = f
  /\ \A t \in Session : room[t] # None =>
       Born(room[t]) /\ connfd[room[t]] = fd[t]
  /\ \A i \in FightId : stage[i] # "unused" => Born(first[i]) /\ Born(second[i])

\* A task that still polls has polls left.
Polling ==
  \A i \in FightId :
    /\ stage[i] = "unused" => polls[i] = 0
    /\ stage[i] \in {"poll1", "poll2"} => polls[i] < CHECK_TIME

AtMostOne(S) == \A x, y \in S : x = y

\* One request, one room or one fight; and the flag as long as there is one.
OneHolder(s) ==
  /\ AtMostOne(RequestsOf(s)) /\ AtMostOne(RoomOf(s)) /\ AtMostOne(FightsOf(s))
  /\ RequestsOf(s) = {} \/ RoomOf(s) = {}
  /\ RequestsOf(s) = {} \/ FightsOf(s) = {}
  /\ RoomOf(s) = {} \/ FightsOf(s) = {}

Held(s) == RequestsOf(s) \cup RoomOf(s) \cup FightsOf(s) # {}

\* The sessions that were taken for another, or whose room was.
Mistaken(s) == s \in mixed \/ s \in struck

NoMistakes == mixed = {} /\ struck = {}

Exclusion ==
  \A s \in Session :
    \/ Mistaken(s)
    \/ OneHolder(s) /\ (life[s] = "open" /\ Held(s) => fighting[s])

\* Nobody is matched with itself.
Distinct ==
  /\ \A t \in Matching : room[t] # t \/ Mistaken(t)
  /\ \A i \in FightId : stage[i] # "unused" => first[i] # second[i] \/ Mistaken(first[i])

IInv ==
  /\ TypeOK
  /\ Descriptors
  /\ Handlers
  /\ Pointers
  /\ Polling
  /\ FightingIsOwned
  /\ Exclusion
  /\ Distinct

USE DuelAssumption DEF DuelAssumption, Op, PC, Stage, objects, flags, requests, fights, outcomes, vars,
    Mistaken, NoMistakes

-----------------------------------------------------------------------------
(* What a poll does, whatever it finds.                                    *)

Polls(i, n, to) ==
  /\ stage' = [stage EXCEPT ![i] = to]
  /\ polls' = [polls EXCEPT ![i] = n]
  /\ to \in {"poll1", "poll2"} => n < CHECK_TIME
  /\ stage[i] \in {"poll1", "poll2"}
  /\ UNCHANGED <<objects, flags, fightRoomMap, requests, first, second, outcomes>>

\* A poll changes its counter and its stage, and ends after CHECK_TIME polls.
LEMMA PollEffect ==
  ASSUME TypeOK, Polling, NEW i \in FightId, PollFirst(i) \/ PollSecond(i)
  PROVE  \E n \in 0..CHECK_TIME, to \in {"poll1", "poll2", "fight", "release1"} :
           Polls(i, n, to)
<1> SUFFICES ASSUME NEW s, NEW here \in {"poll1", "poll2"}, NEW ahead \in {"poll2", "fight"},
                    Poll(i, s, here, ahead)
             PROVE  \E n \in 0..CHECK_TIME, to \in {"poll1", "poll2", "fight", "release1"} :
                      Polls(i, n, to)
  BY DEF PollFirst, PollSecond
<1>1. polls[i] \in Nat /\ polls[i] < CHECK_TIME /\ polls \in [FightId -> 0..CHECK_TIME] /\ stage[i] = here
  BY DEF Poll, TypeOK, Polling
<1>2. CASE NotReady(i, here)
  <2>1. Polls(i, polls[i] + 1, IF polls[i] + 1 < CHECK_TIME THEN "poll1" ELSE "release1")
    BY <1>1, <1>2 DEF Poll, NotReady, Advance, Polls
  <2>. QED
    BY <1>1, <2>1
<1>3. CASE ~NotReady(i, here)
  <2>1. polls' = [polls EXCEPT ![i] = polls[i]]
    BY <1>1, <1>3 DEF Poll
  <2>2. Polls(i, polls[i], ahead) \/ Polls(i, polls[i], "release1")
    BY <1>1, <1>3, <2>1 DEF Poll, Advance, Polls
  <2>. QED
    BY <1>1, <2>2
<1>. QED
  BY <1>2, <1>3 DEF Poll

(* What the end of a handler leaves.                                       *)

\* The end of a request leaves types as they are.
LEMMA FinishTypes ==
  ASSUME TypeOK, NEW s \in Session, Finish(s)
  PROVE  /\ pc' \in [Session -> PC] /\ op' \in [Session -> Op]
         /\ room' \in [Session -> Session \cup {None}]
         /\ fd' \in [Session -> Fd \cup {None}]
BY DEF TypeOK, Finish

\* So does an answer that there is no room.
LEMMA NoRoomTypes ==
  ASSUME TypeOK, NEW s \in Session, NoRoom(s),
         UNCHANGED <<objects, ready, fightRoomMap, fights, outcomes>>
  PROVE  TypeOK'
<1>1. fighting' \in [Session -> BOOLEAN]
  BY DEF TypeOK, NoRoom, SetFight
<1>2. Finish(s)
  BY DEF NoRoom
<1>. QED
  BY <1>1, <1>2, FinishTypes DEF TypeOK


(* What a create that is refused, and the release of a user, change.       *)

\* A challenge that is refused at once leaves its challenger free, and
\* nothing else.
LEMMA CheckCreateFails ==
  ASSUME TypeOK, NEW s \in Session, CheckCreate(s), pc'[s] # "insert"
  PROVE  /\ UNCHANGED <<objects, outcomes, fightRoomMap, fights>>
         /\ ~fighting'[s]
         /\ \A t \in Session : t # s => (fighting'[t] <=> fighting[t])
         /\ s \in RequestsOf(s)
         /\ \A t \in Session : /\ RequestsOf(t)' = RequestsOf(t) \ {s}
                               /\ RoomOf(t)' = RoomOf(t) /\ FightsOf(t)' = FightsOf(t)
<1>1. /\ UNCHANGED <<objects, outcomes, fightRoomMap, fights>>
      /\ Finish(s) /\ fighting' = [fighting EXCEPT ![s] = FALSE]
      /\ op[s] = "create"
  BY DEF TypeOK, CheckCreate, SetFight, Goto
<1>2. s \in RequestsOf(s)
  BY <1>1 DEF RequestsOf
<1>3. ASSUME NEW t \in Session
      PROVE  /\ RequestsOf(t)' = RequestsOf(t) \ {s}
             /\ RoomOf(t)' = RoomOf(t) /\ FightsOf(t)' = FightsOf(t)
  <2>1. RequestsOf(t)' = RequestsOf(t) \ {s}
    BY <1>1 DEF TypeOK, RequestsOf, Finish
  <2>. QED
    BY <1>1, <2>1 DEF RoomOf, FightsOf
<1>4. ~fighting'[s] /\ \A t \in Session : t # s => (fighting'[t] <=> fighting[t])
  BY <1>1 DEF TypeOK
<1>. QED
  BY <1>1, <1>2, <1>3, <1>4

\* Flags are cleared, and nobody's but s's without a record.
Cleared(s) ==
  /\ fighting' \in [Session -> BOOLEAN]
  /\ struck' \in SUBSET Session /\ struck \subseteq struck'
  /\ \A t \in Session : fighting'[t] => fighting[t]
  /\ \A t \in Session : t # s /\ fighting[t] => fighting'[t] \/ t \in struck'

\* setFight(false) through a pointer, to whomever it reaches.
LEMMA LetGoClears ==
  ASSUME TypeOK, NEW s \in Session, LetGo(s)
  PROVE  Cleared(s) /\ (life[s] # "gone" => ~fighting'[s])
<1>1. CASE life[s] = "gone"
  <2>1. /\ fighting' = [t \in Session |-> fighting[t] /\ t \notin Present(s)]
        /\ struck' = struck \cup {t \in Present(s) : fighting[t]}
    BY <1>1 DEF LetGo
  <2>2. Present(s) \subseteq Session
    BY DEF Present
  <2>3. \A t \in Session : (fighting[t] /\ t \notin Present(s)) \in BOOLEAN
    OBVIOUS
  <2>4. \A t \in Session : fighting'[t] <=> fighting[t] /\ t \notin Present(s)
    BY <2>1
  <2>. QED
    BY <1>1, <2>1, <2>2, <2>3, <2>4 DEF TypeOK, Cleared
<1>2. CASE life[s] # "gone"
  BY <1>2 DEF TypeOK, LetGo, Cleared, SetFight
<1>. QED
  BY <1>1, <1>2

\* A refusal lets go of the creator of the room, or of nobody.
LEMMA RefuseEffect ==
  ASSUME TypeOK, Handlers, NEW s \in Session, RefuseDone(s), ~Crash(room[s])
  PROVE  /\ room[s] \in Session /\ op[s] = "refuse" /\ pc[s] = "removed" /\ Finish(s)
         /\ Cleared(room[s])
         /\ life[room[s]] = "open" /\ FdOpen(fd[s]) => ~fighting'[room[s]]
         /\ UNCHANGED <<objects, ready, fightRoomMap, fights, mixed, crashed>>
<1>1. /\ op[s] = "refuse" /\ pc[s] = "removed" /\ Finish(s)
      /\ IF FdOpen(fd[s]) THEN LetGo(room[s]) ELSE UNCHANGED <<fighting, struck>>
      /\ UNCHANGED <<objects, ready, fightRoomMap, fights, mixed, crashed>>
  BY DEF RefuseDone
<1>2. room[s] \in Session
  BY <1>1 DEF TypeOK, Handlers
<1>3. CASE FdOpen(fd[s])
  BY <1>1, <1>2, <1>3, LetGoClears
<1>4. CASE ~FdOpen(fd[s])
  BY <1>1, <1>2, <1>4 DEF Cleared, TypeOK
<1>. QED
  BY <1>1, <1>2, <1>3, <1>4

\* The fight of s and the creator of the room becomes task i.
Starts(s, i) ==
  /\ op[s] = "join" /\ pc[s] = "start" /\ room[s] \in Session
  /\ stage[i] = "unused" /\ stage' = [stage EXCEPT ![i] = "poll1"]
  /\ \/ first' = [first EXCEPT ![i] = s] /\ second' = [second EXCEPT ![i] = room[s]]
     \/ first' = [first EXCEPT ![i] = room[s]] /\ second' = [second EXCEPT ![i] = s]
  /\ Finish(s) /\ ready' \in [Session -> BOOLEAN]
  /\ UNCHANGED <<objects, fighting, fightRoomMap, polls, outcomes>>

LEMMA StartEffect ==
  ASSUME TypeOK, Handlers, NEW s \in Session, StartFight(s), ~Crash(room[s])
  PROVE  \E i \in FightId : Starts(s, i)
<1>1. room[s] \in Session
  BY DEF TypeOK, Handlers, StartFight
<1>2. ready' \in [Session -> BOOLEAN]
  BY DEF TypeOK, StartFight
<1>. QED
  BY <1>1, <1>2 DEF StartFight, Starts

\* What a task does when it lets go of a user.
LEMMA ReleaseEffect ==
  ASSUME TypeOK, NEW i \in FightId, NEW s \in Session, NEW here, NEW ahead,
         Release(i, s, here, ahead), ~Crash(s)
  PROVE  /\ stage[i] = here /\ stage' = [stage EXCEPT ![i] = ahead]
         /\ Cleared(s)
         /\ life[s] = "open" => ~fighting'[s]
         /\ UNCHANGED <<objects, ready, fightRoomMap, requests, mixed, crashed>>
<1>1. /\ Advance(i, here, ahead)
      /\ \/ TRUE \in PtrOpen(s) /\ LetGo(s)
         \/ FALSE \in PtrOpen(s) /\ UNCHANGED <<fighting, struck>>
      /\ UNCHANGED <<objects, ready, fightRoomMap, requests, mixed, crashed>>
  BY DEF Release
<1>2. CASE LetGo(s)
  BY <1>1, <1>2, LetGoClears DEF Advance
<1>3. CASE life[s] # "open" /\ UNCHANGED <<fighting, struck>>
  BY <1>1, <1>3 DEF Cleared, TypeOK, Advance
<1>. QED
  BY <1>1, <1>2, <1>3 DEF PtrOpen

\* The task of a fight lets go of its first user.
LEMMA ReleaseFirstEffect ==
  ASSUME TypeOK, Pointers, NEW i \in FightId, ReleaseFirst(i), ~Crash(first[i])
  PROVE  /\ first[i] \in Session /\ stage[i] = "release1"
         /\ Cleared(first[i])
         /\ life[first[i]] = "open" => ~fighting'[first[i]]
         /\ \A s \in Session : RequestsOf(s)' = RequestsOf(s) /\ RoomOf(s)' = RoomOf(s)
         /\ \A s \in Session :
              FightsOf(s)' = IF s = first[i] /\ s # second[i] THEN FightsOf(s) \ {i}
                             ELSE FightsOf(s)
         /\ UNCHANGED <<objects, ready, mixed, crashed, requests, fightRoomMap, polls, first, second>>
         /\ stage' = [stage EXCEPT ![i] = "release2"]
<1>1. Release(i, first[i], "release1", "release2")
  BY DEF ReleaseFirst
<1>2. first[i] \in Session
  BY <1>1 DEF TypeOK, Pointers, Born, Release
<1>3. /\ stage[i] = "release1" /\ stage' = [stage EXCEPT ![i] = "release2"]
      /\ Cleared(first[i])
      /\ life[first[i]] = "open" => ~fighting'[first[i]]
      /\ UNCHANGED <<objects, ready, fightRoomMap, requests, mixed, crashed>>
  BY <1>1, <1>2, ReleaseEffect
<1>4. UNCHANGED <<polls, first, second>>
  BY <1>1 DEF Release
<1>5. \A s \in Session : RequestsOf(s)' = RequestsOf(s) /\ RoomOf(s)' = RoomOf(s)
  BY <1>3 DEF RequestsOf, RoomOf
<1>6. ASSUME NEW s \in Session
      PROVE  FightsOf(s)' = IF s = first[i] /\ s # second[i] THEN FightsOf(s) \ {i}
                             ELSE FightsOf(s)
  BY <1>2, <1>3, <1>4 DEF FightsOf, TypeOK
<1>. QED
  BY <1>2, <1>3, <1>4, <1>5, <1>6

\* Then of its second.
LEMMA ReleaseSecondEffect ==
  ASSUME TypeOK, Pointers, NEW i \in FightId, ReleaseSecond(i), ~Crash(second[i])
  PROVE  /\ second[i] \in Session /\ stage[i] = "release2"
         /\ Cleared(second[i])
         /\ life[second[i]] = "open" => ~fighting'[second[i]]
         /\ \A s \in Session : RequestsOf(s)' = RequestsOf(s) /\ RoomOf(s)' = RoomOf(s)
         /\ \A s \in Session : FightsOf(s)' = IF s = second[i] THEN FightsOf(s) \ {i} ELSE FightsOf(s)
         /\ UNCHANGED <<objects, ready, mixed, crashed, requests, fightRoomMap>>
         /\ stage' = [stage EXCEPT ![i] = "unused"]
         /\ polls' = [polls EXCEPT ![i] = 0]
         /\ first' = [first EXCEPT ![i] = None]
         /\ second' = [second EXCEPT ![i] = None]
<1>1. Release(i, second[i], "release2", "unused")
  BY DEF ReleaseSecond
<1>2. second[i] \in Session
  BY <1>1 DEF TypeOK, Pointers, Born, Release
<1>3. /\ stage[i] = "release2" /\ stage' = [stage EXCEPT ![i] = "unused"]
      /\ Cleared(second[i])
      /\ life[second[i]] = "open" => ~fighting'[second[i]]
      /\ UNCHANGED <<objects, ready, fightRoomMap, requests, mixed, crashed>>
  BY <1>1, <1>2, ReleaseEffect
<1>4. /\ polls' = [polls EXCEPT ![i] = 0]
      /\ first' = [first EXCEPT ![i] = None] /\ second' = [second EXCEPT ![i] = None]
  BY <1>1 DEF Release
<1>5. \A s \in Session : RequestsOf(s)' = RequestsOf(s) /\ RoomOf(s)' = RoomOf(s)
  BY <1>3 DEF RequestsOf, RoomOf
<1>6. ASSUME NEW s \in Session
      PROVE  FightsOf(s)' = IF s = second[i] THEN FightsOf(s) \ {i} ELSE FightsOf(s)
  BY <1>2, <1>3, <1>4 DEF FightsOf, TypeOK
<1>. QED
  BY <1>2, <1>3, <1>4, <1>5, <1>6

-----------------------------------------------------------------------------
(* One lemma for each part of the invariant.                               *)

LEMMA TypePreserved ==
  ASSUME TypeOK, Descriptors, Handlers, Pointers, Polling, [Next]_vars
  PROVE  TypeOK'
<1> USE DEF TypeOK
<1>1. ASSUME NEW s \in Session, CheckCreate(s)
      PROVE  TypeOK'
  BY <1>1 DEF CheckCreate, Goto, Finish, SetFight
<1>2. ASSUME NEW s \in Session, InsertRoom(s)
      PROVE  TypeOK'
  BY <1>2 DEF InsertRoom, Finish
<1>3. ASSUME NEW s \in Session, FindRoom(s)
      PROVE  TypeOK'
  <2>1. CASE NoRoom(s)
    BY <1>3, <2>1, NoRoomTypes DEF FindRoom
  <2>2. CASE ~NoRoom(s)
    BY <1>3, <2>2 DEF FindRoom, Goto, Handlers
  <2>. QED
    BY <2>1, <2>2
<1>4. ASSUME NEW s \in Session, RecheckRoom(s)
      PROVE  TypeOK'
  <2>1. CASE NoRoom(s)
    BY <1>4, <2>1, NoRoomTypes DEF RecheckRoom
  <2>2. CASE ~NoRoom(s)
    BY <1>4, <2>2 DEF RecheckRoom, Goto
  <2>. QED
    BY <2>1, <2>2
<1>5. ASSUME NEW s \in Session, RemoveFightRoom(s)
      PROVE  TypeOK'
  BY <1>5 DEF RemoveFightRoom, Goto, Handlers
<1>6. ASSUME NEW s \in Session, CancelDone(s)
      PROVE  TypeOK'
  BY <1>6 DEF CancelDone, Finish, SetFight
<1>7. ASSUME NEW s \in Session, RefuseDone(s), ~Crash(room[s])
      PROVE  TypeOK'
  BY <1>7, RefuseEffect, FinishTypes DEF Cleared
<1>8. ASSUME NEW s \in Session, JoinAnswer(s), ~Crash(room[s])
      PROVE  TypeOK'
  BY <1>8 DEF JoinAnswer, Goto, Finish, SetFight
<1>9. ASSUME NEW s \in Session, StartFight(s), ~Crash(room[s])
      PROVE  TypeOK'
  <2>1. PICK i \in FightId : Starts(s, i)
    BY <1>9, StartEffect
  <2>2. /\ stage' \in [FightId -> Stage]
        /\ first' \in [FightId -> Session \cup {None}]
        /\ second' \in [FightId -> Session \cup {None}]
    BY <2>1 DEF Starts
  <2>. QED
    BY <2>1, <2>2, FinishTypes DEF Starts
<1>10. ASSUME NEW s \in Session, Connect(s)
       PROVE  TypeOK'
  BY <1>10 DEF Connect, FdOpen
<1>11. ASSUME NEW s \in Session, Disconnect(s)
       PROVE  TypeOK'
  BY <1>11 DEF Disconnect, SetFight
<1>12. ASSUME NEW s \in Session, UserFightReady(s)
       PROVE  TypeOK'
  BY <1>12 DEF UserFightReady
<1>13. ASSUME NEW s \in Session, RequestCreate(s)
       PROVE  TypeOK'
  BY <1>13 DEF RequestCreate, Request, Goto, SetFight
<1>14. ASSUME NEW s \in Session, RequestCancel(s)
       PROVE  TypeOK'
  BY <1>14 DEF RequestCancel, Request, Goto
<1>15. ASSUME NEW s \in Session, NEW f \in Fd, RequestJoin(s, f)
       PROVE  TypeOK'
  BY <1>15 DEF RequestJoin, Request, Goto, SetFight
<1>16. ASSUME NEW s \in Session, NEW f \in Fd, RequestRefuse(s, f)
       PROVE  TypeOK'
  BY <1>16 DEF RequestRefuse, Request, Goto
<1>17. ASSUME NEW i \in FightId, PollFirst(i)
       PROVE  TypeOK'
  BY <1>17, PollEffect DEF Polls
<1>18. ASSUME NEW i \in FightId, PollSecond(i)
       PROVE  TypeOK'
  BY <1>18, PollEffect DEF Polls
<1>19. ASSUME NEW i \in FightId, EndFight(i)
       PROVE  TypeOK'
  BY <1>19 DEF EndFight, Advance
<1>20. ASSUME NEW i \in FightId, ReleaseFirst(i), ~Crash(first[i])
       PROVE  TypeOK'
  BY <1>20, ReleaseFirstEffect DEF Cleared
<1>21. ASSUME NEW i \in FightId, ReleaseSecond(i), ~Crash(second[i])
       PROVE  TypeOK'
  BY <1>21, ReleaseSecondEffect DEF Cleared
<1>22. CASE UNCHANGED vars
  BY <1>22
<1>23. ASSUME NEW s, Crash(s)
       PROVE  TypeOK'
  BY <1>23 DEF Crash
<1>. QED
  BY <1>1, <1>2, <1>3, <1>4, <1>5, <1>6, <1>7, <1>8, <1>9, <1>10, <1>11,
     <1>12, <1>13, <1>14, <1>15, <1>16, <1>17, <1>18, <1>19, <1>20, <1>21,
     <1>22, <1>23 DEF Next, Handle, Client, Run

LEMMA DescriptorsPreserved ==
  ASSUME TypeOK, Descriptors, Handlers, Pointers, Polling, [Next]_vars
  PROVE  Descriptors'
<1> USE DEF TypeOK, Descriptors
<1>1. ASSUME NEW s \in Session, CheckCreate(s)
      PROVE  Descriptors'
  BY <1>1 DEF CheckCreate, Goto, Finish, SetFight
<1>2. ASSUME NEW s \in Session, InsertRoom(s)
      PROVE  Descriptors'
  BY <1>2 DEF InsertRoom, Finish
<1>3. ASSUME NEW s \in Session, FindRoom(s)
      PROVE  Descriptors'
  BY <1>3 DEF FindRoom, NoRoom, Goto, Finish, SetFight
<1>4. ASSUME NEW s \in Session, RecheckRoom(s)
      PROVE  Descriptors'
  BY <1>4 DEF RecheckRoom, NoRoom, Goto, Finish, SetFight
<1>5. ASSUME NEW s \in Session, RemoveFightRoom(s)
      PROVE  Descriptors'
  BY <1>5 DEF RemoveFightRoom, Goto
<1>6. ASSUME NEW s \in Session, CancelDone(s)
      PROVE  Descriptors'
  BY <1>6 DEF CancelDone, Finish, SetFight
<1>7. ASSUME NEW s \in Session, RefuseDone(s), ~Crash(room[s])
      PROVE  Descriptors'
  BY <1>7, RefuseEffect DEF Cleared, Finish
<1>8. ASSUME NEW s \in Session, JoinAnswer(s), ~Crash(room[s])
      PROVE  Descriptors'
  BY <1>8 DEF JoinAnswer, Goto, Finish, SetFight
<1>9. ASSUME NEW s \in Session, StartFight(s), ~Crash(room[s])
      PROVE  Descriptors'
  BY <1>9 DEF StartFight, Finish
<1>10. ASSUME NEW s \in Session, Connect(s)
       PROVE  Descriptors'
  BY <1>10 DEF Connect, FdOpen
<1>11. ASSUME NEW s \in Session, Disconnect(s)
       PROVE  Descriptors'
  BY <1>11 DEF Disconnect, SetFight
<1>12. ASSUME NEW s \in Session, UserFightReady(s)
       PROVE  Descriptors'
  BY <1>12 DEF UserFightReady
<1>13. ASSUME NEW s \in Session, RequestCreate(s)
       PROVE  Descriptors'
  BY <1>13 DEF RequestCreate, Request, Goto, SetFight
<1>14. ASSUME NEW s \in Session, RequestCancel(s)
       PROVE  Descriptors'
  BY <1>14 DEF RequestCancel, Request, Goto
<1>15. ASSUME NEW s \in Session, NEW f \in Fd, RequestJoin(s, f)
       PROVE  Descriptors'
  BY <1>15 DEF RequestJoin, Request, Goto, SetFight
<1>16. ASSUME NEW s \in Session, NEW f \in Fd, RequestRefuse(s, f)
       PROVE  Descriptors'
  BY <1>16 DEF RequestRefuse, Request, Goto
<1>17. ASSUME NEW i \in FightId, PollFirst(i)
       PROVE  Descriptors'
  BY <1>17, PollEffect DEF Polls
<1>18. ASSUME NEW i \in FightId, PollSecond(i)
       PROVE  Descriptors'
  BY <1>18, PollEffect DEF Polls
<1>19. ASSUME NEW i \in FightId, EndFight(i)
       PROVE  Descriptors'
  BY <1>19 DEF EndFight, Advance
<1>20. ASSUME NEW i \in FightId, ReleaseFirst(i), ~Crash(first[i])
       PROVE  Descriptors'
  BY <1>20, ReleaseFirstEffect DEF Cleared
<1>21. ASSUME NEW i \in FightId, ReleaseSecond(i), ~Crash(second[i])
       PROVE  Descriptors'
  BY <1>21, ReleaseSecondEffect DEF Cleared
<1>22. CASE UNCHANGED vars
  BY <1>22
<1>23. ASSUME NEW s, Crash(s)
       PROVE  Descriptors'
  BY <1>23 DEF Crash
<1>. QED
  BY <1>1, <1>2, <1>3, <1>4, <1>5, <1>6, <1>7, <1>8, <1>9, <1>10, <1>11,
     <1>12, <1>13, <1>14, <1>15, <1>16, <1>17, <1>18, <1>19, <1>20, <1>21,
     <1>22, <1>23 DEF Next, Handle, Client, Run

LEMMA HandlersPreserved ==
  ASSUME TypeOK, Descriptors, Handlers, Pointers, Polling, [Next]_vars
  PROVE  Handlers'
<1> USE DEF TypeOK, Handlers
<1>1. ASSUME NEW s \in Session, CheckCreate(s)
      PROVE  Handlers'
  BY <1>1 DEF CheckCreate, Goto, Finish, SetFight
<1>2. ASSUME NEW s \in Session, InsertRoom(s)
      PROVE  Handlers'
  BY <1>2 DEF InsertRoom, Finish, Descriptors
<1>3. ASSUME NEW s \in Session, FindRoom(s)
      PROVE  Handlers'
  BY <1>3 DEF FindRoom, NoRoom, Goto, Finish, SetFight, Pointers
<1>4. ASSUME NEW s \in Session, RecheckRoom(s)
      PROVE  Handlers'
  BY <1>4 DEF RecheckRoom, NoRoom, Goto, Finish, SetFight
<1>5. ASSUME NEW s \in Session, RemoveFightRoom(s)
      PROVE  Handlers'
  BY <1>5 DEF RemoveFightRoom, Goto
<1>6. ASSUME NEW s \in Session, CancelDone(s)
      PROVE  Handlers'
  BY <1>6 DEF CancelDone, Finish, SetFight
<1>7. ASSUME NEW s \in Session, RefuseDone(s), ~Crash(room[s])
      PROVE  Handlers'
  BY <1>7, RefuseEffect DEF Cleared, Finish
<1>8. ASSUME NEW s \in Session, JoinAnswer(s), ~Crash(room[s])
      PROVE  Handlers'
  BY <1>8 DEF JoinAnswer, Goto, Finish, SetFight
<1>9. ASSUME NEW s \in Session, StartFight(s), ~Crash(room[s])
      PROVE  Handlers'
  BY <1>9 DEF StartFight, Finish
<1>10. ASSUME NEW s \in Session, Connect(s)
       PROVE  Handlers'
  BY <1>10 DEF Connect, FdOpen
<1>11. ASSUME NEW s \in Session, Disconnect(s)
       PROVE  Handlers'
  BY <1>11 DEF Disconnect, SetFight
<1>12. ASSUME NEW s \in Session, UserFightReady(s)
       PROVE  Handlers'
  BY <1>12 DEF UserFightReady
<1>13. ASSUME NEW s \in Session, RequestCreate(s)
       PROVE  Handlers'
  BY <1>13 DEF RequestCreate, Request, Goto, SetFight, Descriptors
<1>14. ASSUME NEW s \in Session, RequestCancel(s)
       PROVE  Handlers'
  BY <1>14 DEF RequestCancel, Request, Goto, Descriptors
<1>15. ASSUME NEW s \in Session, NEW f \in Fd, RequestJoin(s, f)
       PROVE  Handlers'
  BY <1>15 DEF RequestJoin, Request, Goto, SetFight
<1>16. ASSUME NEW s \in Session, NEW f \in Fd, RequestRefuse(s, f)
       PROVE  Handlers'
  BY <1>16 DEF RequestRefuse, Request, Goto
<1>17. ASSUME NEW i \in FightId, PollFirst(i)
       PROVE  Handlers'
  BY <1>17, PollEffect DEF Polls
<1>18. ASSUME NEW i \in FightId, PollSecond(i)
       PROVE  Handlers'
  BY <1>18, PollEffect DEF Polls
<1>19. ASSUME NEW i \in FightId, EndFight(i)
       PROVE  Handlers'
  BY <1>19 DEF EndFight, Advance
<1>20. ASSUME NEW i \in FightId, ReleaseFirst(i), ~Crash(first[i])
       PROVE  Handlers'
  BY <1>20, ReleaseFirstEffect DEF Cleared
<1>21. ASSUME NEW i \in FightId, ReleaseSecond(i), ~Crash(second[i])
       PROVE  Handlers'
  BY <1>21, ReleaseSecondEffect DEF Cleared
<1>22. CASE UNCHANGED vars
  BY <1>22
<1>23. ASSUME NEW s, Crash(s)
       PROVE  Handlers'
  BY <1>23 DEF Crash
<1>. QED
  BY <1>1, <1>2, <1>3, <1>4, <1>5, <1>6, <1>7, <1>8, <1>9, <1>10, <1>11,
     <1>12, <1>13, <1>14, <1>15, <1>16, <1>17, <1>18, <1>19, <1>20, <1>21,
     <1>22, <1>23 DEF Next, Handle, Client, Run

LEMMA PointersPreserved ==
  ASSUME TypeOK, Descriptors, Handlers, Pointers, Polling, [Next]_vars
  PROVE  Pointers'
<1> USE DEF TypeOK, Pointers, Born
<1>1. ASSUME NEW s \in Session, CheckCreate(s)
      PROVE  Pointers'
  BY <1>1 DEF CheckCreate, Goto, Finish, SetFight
<1>2. ASSUME NEW s \in Session, InsertRoom(s)
      PROVE  Pointers'
  BY <1>2 DEF InsertRoom, Finish, Handlers, Descriptors
<1>3. ASSUME NEW s \in Session, FindRoom(s)
      PROVE  Pointers'
  BY <1>3 DEF FindRoom, NoRoom, Goto, Finish, SetFight, Handlers, Descriptors
<1>4. ASSUME NEW s \in Session, RecheckRoom(s)
      PROVE  Pointers'
  BY <1>4 DEF RecheckRoom, NoRoom, Goto, Finish, SetFight
<1>5. ASSUME NEW s \in Session, RemoveFightRoom(s)
      PROVE  Pointers'
  BY <1>5 DEF RemoveFightRoom, Goto
<1>6. ASSUME NEW s \in Session, CancelDone(s)
      PROVE  Pointers'
  BY <1>6 DEF CancelDone, Finish, SetFight
<1>7. ASSUME NEW s \in Session, RefuseDone(s), ~Crash(room[s])
      PROVE  Pointers'
  BY <1>7, RefuseEffect DEF Cleared, Finish
<1>8. ASSUME NEW s \in Session, JoinAnswer(s), ~Crash(room[s])
      PROVE  Pointers'
  BY <1>8 DEF JoinAnswer, Goto, Finish, SetFight
<1>9. ASSUME NEW s \in Session, StartFight(s), ~Crash(room[s])
      PROVE  Pointers'
  <2>1. PICK i \in FightId : Starts(s, i)
    BY <1>9, StartEffect
  <2>. QED
    BY <1>9, <2>1 DEF Starts, Finish, Handlers, Descriptors
<1>10. ASSUME NEW s \in Session, Connect(s)
       PROVE  Pointers'
  BY <1>10 DEF Connect, FdOpen, Descriptors
<1>11. ASSUME NEW s \in Session, Disconnect(s)
       PROVE  Pointers'
  BY <1>11 DEF Disconnect, SetFight
<1>12. ASSUME NEW s \in Session, UserFightReady(s)
       PROVE  Pointers'
  BY <1>12 DEF UserFightReady
<1>13. ASSUME NEW s \in Session, RequestCreate(s)
       PROVE  Pointers'
  BY <1>13 DEF RequestCreate, Request, Goto, SetFight, Handlers
<1>14. ASSUME NEW s \in Session, RequestCancel(s)
       PROVE  Pointers'
  BY <1>14 DEF RequestCancel, Request, Goto, Handlers
<1>15. ASSUME NEW s \in Session, NEW f \in Fd, RequestJoin(s, f)
       PROVE  Pointers'
  BY <1>15 DEF RequestJoin, Request, Goto, SetFight, Handlers
<1>16. ASSUME NEW s \in Session, NEW f \in Fd, RequestRefuse(s, f)
       PROVE  Pointers'
  BY <1>16 DEF RequestRefuse, Request, Goto, Handlers
<1>17. ASSUME NEW i \in FightId, PollFirst(i)
       PROVE  Pointers'
  BY <1>17, PollEffect DEF Polls
<1>18. ASSUME NEW i \in FightId, PollSecond(i)
       PROVE  Pointers'
  BY <1>18, PollEffect DEF Polls
<1>19. ASSUME NEW i \in FightId, EndFight(i)
       PROVE  Pointers'
  BY <1>19 DEF EndFight, Advance
<1>20. ASSUME NEW i \in FightId, ReleaseFirst(i), ~Crash(first[i])
       PROVE  Pointers'
  BY <1>20, ReleaseFirstEffect DEF Cleared
<1>21. ASSUME NEW i \in FightId, ReleaseSecond(i), ~Crash(second[i])
       PROVE  Pointers'
  BY <1>21, ReleaseSecondEffect DEF Cleared
<1>22. CASE UNCHANGED vars
  BY <1>22
<1>23. ASSUME NEW s, Crash(s)
       PROVE  Pointers'
  BY <1>23 DEF Crash
<1>. QED
  BY <1>1, <1>2, <1>3, <1>4, <1>5, <1>6, <1>7, <1>8, <1>9, <1>10, <1>11,
     <1>12, <1>13, <1>14, <1>15, <1>16, <1>17, <1>18, <1>19, <1>20, <1>21,
     <1>22, <1>23 DEF Next, Handle, Client, Run

LEMMA PollingPreserved ==
  ASSUME TypeOK, Handlers, Pointers, Polling, [Next]_vars
  PROVE  Polling'
<1> USE DEF TypeOK, Polling
<1>1. ASSUME NEW s \in Session, CheckCreate(s)
      PROVE  Polling'
  BY <1>1 DEF CheckCreate, Goto, Finish, SetFight
<1>2. ASSUME NEW s \in Session, InsertRoom(s)
      PROVE  Polling'
  BY <1>2 DEF InsertRoom, Finish
<1>3. ASSUME NEW s \in Session, FindRoom(s)
      PROVE  Polling'
  BY <1>3 DEF FindRoom, NoRoom, Goto, Finish, SetFight
<1>4. ASSUME NEW s \in Session, RecheckRoom(s)
      PROVE  Polling'
  BY <1>4 DEF RecheckRoom, NoRoom, Goto, Finish, SetFight
<1>5. ASSUME NEW s \in Session, RemoveFightRoom(s)
      PROVE  Polling'
  BY <1>5 DEF RemoveFightRoom, Goto
<1>6. ASSUME NEW s \in Session, CancelDone(s)
      PROVE  Polling'
  BY <1>6 DEF CancelDone, Finish, SetFight
<1>7. ASSUME NEW s \in Session, RefuseDone(s), ~Crash(room[s])
      PROVE  Polling'
  BY <1>7, RefuseEffect DEF Cleared, Finish
<1>8. ASSUME NEW s \in Session, JoinAnswer(s), ~Crash(room[s])
      PROVE  Polling'
  BY <1>8 DEF JoinAnswer, Goto, Finish, SetFight
<1>9. ASSUME NEW s \in Session, StartFight(s), ~Crash(room[s])
      PROVE  Polling'
  BY <1>9 DEF StartFight, Finish
<1>10. ASSUME NEW s \in Session, Connect(s)
       PROVE  Polling'
  BY <1>10 DEF Connect, FdOpen
<1>11. ASSUME NEW s \in Session, Disconnect(s)
       PROVE  Polling'
  BY <1>11 DEF Disconnect, SetFight
<1>12. ASSUME NEW s \in Session, UserFightReady(s)
       PROVE  Polling'
  BY <1>12 DEF UserFightReady
<1>13. ASSUME NEW s \in Session, RequestCreate(s)
       PROVE  Polling'
  BY <1>13 DEF RequestCreate, Request, Goto, SetFight
<1>14. ASSUME NEW s \in Session, RequestCancel(s)
       PROVE  Polling'
  BY <1>14 DEF RequestCancel, Request, Goto
<1>15. ASSUME NEW s \in Session, NEW f \in Fd, RequestJoin(s, f)
       PROVE  Polling'
  BY <1>15 DEF RequestJoin, Request, Goto, SetFight
<1>16. ASSUME NEW s \in Session, NEW f \in Fd, RequestRefuse(s, f)
       PROVE  Polling'
  BY <1>16 DEF RequestRefuse, Request, Goto
<1>17. ASSUME NEW i \in FightId, PollFirst(i)
       PROVE  Polling'
  BY <1>17, PollEffect DEF Polls
<1>18. ASSUME NEW i \in FightId, PollSecond(i)
       PROVE  Polling'
  BY <1>18, PollEffect DEF Polls
<1>19. ASSUME NEW i \in FightId, EndFight(i)
       PROVE  Polling'
  BY <1>19 DEF EndFight, Advance
<1>20. ASSUME NEW i \in FightId, ReleaseFirst(i), ~Crash(first[i])
       PROVE  Polling'
  BY <1>20, ReleaseFirstEffect DEF Cleared
<1>21. ASSUME NEW i \in FightId, ReleaseSecond(i), ~Crash(second[i])
       PROVE  Polling'
  BY <1>21, ReleaseSecondEffect DEF Cleared
<1>22. CASE UNCHANGED vars
  BY <1>22
<1>23. ASSUME NEW s, Crash(s)
       PROVE  Polling'
  BY <1>23 DEF Crash
<1>. QED
  BY <1>1, <1>2, <1>3, <1>4, <1>5, <1>6, <1>7, <1>8, <1>9, <1>10, <1>11,
     <1>12, <1>13, <1>14, <1>15, <1>16, <1>17, <1>18, <1>19, <1>20, <1>21,
     <1>22, <1>23 DEF Next, Handle, Client, Run

\* What a task lets go of stays with nobody, unless it has another owner.
LEMMA ReleaseKeepsOwned ==
  ASSUME TypeOK, Pointers, FightingIsOwned, NEW i \in FightId,
         \/ ReleaseFirst(i) /\ ~Crash(first[i])
         \/ ReleaseSecond(i) /\ ~Crash(second[i])
  PROVE  FightingIsOwned'
<1>1. ASSUME ReleaseFirst(i) /\ ~Crash(first[i]) PROVE FightingIsOwned'
  <2>1. \A s \in Session : RequestsOf(s)' = RequestsOf(s) /\ RoomOf(s)' = RoomOf(s)
    BY <1>1, ReleaseFirstEffect
  <2>2. \A s \in Session : s # first[i] => FightsOf(s)' = FightsOf(s)
    BY <1>1, ReleaseFirstEffect
  <2>3. /\ first[i] \in Session
        /\ life[first[i]] = "open" => ~fighting'[first[i]]
        /\ \A t \in Session : fighting'[t] => fighting[t]
        /\ UNCHANGED <<life, connfd, mixed>>
    BY <1>1, ReleaseFirstEffect DEF Cleared
  <2>. QED
    BY <2>1, <2>2, <2>3 DEF FightingIsOwned, Reused
<1>2. ASSUME ReleaseSecond(i) /\ ~Crash(second[i]) PROVE FightingIsOwned'
  <2>1. \A s \in Session : RequestsOf(s)' = RequestsOf(s) /\ RoomOf(s)' = RoomOf(s)
    BY <1>2, ReleaseSecondEffect
  <2>2. \A s \in Session : s # second[i] => FightsOf(s)' = FightsOf(s)
    BY <1>2, ReleaseSecondEffect
  <2>3. /\ second[i] \in Session
        /\ life[second[i]] = "open" => ~fighting'[second[i]]
        /\ \A t \in Session : fighting'[t] => fighting[t]
        /\ UNCHANGED <<life, connfd, mixed>>
    BY <1>2, ReleaseSecondEffect DEF Cleared
  <2>. QED
    BY <2>1, <2>2, <2>3 DEF FightingIsOwned, Reused
<1>. QED
  BY <1>1, <1>2

\* A refusal that lets nobody go leaves the request of the creator's own.
LEMMA RefuseKeepsOwned ==
  ASSUME TypeOK, Handlers, Pointers, Descriptors, FightingIsOwned, NEW s \in Session,
         RefuseDone(s), ~Crash(room[s])
  PROVE  FightingIsOwned'
<1>1. /\ room[s] \in Session /\ op[s] = "refuse" /\ Finish(s)
      /\ life[room[s]] = "open" /\ FdOpen(fd[s]) => ~fighting'[room[s]]
      /\ \A t \in Session : fighting'[t] => fighting[t]
      /\ UNCHANGED <<life, connfd, mixed, fightRoomMap, fights>>
  BY RefuseEffect DEF Cleared
<1>2. life[room[s]] = "open" => ~fighting'[room[s]]
  BY <1>1 DEF Pointers, FdOpen
<1>3. \A t \in Session : RoomOf(t)' = RoomOf(t) /\ FightsOf(t)' = FightsOf(t)
  BY <1>1 DEF RoomOf, FightsOf
<1>4. \A t \in Session : t # room[s] => RequestsOf(t)' = RequestsOf(t)
  BY <1>1 DEF TypeOK, Handlers, RequestsOf, Finish
<1>. QED
  BY <1>1, <1>2, <1>3, <1>4 DEF FightingIsOwned, Reused

LEMMA OwnedPreserved ==
  ASSUME TypeOK, Descriptors, Handlers, Pointers, Polling,
         FightingIsOwned, [Next]_vars
  PROVE  FightingIsOwned'
<1> USE DEF TypeOK, Descriptors, Handlers, Pointers, Born, FightingIsOwned, RequestsOf,
            RoomOf, FightsOf, Reused
<1>1. ASSUME NEW s \in Session, CheckCreate(s)
      PROVE  FightingIsOwned'
  BY <1>1 DEF CheckCreate, Goto, Finish, SetFight
<1>2. ASSUME NEW s \in Session, InsertRoom(s)
      PROVE  FightingIsOwned'
  BY <1>2 DEF InsertRoom, Finish
<1>3. ASSUME NEW s \in Session, FindRoom(s)
      PROVE  FightingIsOwned'
  BY <1>3 DEF FindRoom, NoRoom, Goto, Finish, SetFight
<1>4. ASSUME NEW s \in Session, RecheckRoom(s)
      PROVE  FightingIsOwned'
  <2>1. CASE NoRoom(s)
    BY <1>4, <2>1 DEF RecheckRoom, NoRoom, Finish, SetFight
  <2>2. CASE ~NoRoom(s)
    BY <1>4, <2>2 DEF RecheckRoom, Goto
  <2>. QED
    BY <2>1, <2>2
<1>5. ASSUME NEW s \in Session, RemoveFightRoom(s)
      PROVE  FightingIsOwned'
  BY <1>5 DEF RemoveFightRoom, Goto
<1>6. ASSUME NEW s \in Session, CancelDone(s)
      PROVE  FightingIsOwned'
  BY <1>6 DEF CancelDone, Finish, SetFight
<1>7. ASSUME NEW s \in Session, RefuseDone(s), ~Crash(room[s])
      PROVE  FightingIsOwned'
  BY <1>7, RefuseKeepsOwned
<1>8. ASSUME NEW s \in Session, JoinAnswer(s), ~Crash(room[s])
      PROVE  FightingIsOwned'
  BY <1>8 DEF JoinAnswer, Goto, Finish, SetFight, FdOpen
<1>9. ASSUME NEW s \in Session, StartFight(s), ~Crash(room[s])
      PROVE  FightingIsOwned'
  <2>1. PICK i \in FightId : Starts(s, i)
    BY <1>9, StartEffect
  <2>. QED
    BY <1>9, <2>1 DEF Starts, Finish
<1>10. ASSUME NEW s \in Session, Connect(s)
       PROVE  FightingIsOwned'
  BY <1>10 DEF Connect, FdOpen
<1>11. ASSUME NEW s \in Session, Disconnect(s)
       PROVE  FightingIsOwned'
  BY <1>11 DEF Disconnect, SetFight
<1>12. ASSUME NEW s \in Session, UserFightReady(s)
       PROVE  FightingIsOwned'
  BY <1>12 DEF UserFightReady
<1>13. ASSUME NEW s \in Session, RequestCreate(s)
       PROVE  FightingIsOwned'
  BY <1>13 DEF RequestCreate, Request, Goto, SetFight
<1>14. ASSUME NEW s \in Session, RequestCancel(s)
       PROVE  FightingIsOwned'
  BY <1>14 DEF RequestCancel, Request, Goto
<1>15. ASSUME NEW s \in Session, NEW f \in Fd, RequestJoin(s, f)
       PROVE  FightingIsOwned'
  BY <1>15 DEF RequestJoin, Request, Goto, SetFight
<1>16. ASSUME NEW s \in Session, NEW f \in Fd, RequestRefuse(s, f)
       PROVE  FightingIsOwned'
  BY <1>16 DEF RequestRefuse, Request, Goto
<1>17. ASSUME NEW i \in FightId, PollFirst(i)
       PROVE  FightingIsOwned'
  BY <1>17, PollEffect DEF Polls
<1>18. ASSUME NEW i \in FightId, PollSecond(i)
       PROVE  FightingIsOwned'
  BY <1>18, PollEffect DEF Polls
<1>19. ASSUME NEW i \in FightId, EndFight(i)
       PROVE  FightingIsOwned'
  BY <1>19 DEF EndFight, Advance
<1>20. ASSUME NEW i \in FightId, ReleaseFirst(i), ~Crash(first[i])
       PROVE  FightingIsOwned'
  BY <1>20, ReleaseKeepsOwned
<1>21. ASSUME NEW i \in FightId, ReleaseSecond(i), ~Crash(second[i])
       PROVE  FightingIsOwned'
  BY <1>21, ReleaseKeepsOwned
<1>22. CASE UNCHANGED vars
  BY <1>22
<1>23. ASSUME NEW s, Crash(s)
       PROVE  FightingIsOwned'
  BY <1>23 DEF Crash, RequestsOf, RoomOf, FightsOf
<1>. QED
  BY <1>1, <1>2, <1>3, <1>4, <1>5, <1>6, <1>7, <1>8, <1>9, <1>10, <1>11,
     <1>12, <1>13, <1>14, <1>15, <1>16, <1>17, <1>18, <1>19, <1>20, <1>21,
     <1>22, <1>23 DEF Next, Handle, Client, Run

\* A challenger that was free has no other owner.
LEMMA CheckCreateKeepsExclusion ==
  ASSUME TypeOK, Handlers, Exclusion, NEW s \in Session, CheckCreate(s)
  PROVE  Exclusion'
<1> USE DEF Exclusion, OneHolder, AtMostOne, Held
<1>1. CASE pc'[s] = "insert"
  <2>1. /\ Goto(s, "begin", "insert")
        /\ UNCHANGED <<objects, outcomes, fighting, fightRoomMap, fights, op, room>>
    BY <1>1 DEF TypeOK, CheckCreate, Finish
  <2>. QED
    BY <2>1 DEF TypeOK, Goto, RequestsOf, RoomOf, FightsOf
<1>2. CASE pc'[s] # "insert"
  BY <1>2, CheckCreateFails
<1>. QED
  BY <1>1, <1>2

\* A step that gives nobody a holder, and clears no flag of who is held.
LEMMA FewerHolders ==
  ASSUME Exclusion,
         \A t \in Session : Mistaken(t) => Mistaken(t)',
         \A t \in Session : /\ RequestsOf(t)' \subseteq RequestsOf(t)
                            /\ RoomOf(t)' \subseteq RoomOf(t) /\ FightsOf(t)' \subseteq FightsOf(t),
         \A t \in Session : life'[t] = "open" /\ Held(t)' =>
           life[t] = "open" /\ (fighting[t] => fighting'[t] \/ Mistaken(t)')
  PROVE  Exclusion'
<1> SUFFICES ASSUME NEW t \in Session, ~Mistaken(t)'
             PROVE  OneHolder(t)' /\ (life'[t] = "open" /\ Held(t)' => fighting'[t])
  BY DEF Exclusion
<1>1. OneHolder(t) /\ (life[t] = "open" /\ Held(t) => fighting[t])
  BY DEF Exclusion
<1>2. Held(t)' => Held(t)
  BY DEF Held
<1>3. OneHolder(t)'
  BY <1>1 DEF OneHolder, AtMostOne
<1>. QED
  BY <1>1, <1>2, <1>3

\* The end of a request lets go of those it held, who have nothing else.
LEMMA EndOfRequest ==
  ASSUME TypeOK, Exclusion, NEW s \in Session, Finish(s),
         UNCHANGED <<life, fightRoomMap, fights, mixed>>, struck \subseteq struck',
         \A t \in Session : fighting[t] => fighting'[t] \/ t \in struck' \/ s \in RequestsOf(t)
  PROVE  Exclusion'
<1>1. \A t \in Session : /\ RequestsOf(t)' = RequestsOf(t) \ {s}
                         /\ RoomOf(t)' = RoomOf(t) /\ FightsOf(t)' = FightsOf(t)
  BY DEF TypeOK, Finish, RequestsOf, RoomOf, FightsOf
<1>2. ASSUME NEW t \in Session, s \in RequestsOf(t), Held(t)'
      PROVE  Mistaken(t)
  BY <1>1, <1>2 DEF Exclusion, OneHolder, AtMostOne, Held
<1>. QED
  BY <1>1, <1>2, FewerHolders

\* The session that asks is not held yet.
LEMMA StartOfRequest ==
  ASSUME TypeOK, Handlers, Exclusion, NEW s \in Session, NEW f \in Fd, RequestJoin(s, f)
  PROVE  Exclusion'
<1>1. /\ ~fighting[s] /\ life[s] = "open" /\ pc[s] = "idle"
      /\ fighting' = [fighting EXCEPT ![s] = TRUE]
      /\ pc' = [pc EXCEPT ![s] = "begin"] /\ op' = [op EXCEPT ![s] = "join"]
      /\ UNCHANGED <<life, fightRoomMap, fights, room, outcomes>>
  BY DEF RequestJoin, Request, SetFight, Goto
<1>2. \A t \in Session : /\ RequestsOf(t)' = IF t = s THEN RequestsOf(t) \cup {s} ELSE RequestsOf(t)
                         /\ RoomOf(t)' = RoomOf(t) /\ FightsOf(t)' = FightsOf(t)
  BY <1>1 DEF TypeOK, Handlers, RequestsOf, RoomOf, FightsOf
<1>3. fighting'[s] /\ \A t \in Session : fighting[t] => fighting'[t]
  BY <1>1 DEF TypeOK
<1> SUFFICES ASSUME NEW t \in Session, ~Mistaken(t)'
             PROVE  OneHolder(t)' /\ (life'[t] = "open" /\ Held(t)' => fighting'[t])
  BY DEF Exclusion
<1>4. OneHolder(t) /\ (life[t] = "open" /\ Held(t) => fighting[t])
  BY <1>1 DEF Exclusion
<1>. QED
  BY <1>1, <1>2, <1>3, <1>4 DEF OneHolder, AtMostOne, Held

\* A request that becomes a fight holds the same two as before.
LEMMA StartKeepsExclusion ==
  ASSUME TypeOK, Handlers, Exclusion, NEW s \in Session, NEW i \in FightId, Starts(s, i)
  PROVE  Exclusion'
<1>1. \A t \in Session :
        /\ RequestsOf(t)' = RequestsOf(t) \ {s} /\ RoomOf(t)' = RoomOf(t)
        /\ FightsOf(t)' = IF t \in {s, room[s]} THEN FightsOf(t) \cup {i} ELSE FightsOf(t)
  <2>1. \A t \in Session : RequestsOf(t)' = RequestsOf(t) \ {s} /\ RoomOf(t)' = RoomOf(t)
    BY DEF TypeOK, Starts, Finish, RequestsOf, RoomOf
  <2>2. ASSUME NEW t \in Session
        PROVE  FightsOf(t)' = IF t \in {s, room[s]} THEN FightsOf(t) \cup {i} ELSE FightsOf(t)
    BY DEF TypeOK, Starts, FightsOf
  <2>. QED
    BY <2>1, <2>2
<1>2. \A t \in {s, room[s]} : s \in RequestsOf(t)
  BY DEF Starts, RequestsOf
<1>3. UNCHANGED <<life, fighting, mixed, struck>>
  BY DEF Starts
<1> SUFFICES ASSUME NEW t \in Session, ~Mistaken(t)'
             PROVE  OneHolder(t)' /\ (life'[t] = "open" /\ Held(t)' => fighting'[t])
  BY DEF Exclusion
<1>4. OneHolder(t) /\ (life[t] = "open" /\ Held(t) => fighting[t])
  BY <1>3 DEF Exclusion
<1>5. CASE t \in {s, room[s]}
  <2>1. RequestsOf(t)' = {} /\ RoomOf(t)' = {} /\ FightsOf(t)' = {i}
    BY <1>1, <1>2, <1>4, <1>5 DEF OneHolder, AtMostOne
  <2>2. Held(t)
    BY <1>2, <1>5 DEF Held
  <2>. QED
    BY <1>3, <1>4, <2>1, <2>2 DEF OneHolder, AtMostOne
<1>6. CASE t \notin {s, room[s]}
  BY <1>1, <1>3, <1>4, <1>6 DEF OneHolder, AtMostOne, Held
<1>. QED
  BY <1>5, <1>6

\* A task that lets go gives its user to nobody else.
LEMMA ReleaseKeepsExclusion ==
  ASSUME TypeOK, Pointers, Exclusion, Distinct, NEW i \in FightId,
         \/ ReleaseFirst(i) /\ ~Crash(first[i])
         \/ ReleaseSecond(i) /\ ~Crash(second[i])
  PROVE  Exclusion'
<1> USE DEF Exclusion, OneHolder, AtMostOne, Held
<1>1. CASE ReleaseFirst(i) /\ ~Crash(first[i])
  <2>1. stage[i] # "unused" /\ i \in FightsOf(first[i])
    BY <1>1, ReleaseFirstEffect DEF FightsOf
  <2>2. first[i] # second[i] \/ Mistaken(first[i])
    BY <2>1 DEF Distinct
  <2>3. /\ \A s \in Session : RequestsOf(s)' = RequestsOf(s) /\ RoomOf(s)' = RoomOf(s)
        /\ \A s \in Session :
             FightsOf(s)' = IF s = first[i] /\ s # second[i] THEN FightsOf(s) \ {i} ELSE FightsOf(s)
        /\ Cleared(first[i]) /\ UNCHANGED <<life, mixed, first, second>> /\ first[i] \in Session
    BY <1>1, ReleaseFirstEffect
  <2>5. Mistaken(first[i]) \/ ~Held(first[i])'
    BY <2>1, <2>2, <2>3
  <2>6. ASSUME NEW t \in Session, life'[t] = "open", Held(t)'
        PROVE  life[t] = "open" /\ (fighting[t] => fighting'[t] \/ Mistaken(t)')
    BY <2>3, <2>5, <2>6 DEF Cleared
  <2>7. \A t \in Session : Mistaken(t) => Mistaken(t)'
    BY <2>3 DEF Cleared
  <2> HIDE DEF Exclusion, Held
  <2>. QED
    BY <2>3, <2>6, <2>7, FewerHolders
<1>2. CASE ReleaseSecond(i) /\ ~Crash(second[i])
  <2>1. stage[i] # "unused" /\ i \in FightsOf(second[i])
    BY <1>2, ReleaseSecondEffect DEF FightsOf
  <2>2. /\ \A s \in Session : RequestsOf(s)' = RequestsOf(s) /\ RoomOf(s)' = RoomOf(s)
        /\ \A s \in Session : FightsOf(s)' = IF s = second[i] THEN FightsOf(s) \ {i} ELSE FightsOf(s)
        /\ Cleared(second[i]) /\ UNCHANGED <<life, mixed>> /\ second[i] \in Session
    BY <1>2, ReleaseSecondEffect
  <2>3. Mistaken(second[i]) \/ \A t \in Session : t = second[i] => ~Held(t)'
    BY <2>1, <2>2
  <2>4. ASSUME NEW t \in Session, life'[t] = "open", Held(t)'
        PROVE  life[t] = "open" /\ (fighting[t] => fighting'[t] \/ Mistaken(t)')
    BY <2>2, <2>3, <2>4 DEF Cleared
  <2>5. \A t \in Session : Mistaken(t) => Mistaken(t)'
    BY <2>2 DEF Cleared
  <2> HIDE DEF Exclusion, Held
  <2>. QED
    BY <2>2, <2>4, <2>5, FewerHolders
<1>. QED
  BY <1>1, <1>2

LEMMA ExclusionPreserved ==
  ASSUME TypeOK, Descriptors, Handlers, Pointers, Polling,
         Exclusion, Distinct, [Next]_vars
  PROVE  Exclusion'
<1> USE DEF TypeOK, Descriptors, Handlers, Pointers, Born, Exclusion, OneHolder, AtMostOne,
            Held, Distinct, RequestsOf, RoomOf, FightsOf
<1>1. ASSUME NEW s \in Session, CheckCreate(s)
      PROVE  Exclusion'
  BY <1>1, CheckCreateKeepsExclusion
<1>2. ASSUME NEW s \in Session, InsertRoom(s)
      PROVE  Exclusion'
  BY <1>2 DEF InsertRoom, Finish
<1>3. ASSUME NEW s \in Session, FindRoom(s)
      PROVE  Exclusion'
  <2>1. CASE NoRoom(s)
    <3>1. /\ Finish(s) /\ UNCHANGED <<life, fightRoomMap, fights, mixed, struck>>
          /\ \A t \in Session : fighting[t] => fighting'[t] \/ s \in RequestsOf(t)
      BY <1>3, <2>1 DEF FindRoom, NoRoom, SetFight
    <3>. QED
      BY <3>1, EndOfRequest
  <2>2. CASE ~NoRoom(s)
    BY <1>3, <2>2 DEF FindRoom, Goto
  <2>. QED
    BY <2>1, <2>2
<1>4. ASSUME NEW s \in Session, RecheckRoom(s)
      PROVE  Exclusion'
  BY <1>4 DEF RecheckRoom, NoRoom, Goto, Finish, SetFight
<1>5. ASSUME NEW s \in Session, RemoveFightRoom(s)
      PROVE  Exclusion'
  BY <1>5 DEF RemoveFightRoom, Goto
<1>6. ASSUME NEW s \in Session, CancelDone(s)
      PROVE  Exclusion'
  <2>1. /\ Finish(s) /\ UNCHANGED <<life, fightRoomMap, fights, mixed, struck>>
        /\ \A t \in Session : fighting[t] => fighting'[t] \/ s \in RequestsOf(t)
    BY <1>6 DEF CancelDone, SetFight
  <2>. QED
    BY <2>1, EndOfRequest
<1>7. ASSUME NEW s \in Session, RefuseDone(s), ~Crash(room[s])
      PROVE  Exclusion'
  <2>1. /\ op[s] = "refuse" /\ pc[s] = "removed" /\ Finish(s) /\ Cleared(room[s])
        /\ UNCHANGED <<objects, ready, fightRoomMap, fights, mixed, crashed>>
    BY <1>7, RefuseEffect
  <2>2. \A t \in Session : fighting[t] => fighting'[t] \/ t \in struck' \/ s \in RequestsOf(t)
    BY <2>1 DEF Cleared
  <2>. QED
    BY <2>1, <2>2, EndOfRequest DEF Cleared
<1>8. ASSUME NEW s \in Session, JoinAnswer(s), ~Crash(room[s])
      PROVE  Exclusion'
  <2>1. CASE Finish(s)
    <3>1. /\ Finish(s) /\ UNCHANGED <<life, fightRoomMap, fights, mixed, struck>>
          /\ \A t \in Session : fighting[t] => fighting'[t] \/ s \in RequestsOf(t)
      BY <1>8, <2>1 DEF JoinAnswer, SetFight
    <3>. QED
      BY <3>1, EndOfRequest
  <2>2. CASE ~Finish(s)
    <3>1. op[s] = "join" /\ pc[s] = "removed" /\ pc' = [pc EXCEPT ![s] = "start"]
          /\ UNCHANGED <<life, fighting, mixed, struck, op, room, fightRoomMap, fights>>
      BY <1>8, <2>2 DEF JoinAnswer, Goto
    <3>2. \A t \in Session : /\ RequestsOf(t)' = RequestsOf(t)
                             /\ RoomOf(t)' = RoomOf(t) /\ FightsOf(t)' = FightsOf(t)
      BY <3>1
    <3> HIDE DEF Exclusion, OneHolder, AtMostOne, Held, RequestsOf, RoomOf, FightsOf
    <3>. QED
      BY <3>1, <3>2, FewerHolders
  <2>. QED
    BY <2>1, <2>2
<1>9. ASSUME NEW s \in Session, StartFight(s), ~Crash(room[s])
      PROVE  Exclusion'
  <2> HIDE DEF Exclusion, OneHolder, AtMostOne, Held, RequestsOf, RoomOf, FightsOf
  <2>1. PICK i \in FightId : Starts(s, i)
    BY <1>9, StartEffect
  <2>. QED
    BY <2>1, StartKeepsExclusion
<1>10. ASSUME NEW s \in Session, Connect(s)
       PROVE  Exclusion'
  BY <1>10 DEF Connect, FdOpen
<1>11. ASSUME NEW s \in Session, Disconnect(s)
       PROVE  Exclusion'
  <2>1. /\ UNCHANGED <<mixed, struck>>
        /\ \A t \in Session : /\ RequestsOf(t)' = RequestsOf(t)
                              /\ RoomOf(t)' = RoomOf(t) /\ FightsOf(t)' = FightsOf(t)
    BY <1>11 DEF Disconnect
  <2>2. \A t \in Session : life'[t] = "open" =>
          life[t] = "open" /\ (fighting[t] => fighting'[t])
    BY <1>11 DEF Disconnect, SetFight
  <2> HIDE DEF Exclusion, OneHolder, AtMostOne, Held, RequestsOf, RoomOf, FightsOf
  <2>. QED
    BY <2>1, <2>2, FewerHolders
<1>12. ASSUME NEW s \in Session, UserFightReady(s)
       PROVE  Exclusion'
  BY <1>12, FewerHolders DEF UserFightReady
<1>13. ASSUME NEW s \in Session, RequestCreate(s)
       PROVE  Exclusion'
  BY <1>13 DEF RequestCreate, Request, Goto, SetFight
<1>14. ASSUME NEW s \in Session, RequestCancel(s)
       PROVE  Exclusion'
  BY <1>14 DEF RequestCancel, Request, Goto
<1>15. ASSUME NEW s \in Session, NEW f \in Fd, RequestJoin(s, f)
       PROVE  Exclusion'
  BY <1>15, StartOfRequest
<1>16. ASSUME NEW s \in Session, NEW f \in Fd, RequestRefuse(s, f)
       PROVE  Exclusion'
  BY <1>16 DEF RequestRefuse, Request, Goto
<1>17. ASSUME NEW i \in FightId, PollFirst(i)
       PROVE  Exclusion'
  BY <1>17, PollEffect DEF Polls
<1>18. ASSUME NEW i \in FightId, PollSecond(i)
       PROVE  Exclusion'
  BY <1>18, PollEffect DEF Polls
<1>19. ASSUME NEW i \in FightId, EndFight(i)
       PROVE  Exclusion'
  <2>1. /\ UNCHANGED <<life, fighting, mixed, struck>>
        /\ \A t \in Session : /\ RequestsOf(t)' = RequestsOf(t)
                              /\ RoomOf(t)' = RoomOf(t) /\ FightsOf(t)' = FightsOf(t)
    BY <1>19 DEF EndFight, Advance
  <2> HIDE DEF Exclusion, OneHolder, AtMostOne, Held, RequestsOf, RoomOf, FightsOf
  <2>. QED
    BY <2>1, FewerHolders
<1>20. ASSUME NEW i \in FightId, ReleaseFirst(i), ~Crash(first[i])
       PROVE  Exclusion'
  BY <1>20, ReleaseKeepsExclusion
<1>21. ASSUME NEW i \in FightId, ReleaseSecond(i), ~Crash(second[i])
       PROVE  Exclusion'
  BY <1>21, ReleaseKeepsExclusion
<1>22. CASE UNCHANGED vars
  BY <1>22
<1>23. ASSUME NEW s, Crash(s)
       PROVE  Exclusion'
  BY <1>23 DEF Crash, RequestsOf, RoomOf, FightsOf
<1>. QED
  BY <1>1, <1>2, <1>3, <1>4, <1>5, <1>6, <1>7, <1>8, <1>9, <1>10, <1>11,
     <1>12, <1>13, <1>14, <1>15, <1>16, <1>17, <1>18, <1>19, <1>20, <1>21,
     <1>22, <1>23 DEF Next, Handle, Client, Run

\* Removing a room hands its user to one request, which did not hold it.
LEMMA RemoveKeepsDistinct ==
  ASSUME TypeOK, Handlers, Exclusion, Distinct, NEW s \in Session, RemoveFightRoom(s)
  PROVE  Distinct'
<1>1. mixed \subseteq mixed' /\ UNCHANGED <<struck, stage, first, second, room, op, life>>
  BY DEF RemoveFightRoom
<1>2. ASSUME op[s] = "join", room[s] = s, ~Mistaken(s)'
      PROVE  FALSE
  <2>1. fightRoomMap[fd[s]] = s /\ fd[s] \in Fd
    BY <1>2 DEF RemoveFightRoom, Goto, Handlers
  <2>2. s \in RequestsOf(s) /\ fd[s] \in RoomOf(s)
    BY <1>2, <2>1 DEF RequestsOf, RoomOf
  <2>. QED
    BY <1>1, <1>2, <2>2 DEF Exclusion, OneHolder, RemoveFightRoom
<1>3. \A t \in Session : t # s => pc'[t] = pc[t]
  BY DEF TypeOK, RemoveFightRoom, Goto
<1>. QED
  BY <1>1, <1>2, <1>3 DEF Distinct, Matching

LEMMA DistinctPreserved ==
  ASSUME TypeOK, Descriptors, Handlers, Pointers, Polling,
         Exclusion, Distinct, [Next]_vars
  PROVE  Distinct'
<1> USE DEF TypeOK, Handlers, Pointers, Born, Distinct, Matching
<1>1. ASSUME NEW s \in Session, CheckCreate(s)
      PROVE  Distinct'
  BY <1>1 DEF CheckCreate, Goto, Finish, SetFight
<1>2. ASSUME NEW s \in Session, InsertRoom(s)
      PROVE  Distinct'
  BY <1>2 DEF InsertRoom, Finish
<1>3. ASSUME NEW s \in Session, FindRoom(s)
      PROVE  Distinct'
  BY <1>3 DEF FindRoom, NoRoom, Goto, Finish, SetFight
<1>4. ASSUME NEW s \in Session, RecheckRoom(s)
      PROVE  Distinct'
  BY <1>4 DEF RecheckRoom, NoRoom, Goto, Finish, SetFight
<1>5. ASSUME NEW s \in Session, RemoveFightRoom(s)
      PROVE  Distinct'
  BY <1>5, RemoveKeepsDistinct
<1>6. ASSUME NEW s \in Session, CancelDone(s)
      PROVE  Distinct'
  BY <1>6 DEF CancelDone, Finish, SetFight
<1>7. ASSUME NEW s \in Session, RefuseDone(s), ~Crash(room[s])
      PROVE  Distinct'
  BY <1>7, RefuseEffect DEF Cleared, Finish
<1>8. ASSUME NEW s \in Session, JoinAnswer(s), ~Crash(room[s])
      PROVE  Distinct'
  BY <1>8 DEF JoinAnswer, Goto, Finish, SetFight
<1>9. ASSUME NEW s \in Session, StartFight(s), ~Crash(room[s])
      PROVE  Distinct'
  BY <1>9 DEF StartFight, Finish
<1>10. ASSUME NEW s \in Session, Connect(s)
       PROVE  Distinct'
  BY <1>10 DEF Connect, FdOpen
<1>11. ASSUME NEW s \in Session, Disconnect(s)
       PROVE  Distinct'
  BY <1>11 DEF Disconnect, SetFight
<1>12. ASSUME NEW s \in Session, UserFightReady(s)
       PROVE  Distinct'
  BY <1>12 DEF UserFightReady
<1>13. ASSUME NEW s \in Session, RequestCreate(s)
       PROVE  Distinct'
  BY <1>13 DEF RequestCreate, Request, Goto, SetFight
<1>14. ASSUME NEW s \in Session, RequestCancel(s)
       PROVE  Distinct'
  BY <1>14 DEF RequestCancel, Request, Goto
<1>15. ASSUME NEW s \in Session, NEW f \in Fd, RequestJoin(s, f)
       PROVE  Distinct'
  BY <1>15 DEF RequestJoin, Request, Goto, SetFight
<1>16. ASSUME NEW s \in Session, NEW f \in Fd, RequestRefuse(s, f)
       PROVE  Distinct'
  BY <1>16 DEF RequestRefuse, Request, Goto
<1>17. ASSUME NEW i \in FightId, PollFirst(i)
       PROVE  Distinct'
  BY <1>17, PollEffect DEF Polls
<1>18. ASSUME NEW i \in FightId, PollSecond(i)
       PROVE  Distinct'
  BY <1>18, PollEffect DEF Polls
<1>19. ASSUME NEW i \in FightId, EndFight(i)
       PROVE  Distinct'
  BY <1>19 DEF EndFight, Advance
<1>20. ASSUME NEW i \in FightId, ReleaseFirst(i), ~Crash(first[i])
       PROVE  Distinct'
  BY <1>20, ReleaseFirstEffect DEF Cleared
<1>21. ASSUME NEW i \in FightId, ReleaseSecond(i), ~Crash(second[i])
       PROVE  Distinct'
  BY <1>21, ReleaseSecondEffect DEF Cleared
<1>22. CASE UNCHANGED vars
  BY <1>22
<1>23. ASSUME NEW s, Crash(s)
       PROVE  Distinct'
  BY <1>23 DEF Crash, Matching
<1>. QED
  BY <1>1, <1>2, <1>3, <1>4, <1>5, <1>6, <1>7, <1>8, <1>9, <1>10, <1>11,
     <1>12, <1>13, <1>14, <1>15, <1>16, <1>17, <1>18, <1>19, <1>20, <1>21,
     <1>22, <1>23 DEF Next, Handle, Client, Run

-----------------------------------------------------------------------------
\* The invariant holds at first, ...
LEMMA InitEstablishes == Init => IInv
<1> SUFFICES ASSUME Init PROVE IInv
  OBVIOUS
<1> USE DEF Init
<1>1. TypeOK
  <2>1. place \in [Session -> Session] /\ polls \in [FightId -> 0..CHECK_TIME]
    OBVIOUS
  <2>. QED
    BY <2>1 DEF TypeOK
<1>2. Descriptors /\ Handlers /\ Pointers /\ Polling
  BY DEF Descriptors, Handlers, Pointers, Polling
<1>3. FightingIsOwned
  BY DEF FightingIsOwned
<1>4. \A s \in Session : RequestsOf(s) = {} /\ RoomOf(s) = {} /\ FightsOf(s) = {}
  BY DEF RequestsOf, RoomOf, FightsOf
<1>5. Exclusion
  BY <1>4 DEF Exclusion, OneHolder, AtMostOne, Held
<1>6. Distinct
  BY DEF Distinct, Matching
<1>. QED
  BY <1>1, <1>2, <1>3, <1>5, <1>6 DEF IInv

\* ... and is kept by every step.
LEMMA StepPreserves == IInv /\ [Next]_vars => IInv'
BY TypePreserved, DescriptorsPreserved, HandlersPreserved, PointersPreserved, PollingPreserved,
   OwnedPreserved, ExclusionPreserved, DistinctPreserved DEF IInv

(* The inductive invariant holds: descriptors, handlers, rooms, tasks and   *)
(* flags agree whatever the threads' steps interleave to                   *)
(* (fightManage.h, requestHanlder.h, userFightTask.h).                     *)
THEOREM Invariance == Spec => []IInv
BY InitEstablishes, StepPreserves, PTL DEF Spec

(* Every variable keeps its type: a room has a session or none, a task     *)
(* polls no more than CHECK_TIME times (userFightTask.h:27-60).            *)
THEOREM TypeCorrect == Spec => []TypeOK
<1>1. IInv => TypeOK
  BY DEF IInv
<1>. QED
  BY <1>1, Invariance, PTL

(* Nobody is locked out, for any number of sessions, requests and tasks    *)
(* (requestHanlder.h:131-180, fightManage.h, userFightTask.h:43-64).       *)
THEOREM Owned == Spec => []FightingIsOwned
<1>1. IInv => FightingIsOwned
  BY DEF IInv
<1>. QED
  BY <1>1, Invariance, PTL

\* How many elements a set of at most one has.
LEMMA AtMostOneCounted ==
  ASSUME NEW S, AtMostOne(S)
  PROVE  Cardinality(S) = IF S = {} THEN 0 ELSE 1
<1>1. CASE S = {}
  BY <1>1, FS_EmptySet
<1>2. CASE S # {}
  <2>1. PICK x : S = {x}
    BY <1>2 DEF AtMostOne
  <2>. QED
    BY <1>2, <2>1, FS_Singleton
<1>. QED
  BY <1>1, <1>2

(* A session that was not mistaken for another, nor its room, is held by   *)
(* one request, room or fight at a time, and has the flag while it is      *)
(* (fightManage.h:108-243, userFightTask.h:50-62, UserFight.h:46-58).      *)
THEOREM OneAtATime == Spec => []OneFightAtATime
<1>1. IInv => OneFightAtATime
  <2> SUFFICES ASSUME IInv, NEW s \in Session, ~Mistaken(s), life[s] = "open"
               PROVE  LET holders == Cardinality(RequestsOf(s)) + Cardinality(RoomOf(s)) +
                                     Cardinality(FightsOf(s))
                      IN  holders <= 1 /\ (holders = 1 => fighting[s])
    BY DEF OneFightAtATime
  <2>1. OneHolder(s) /\ (Held(s) => fighting[s])
    BY DEF IInv, Exclusion
  <2>2. /\ Cardinality(RequestsOf(s)) = IF RequestsOf(s) = {} THEN 0 ELSE 1
        /\ Cardinality(RoomOf(s)) = IF RoomOf(s) = {} THEN 0 ELSE 1
        /\ Cardinality(FightsOf(s)) = IF FightsOf(s) = {} THEN 0 ELSE 1
    BY <2>1, AtMostOneCounted DEF OneHolder
  <2>. QED
    BY <2>1, <2>2 DEF OneHolder, Held
<1>. QED
  BY <1>1, Invariance, PTL

-----------------------------------------------------------------------------
(* Rooms, requests and tasks as a challenge.  While nothing is mistaken,    *)
(* at most one session is matched with another, so that the CHOOSE of the   *)
(* mapping has no choice; and each step is then one of Challenge or none.   *)

\* s and o are matched with each other, as far as s knows.
Paired(s, o) ==
  \/ s \in Matching /\ o = room[s]
  \/ o \in Matching /\ room[o] = s
  \/ \E i \in FightsOf(s) : <<s, o>> \in {<<first[i], second[i]>>, <<second[i], first[i]>>}

\* The two variables of Challenge, without the CHOOSE.
Abstracted ==
  /\ ChallengeState = [s \in Session |-> ChallengeState[s]]
  /\ ChallengeOpponent = [s \in Session |-> ChallengeOpponent[s]]
  /\ \A s \in Session : \A o \in Session : Paired(s, o) =>
       ChallengeState[s] = "matched" /\ ChallengeOpponent[s] = o
  /\ \A s \in Session : (\A o \in Session : ~Paired(s, o)) =>
       /\ ChallengeState[s] = IF RoomOf(s) # {} THEN "waiting" ELSE "free"
       /\ ChallengeOpponent[s] = None

\* Which one CHOOSE takes.
LEMMA ChooseOnly ==
  ASSUME NEW S, AtMostOne(S), NEW x \in S
  PROVE  (CHOOSE t \in S : TRUE) = x
BY DEF AtMostOne

\* While no rooms were mistaken for one another a user has one opponent at
\* most.
LEMMA MatchesArePairs ==
  ASSUME TypeOK, Handlers, Pointers, Exclusion, Distinct, NoMistakes, NEW s \in Session
  PROVE  /\ Matches(s) = {o \in Session : Paired(s, o)}
         /\ AtMostOne(Matches(s))
<1>1. ASSUME NEW t \in Matching
      PROVE  t \in Session /\ room[t] \in Session /\ room[t] # t
             /\ t \in RequestsOf(t) /\ t \in RequestsOf(room[t])
  BY DEF TypeOK, Handlers, Matching, RequestsOf, Distinct
<1>2. ASSUME NEW i \in FightsOf(s)
      PROVE  first[i] \in Session /\ second[i] \in Session /\ first[i] # second[i]
             /\ s \in {first[i], second[i]}
  BY DEF TypeOK, Pointers, Born, FightsOf, Distinct
<1>3. OneHolder(s)
  BY DEF Exclusion
<1>4. \A o : o \in Matches(s) <=> Paired(s, o)
  BY <1>2 DEF Matches, Paired
<1>5. \A o : Paired(s, o) => o \in Session
  BY <1>1, <1>2 DEF Paired
<1>6. ASSUME NEW x, NEW y, Paired(s, x), Paired(s, y)
      PROVE  x = y
  <2>1. CASE FightsOf(s) = {}
    BY <1>1, <1>3, <1>6, <2>1 DEF OneHolder, AtMostOne, Paired
  <2>2. CASE RequestsOf(s) = {}
    BY <1>1, <1>2, <1>3, <1>6, <2>2 DEF OneHolder, AtMostOne, Paired
  <2>. QED
    BY <1>3, <2>1, <2>2 DEF OneHolder
<1>. QED
  BY <1>4, <1>5, <1>6 DEF AtMostOne

\* Then the state of a challenge and its opponent follow from room, request
\* and task.
LEMMA Abstraction == IInv /\ NoMistakes => Abstracted
<1> SUFFICES ASSUME IInv, NoMistakes PROVE Abstracted
  OBVIOUS
<1> USE DEF IInv
<1>1. ASSUME NEW s \in Session, NEW o \in Session, Paired(s, o)
      PROVE  ChallengeState[s] = "matched" /\ ChallengeOpponent[s] = o
  <2>1. o \in Matches(s) /\ AtMostOne(Matches(s))
    BY <1>1, MatchesArePairs
  <2>. QED
    BY <2>1, ChooseOnly DEF ChallengeState, ChallengeOpponent
<1>2. ASSUME NEW s \in Session, \A o \in Session : ~Paired(s, o)
      PROVE  /\ ChallengeState[s] = IF RoomOf(s) # {} THEN "waiting" ELSE "free"
             /\ ChallengeOpponent[s] = None
  <2>1. Matches(s) = {}
    BY <1>2, MatchesArePairs
  <2>. QED
    BY <2>1 DEF ChallengeState, ChallengeOpponent
<1>. QED
  BY <1>1, <1>2 DEF Abstracted, ChallengeState, ChallengeOpponent

Mapped == <<ChallengeState, ChallengeOpponent>>

\* The step is none for t.
SameFor(t) ==
  /\ \A o \in Session : Paired(t, o)' <=> Paired(t, o)
  /\ RoomOf(t)' = {} <=> RoomOf(t) = {}

\* A session whose room, request and tasks are as before is in the same
\* challenge as before.
LEMMA SameIsKept ==
  ASSUME Abstracted, Abstracted', NEW t \in Session, SameFor(t)
  PROVE  ChallengeState'[t] = ChallengeState[t] /\ ChallengeOpponent'[t] = ChallengeOpponent[t]
<1>1. CASE \A o \in Session : ~Paired(t, o)
  BY <1>1 DEF Abstracted, SameFor
<1>2. CASE \E o \in Session : Paired(t, o)
  BY <1>2 DEF Abstracted, SameFor
<1>. QED
  BY <1>1, <1>2

\* If that is so of all, the step is a stutter of Challenge.
LEMMA SameForAll ==
  ASSUME Abstracted, Abstracted', \A t \in Session : SameFor(t)
  PROVE  UNCHANGED Mapped
<1>1. \A t \in Session : ChallengeState'[t] = ChallengeState[t] /\ ChallengeOpponent'[t] = ChallengeOpponent[t]
  BY SameIsKept
<1>. QED
  BY <1>1 DEF Abstracted, Mapped

\* What only some of the fields change.
LEMMA SameMatches ==
  ASSUME UNCHANGED fightRoomMap,
         Matching' = Matching, \A t \in Matching : room'[t] = room[t],
         \A t \in Session : FightsOf(t)' = FightsOf(t),
         \A t \in Session : \A i \in FightsOf(t) : first'[i] = first[i] /\ second'[i] = second[i]
  PROVE  \A t \in Session : SameFor(t)
BY DEF SameFor, Paired, RoomOf

Quiet(s) ==
  \/ CheckCreate(s) \/ FindRoom(s) \/ RecheckRoom(s) \/ CancelDone(s) \/ RefuseDone(s)
  \/ Client(s)

\* Steps of a request that insert and remove no room change no challenge.
LEMMA QuietRequests ==
  ASSUME IInv, NEW s \in Session, Quiet(s)
  PROVE  \A t \in Session : SameFor(t)
<1> USE DEF IInv, TypeOK, Handlers
<1>1. UNCHANGED <<fightRoomMap, fights>>
  <2>1. ASSUME RefuseDone(s) PROVE UNCHANGED <<fightRoomMap, fights>>
    BY <2>1 DEF RefuseDone, Crash
  <2>. QED
    BY <2>1 DEF Quiet, Client, CheckCreate, FindRoom, RecheckRoom, CancelDone, Connect,
           Disconnect, UserFightReady, RequestCreate, RequestCancel, RequestJoin, RequestRefuse, Request
<1>2. s \notin Matching
  BY DEF Quiet, Matching, Client, CheckCreate, FindRoom, RecheckRoom, CancelDone, RefuseDone, Connect,
         Disconnect, UserFightReady, RequestCreate, RequestCancel, RequestJoin, RequestRefuse, Request, Goto
<1> DEFINE Kept == Matching' = Matching /\ \A t \in Matching : room'[t] = room[t]
<1>3. Kept
  <2>1. ASSUME CheckCreate(s)
        PROVE  Kept
    BY <1>2, <2>1 DEF Matching, CheckCreate, Goto, Finish, SetFight
  <2>2. ASSUME FindRoom(s)
        PROVE  Kept
    BY <1>2, <2>2 DEF Matching, FindRoom, NoRoom, Goto, Finish, SetFight
  <2>3. ASSUME RecheckRoom(s)
        PROVE  Kept
    BY <1>2, <2>3 DEF Matching, RecheckRoom, NoRoom, Goto, Finish, SetFight
  <2>4. ASSUME CancelDone(s)
        PROVE  Kept
    BY <1>2, <2>4 DEF Matching, CancelDone, Finish, SetFight
  <2>5. ASSUME RefuseDone(s)
        PROVE  Kept
    <3>1. CASE Crash(room[s])
      BY <3>1 DEF Matching, Crash
    <3>2. CASE ~Crash(room[s])
      BY <1>2, <2>5, <3>2, RefuseEffect DEF Matching, Finish
    <3>. QED
      BY <3>1, <3>2
  <2>6. ASSUME Connect(s)
        PROVE  Kept
    BY <1>2, <2>6 DEF Matching, Connect, FdOpen
  <2>7. ASSUME Disconnect(s)
        PROVE  Kept
    BY <1>2, <2>7 DEF Matching, Disconnect
  <2>8. ASSUME UserFightReady(s)
        PROVE  Kept
    BY <1>2, <2>8 DEF Matching, UserFightReady
  <2>9. ASSUME RequestCreate(s)
        PROVE  Kept
    BY <1>2, <2>9 DEF Matching, RequestCreate, Request, Goto, SetFight
  <2>10. ASSUME RequestCancel(s)
        PROVE  Kept
    BY <1>2, <2>10 DEF Matching, RequestCancel, Request, Goto
  <2>11. ASSUME NEW f \in Fd, RequestJoin(s, f)
        PROVE  Kept
    BY <1>2, <2>11 DEF Matching, RequestJoin, Request, Goto, SetFight
  <2>12. ASSUME NEW f \in Fd, RequestRefuse(s, f)
        PROVE  Kept
    BY <1>2, <2>12 DEF Matching, RequestRefuse, Request, Goto
  <2>. QED
    BY <2>1, <2>2, <2>3, <2>4, <2>5, <2>6, <2>7, <2>8, <2>9, <2>10, <2>11, <2>12 DEF Quiet, Client
<1>4. \A t \in Session : FightsOf(t)' = FightsOf(t)
  BY <1>1 DEF FightsOf
<1>. QED
  BY <1>1, <1>3, <1>4, SameMatches

\* Nor do polls, and the end of the rounds.
LEMMA QuietFights ==
  ASSUME IInv, NEW i \in FightId, PollFirst(i) \/ PollSecond(i) \/ EndFight(i)
  PROVE  \A t \in Session : SameFor(t)
<1> USE DEF IInv, TypeOK
<1>1. UNCHANGED <<fightRoomMap, requests, first, second>>
  BY DEF PollFirst, PollSecond, Poll, EndFight
<1>2. /\ stage[i] \in {"poll1", "poll2", "fight"}
      /\ \E to \in {"poll1", "poll2", "fight", "release1"} : stage' = [stage EXCEPT ![i] = to]
  BY PollEffect DEF Polls, EndFight, Advance
<1>3. \A t \in Session : FightsOf(t)' = FightsOf(t)
  BY <1>1, <1>2 DEF FightsOf
<1>4. Matching' = Matching
  BY <1>1 DEF Matching
<1>. QED
  BY <1>1, <1>3, <1>4, SameMatches

\* A room that is inserted is a challenge (fightManage.h:131-253).
LEMMA InsertRoomChallenges ==
  ASSUME IInv, NoMistakes, Abstracted, Abstracted', NEW s \in Session, InsertRoom(s)
  PROVE  Promised!Challenge(s)
<1> USE DEF IInv, TypeOK
<1>1. /\ op[s] = "create" /\ pc[s] = "insert" /\ connfd[s] \in Fd
      /\ s \in RequestsOf(s) /\ fightRoomMap[connfd[s]] = None
  BY DEF InsertRoom, Handlers, Descriptors, RequestsOf
<1>2. RequestsOf(s) = {s} /\ RoomOf(s) = {} /\ FightsOf(s) = {}
  BY <1>1 DEF Exclusion, OneHolder, AtMostOne
<1>3. \A o \in Session : ~Paired(s, o)
  BY <1>1, <1>2 DEF Paired, Matching, RequestsOf
<1>4. Matching' = Matching /\ \A t \in Matching : room'[t] = room[t]
  BY <1>1 DEF InsertRoom, Finish, Matching
<1>5. UNCHANGED fights /\ \A t \in Session : FightsOf(t)' = FightsOf(t)
  BY DEF InsertRoom, FightsOf
<1>6. \A t \in Session : RoomOf(t)' = IF t = s THEN {connfd[s]} ELSE RoomOf(t)
  BY <1>1, <1>2 DEF InsertRoom, RoomOf
<1>7. \A t, o \in Session : Paired(t, o)' <=> Paired(t, o)
  BY <1>4, <1>5 DEF Paired
<1>8. \A t \in Session : t # s => SameFor(t)
  BY <1>6, <1>7 DEF SameFor
<1>9. ChallengeState[s] = "free" /\ ChallengeOpponent[s] = None
  BY <1>2, <1>3 DEF Abstracted
<1>10. ChallengeState'[s] = "waiting" /\ ChallengeOpponent'[s] = None
  BY <1>3, <1>6, <1>7 DEF Abstracted
<1>. QED
  BY <1>8, <1>9, <1>10, SameIsKept DEF Abstracted, Promised!Challenge

\* The room that is taken is its owner's.
LEMMA RoomTaken ==
  ASSUME IInv, NoMistakes', NEW s \in Session, RemoveFightRoom(s),
         NEW owner, owner = IF op[s] = "cancel" THEN s ELSE room[s]
  PROVE  /\ NoMistakes /\ owner \in Session /\ RoomOf(owner) = {fd[s]}
         /\ \A t \in Session : RoomOf(t)' = IF t = owner THEN {} ELSE RoomOf(t)
         /\ \A o \in Session : ~Paired(owner, o)
<1> USE DEF IInv, TypeOK
<1>1. owner \in Session /\ fd[s] \in Fd
  BY DEF RemoveFightRoom, Goto, Handlers
<1>2. NoMistakes /\ fightRoomMap[fd[s]] = owner
  <2>1. CASE fightRoomMap[fd[s]] = owner
    BY <2>1 DEF RemoveFightRoom
  <2>2. CASE fightRoomMap[fd[s]] # owner
    <3>1. owner \in mixed'
      BY <1>1, <2>2 DEF RemoveFightRoom
    <3>. QED
      BY <3>1
  <2>. QED
    BY <2>1, <2>2
<1>3. fd[s] \in RoomOf(owner)
  BY <1>1, <1>2 DEF RoomOf
<1>4. RoomOf(owner) = {fd[s]} /\ RequestsOf(owner) = {} /\ FightsOf(owner) = {}
  BY <1>1, <1>2, <1>3 DEF Exclusion, OneHolder, AtMostOne
<1>5. fightRoomMap' = [fightRoomMap EXCEPT ![fd[s]] = None]
  BY DEF RemoveFightRoom
<1>6. ASSUME NEW t \in Session
      PROVE  RoomOf(t)' = IF t = owner THEN {} ELSE RoomOf(t)
  BY <1>1, <1>2, <1>4, <1>5 DEF RoomOf
<1>7. \A o \in Session : ~Paired(owner, o)
  BY <1>1, <1>4 DEF Paired, Matching, RequestsOf
<1>. QED
  BY <1>1, <1>2, <1>4, <1>6, <1>7

\* One that is removed by a refusal or a cancellation is withdrawn.
LEMMA RoomRemovedWithdraws ==
  ASSUME IInv, NoMistakes', Abstracted, Abstracted', NEW s \in Session,
         RemoveFightRoom(s), op[s] # "join"
  PROVE  \E t \in Session : Promised!Withdraw(t)
<1> DEFINE owner == IF op[s] = "cancel" THEN s ELSE room[s]
<1> USE DEF IInv, TypeOK
<1>1. /\ owner \in Session /\ RoomOf(owner) = {fd[s]}
      /\ \A t \in Session : RoomOf(t)' = IF t = owner THEN {} ELSE RoomOf(t)
      /\ \A o \in Session : ~Paired(owner, o)
  BY RoomTaken
<1> HIDE DEF owner
<1>2. Matching' = Matching /\ UNCHANGED <<fights, room>>
  BY DEF RemoveFightRoom, Goto, Matching
<1>3. \A t \in Session : FightsOf(t)' = FightsOf(t)
  BY <1>2 DEF FightsOf
<1>4. \A t, o \in Session : Paired(t, o)' <=> Paired(t, o)
  BY <1>2, <1>3 DEF Paired
<1>5. \A t \in Session : t # owner => SameFor(t)
  BY <1>1, <1>4 DEF SameFor
<1>6. ChallengeState[owner] = "waiting" /\ ChallengeOpponent[owner] = None
  BY <1>1 DEF Abstracted
<1>7. ChallengeState'[owner] = "free" /\ ChallengeOpponent'[owner] = None
  BY <1>1, <1>4 DEF Abstracted
<1>8. Promised!Withdraw(owner)
  BY <1>1, <1>5, <1>6, <1>7, SameIsKept DEF Abstracted, Promised!Withdraw
<1>. QED
  BY <1>1, <1>8

\* One that is removed by who joins it is accepted.
LEMMA RoomJoinedAccepts ==
  ASSUME IInv, IInv', NoMistakes', Abstracted, Abstracted', NEW s \in Session,
         RemoveFightRoom(s), op[s] = "join", NEW owner, owner = room[s]
  PROVE  owner \in Session \ {s} /\ Promised!Accept(s, owner)
<1> USE DEF IInv, TypeOK
<1>1. /\ NoMistakes /\ owner \in Session /\ RoomOf(owner) = {fd[s]}
      /\ \A t \in Session : RoomOf(t)' = IF t = owner THEN {} ELSE RoomOf(t)
      /\ \A o \in Session : ~Paired(owner, o)
  BY RoomTaken
<1>2. /\ pc[s] = "remove" /\ Matching' = Matching \cup {s} /\ s \notin Matching
      /\ UNCHANGED <<fights, room>>
  BY DEF RemoveFightRoom, Goto, Matching
<1>3. owner # s
  BY <1>1, <1>2 DEF Distinct
<1>4. s \in RequestsOf(s)
  BY DEF RequestsOf
<1>5. RequestsOf(s) = {s} /\ RoomOf(s) = {} /\ FightsOf(s) = {}
  BY <1>1, <1>4 DEF Exclusion, OneHolder, AtMostOne
<1>6. \A o \in Session : ~Paired(s, o)
  BY <1>2, <1>5 DEF Paired, Matching, RequestsOf
<1>7. \A t \in Session : FightsOf(t)' = FightsOf(t)
  BY <1>2 DEF FightsOf
<1>8. Paired(s, owner)' /\ Paired(owner, s)'
  BY <1>2 DEF Paired
<1>9. ASSUME NEW t \in Session, t # s, t # owner
      PROVE  SameFor(t)
  BY <1>1, <1>2, <1>7, <1>9 DEF SameFor, Paired
<1>10. ChallengeState[s] = "free" /\ ChallengeState[owner] = "waiting"
  BY <1>1, <1>5, <1>6 DEF Abstracted
<1>11. /\ ChallengeState'[s] = "matched" /\ ChallengeOpponent'[s] = owner
       /\ ChallengeState'[owner] = "matched" /\ ChallengeOpponent'[owner] = s
  BY <1>1, <1>8 DEF Abstracted
<1>12. Promised!Accept(s, owner)
  BY <1>1, <1>3, <1>9, <1>10, <1>11, SameIsKept DEF Abstracted, Promised!Accept
<1>. QED
  BY <1>1, <1>3, <1>12

\* A request that has taken a room holds both sides and nothing else does.
LEMMA MatchedByRequest ==
  ASSUME IInv, NoMistakes, NEW s \in Matching, NEW owner, owner = room[s]
  PROVE  /\ s \in Session /\ owner \in Session /\ s # owner
         /\ RoomOf(s) = {} /\ RoomOf(owner) = {}
         /\ FightsOf(s) = {} /\ FightsOf(owner) = {}
         /\ owner \notin Matching
         /\ \A t \in Matching : room[t] \in {s, owner} => t = s
<1> USE DEF IInv, TypeOK
<1>1. s \in Session /\ owner \in Session /\ s # owner
  BY DEF Matching, Handlers, Distinct
<1>2. s \in RequestsOf(s) /\ s \in RequestsOf(owner)
  BY <1>1 DEF RequestsOf, Matching
<1>3. /\ RequestsOf(s) = {s} /\ RoomOf(s) = {} /\ FightsOf(s) = {}
      /\ RequestsOf(owner) = {s} /\ RoomOf(owner) = {} /\ FightsOf(owner) = {}
  BY <1>1, <1>2 DEF Exclusion, OneHolder, AtMostOne
<1>4. owner \notin Matching /\ \A t \in Matching : room[t] \in {s, owner} => t = s
  BY <1>1, <1>3 DEF RequestsOf, Matching
<1>. QED
  BY <1>1, <1>3, <1>4

\* A match that is not confirmed is called off; every other answer changes
\* nothing.
LEMMA JoinAnswerCallsOff ==
  ASSUME IInv, NoMistakes, Abstracted, Abstracted', NEW s \in Session,
         JoinAnswer(s), ~Crash(room[s])
  PROVE  Promised!CallOff(s) \/ \A t \in Session : SameFor(t)
<1> USE DEF IInv, TypeOK
<1>1. PICK owner : owner = room[s]
  OBVIOUS
<1>2. s \in Matching /\ UNCHANGED <<fightRoomMap, fights>>
  BY DEF JoinAnswer, Matching
<1>3. /\ owner \in Session /\ s # owner /\ RoomOf(s) = {} /\ RoomOf(owner) = {}
      /\ FightsOf(s) = {} /\ FightsOf(owner) = {}
      /\ owner \notin Matching
      /\ \A t \in Matching : room[t] \in {s, owner} => t = s
  BY <1>1, <1>2, MatchedByRequest
<1>4. \A t \in Session : FightsOf(t)' = FightsOf(t) /\ RoomOf(t)' = RoomOf(t)
  BY <1>2 DEF FightsOf, RoomOf
<1>5. CASE FdOpen(fd[s])
  <2>1. Matching' = Matching /\ UNCHANGED room
    BY <1>5 DEF JoinAnswer, Goto, Matching
  <2>. QED
    BY <1>2, <1>4, <2>1, SameMatches
<1>6. CASE ~FdOpen(fd[s])
  <2>1. Matching' = Matching \ {s} /\ \A t \in Matching' : room'[t] = room[t]
    <3>1. Finish(s)
      BY <1>6 DEF JoinAnswer
    <3>. QED
      BY <1>2, <3>1 DEF Finish, Matching
  <2>2. Paired(s, owner) /\ Paired(owner, s)
    BY <1>1, <1>2 DEF Paired
  <2>3. \A o \in Session : ~Paired(s, o)' /\ ~Paired(owner, o)'
    BY <1>3, <1>4, <2>1 DEF Paired
  <2>4. ASSUME NEW t \in Session, t # s, t # owner
        PROVE  SameFor(t)
    BY <1>1, <1>2, <1>4, <2>1, <2>4 DEF SameFor, Paired
  <2>5. /\ ChallengeState[s] = "matched" /\ ChallengeOpponent[s] = owner
        /\ ChallengeOpponent[owner] = s
    BY <1>3, <2>2 DEF Abstracted
  <2>6. /\ ChallengeState'[s] = "free" /\ ChallengeOpponent'[s] = None
        /\ ChallengeState'[owner] = "free" /\ ChallengeOpponent'[owner] = None
    BY <1>3, <1>4, <2>3 DEF Abstracted
  <2>7. Promised!CallOff(s)
    BY <1>3, <2>4, <2>5, <2>6, SameIsKept DEF Abstracted, Promised!CallOff
  <2>. QED
    BY <2>7
<1>. QED
  BY <1>5, <1>6

\* A match that is handed to a task is the same match.
LEMMA StartFightKeepsMatch ==
  ASSUME IInv, NoMistakes, NEW s \in Session, StartFight(s), ~Crash(room[s])
  PROVE  \A t \in Session : SameFor(t)
<1> USE DEF IInv, TypeOK
<1>1. PICK owner : owner = room[s]
  OBVIOUS
<1>2. s \in Matching /\ UNCHANGED fightRoomMap
  BY DEF StartFight, Matching
<1>3. /\ owner \in Session /\ s # owner /\ FightsOf(s) = {} /\ FightsOf(owner) = {}
      /\ owner \notin Matching
      /\ \A t \in Matching : room[t] \in {s, owner} => t = s
  BY <1>1, <1>2, MatchedByRequest
<1>4. Matching' = Matching \ {s} /\ \A t \in Matching' : room'[t] = room[t]
  BY DEF StartFight, Finish, Matching
<1>5. PICK i \in FightId :
        /\ stage[i] = "unused" /\ stage' = [stage EXCEPT ![i] = "poll1"]
        /\ \A j \in FightId \ {i} : first'[j] = first[j] /\ second'[j] = second[j]
        /\ \/ first'[i] = s /\ second'[i] = owner
           \/ first'[i] = owner /\ second'[i] = s
  <2>1. PICK i \in FightId :
          /\ stage[i] = "unused" /\ stage' = [stage EXCEPT ![i] = "poll1"]
          /\ \/ first' = [first EXCEPT ![i] = s] /\ second' = [second EXCEPT ![i] = owner]
             \/ first' = [first EXCEPT ![i] = owner] /\ second' = [second EXCEPT ![i] = s]
    BY <1>1 DEF StartFight
  <2>2. /\ \A j \in FightId \ {i} : first'[j] = first[j] /\ second'[j] = second[j]
        /\ \/ first'[i] = s /\ second'[i] = owner
           \/ first'[i] = owner /\ second'[i] = s
    BY <2>1
  <2>. QED
    BY <2>1, <2>2
<1>6. \A t \in Session :
        FightsOf(t)' = IF t \in {s, owner} THEN FightsOf(t) \cup {i} ELSE FightsOf(t)
  <2> SUFFICES ASSUME NEW t \in Session, NEW j \in FightId
               PROVE  j \in FightsOf(t)' <=> j \in FightsOf(t) \/ (j = i /\ t \in {s, owner})
    BY DEF FightsOf
  <2>1. CASE j = i
    BY <1>5, <2>1 DEF FightsOf
  <2>2. CASE j # i
    BY <1>5, <2>2 DEF FightsOf
  <2>. QED
    BY <2>1, <2>2
<1>7. ASSUME NEW t \in Session, t # s, t # owner, NEW o \in Session
      PROVE  Paired(t, o)' <=> Paired(t, o)
  <2>1. i \notin FightsOf(t)
    BY <1>5 DEF FightsOf
  <2>2. FightsOf(t) \subseteq FightId
    BY DEF FightsOf
  <2>. QED
    BY <1>1, <1>2, <1>4, <1>5, <1>6, <1>7, <2>1, <2>2 DEF Paired
<1>8. ASSUME NEW o \in Session
      PROVE  /\ Paired(s, o) <=> o = owner
             /\ Paired(owner, o) <=> o = s
             /\ Paired(s, o)' <=> o = owner
             /\ Paired(owner, o)' <=> o = s
  <2>1. (Paired(s, o) <=> o = owner) /\ (Paired(owner, o) <=> o = s)
    BY <1>1, <1>2, <1>3 DEF Paired
  <2>2. FightsOf(s)' = {i} /\ FightsOf(owner)' = {i}
    BY <1>3, <1>6
  <2>3. \A t \in Matching' : t \notin {s, owner} /\ room'[t] \notin {s, owner}
    BY <1>3, <1>4
  <2>4. Paired(s, o)' <=> o = owner
    BY <1>3, <1>5, <2>2, <2>3 DEF Paired
  <2>5. Paired(owner, o)' <=> o = s
    BY <1>3, <1>5, <2>2, <2>3 DEF Paired
  <2>. QED
    BY <2>1, <2>4, <2>5
<1>9. \A t \in Session : RoomOf(t)' = RoomOf(t)
  BY <1>2 DEF RoomOf
<1>. QED
  BY <1>7, <1>8, <1>9 DEF SameFor

\* Who is in a task has no room, and no request holds it.
LEMMA MatchedByFight ==
  ASSUME IInv, NoMistakes, NEW i \in FightId, stage[i] # "unused",
         NEW s \in {first[i], second[i]}, i \in FightsOf(s)
  PROVE  /\ first[i] \in Session /\ second[i] \in Session /\ first[i] # second[i]
         /\ RoomOf(s) = {} /\ FightsOf(s) = {i}
         /\ s \notin Matching /\ \A t \in Matching : room[t] # s
<1> USE DEF IInv, TypeOK
<1>1. first[i] \in Session /\ second[i] \in Session /\ first[i] # second[i]
  BY DEF Pointers, Born, Distinct
<1>2. RequestsOf(s) = {} /\ RoomOf(s) = {} /\ FightsOf(s) = {i}
  BY <1>1 DEF Exclusion, OneHolder, AtMostOne
<1>3. s \notin Matching /\ \A t \in Matching : room[t] # s
  BY <1>2 DEF RequestsOf, Matching
<1>. QED
  BY <1>1, <1>2, <1>3

\* The task lets go of both, one after the other (userFightTask.h:43-64).
LEMMA ReleaseFirstLetsGo ==
  ASSUME IInv, NoMistakes, Abstracted, Abstracted', NEW i \in FightId,
         ReleaseFirst(i), ~Crash(first[i])
  PROVE  first[i] \in Session /\ Promised!LetGo(first[i])
<1> USE DEF IInv, TypeOK
<1>1. PICK s : s = first[i]
  OBVIOUS
<1>2. stage[i] = "release1" /\ i \in FightsOf(s)
  BY <1>1, ReleaseFirstEffect DEF FightsOf
<1>3. /\ first[i] \in Session /\ second[i] \in Session /\ s # second[i]
      /\ RoomOf(s) = {} /\ FightsOf(s) = {i}
      /\ s \notin Matching /\ \A t \in Matching : room[t] # s
  BY <1>1, <1>2, MatchedByFight
<1>4. /\ UNCHANGED <<first, second, room>> /\ Matching' = Matching
      /\ \A t \in Session : RoomOf(t)' = RoomOf(t)
      /\ \A t \in Session : FightsOf(t)' = IF t = s THEN {} ELSE FightsOf(t)
  BY <1>1, <1>3, ReleaseFirstEffect DEF Matching
<1>5. Paired(s, second[i])
  BY <1>1, <1>3 DEF Paired
<1>6. \A o \in Session : ~Paired(s, o)'
  BY <1>1, <1>3, <1>4 DEF Paired
<1>7. ASSUME NEW t \in Session, t # s
      PROVE  SameFor(t)
  BY <1>4, <1>7 DEF SameFor, Paired
<1>8. ChallengeState[s] = "matched"
  BY <1>1, <1>3, <1>5 DEF Abstracted
<1>9. ChallengeState'[s] = "free" /\ ChallengeOpponent'[s] = None
  BY <1>1, <1>3, <1>4, <1>6 DEF Abstracted
<1>10. Promised!LetGo(s)
  BY <1>1, <1>3, <1>7, <1>8, <1>9, SameIsKept DEF Abstracted, Promised!LetGo
<1>. QED
  BY <1>1, <1>3, <1>10

\* The second.
LEMMA ReleaseSecondLetsGo ==
  ASSUME IInv, NoMistakes, Abstracted, Abstracted', NEW i \in FightId,
         ReleaseSecond(i), ~Crash(second[i])
  PROVE  second[i] \in Session /\ Promised!LetGo(second[i])
<1> USE DEF IInv, TypeOK
<1>1. PICK s : s = second[i]
  OBVIOUS
<1>2. stage[i] = "release2" /\ i \in FightsOf(s)
  BY <1>1, ReleaseSecondEffect DEF FightsOf
<1>3. /\ first[i] \in Session /\ second[i] \in Session /\ s # first[i]
      /\ RoomOf(s) = {} /\ FightsOf(s) = {i}
      /\ s \notin Matching /\ \A t \in Matching : room[t] # s
  BY <1>1, <1>2, MatchedByFight
<1>4. /\ UNCHANGED room /\ Matching' = Matching
      /\ \A t \in Session : RoomOf(t)' = RoomOf(t)
      /\ \A t \in Session : FightsOf(t)' = IF t = s THEN {} ELSE FightsOf(t)
  BY <1>1, <1>3, ReleaseSecondEffect DEF Matching
<1>5. \A t \in Session : t # s => i \notin FightsOf(t)
  BY <1>1, <1>2 DEF FightsOf
<1>6. \A j \in FightId \ {i} : first'[j] = first[j] /\ second'[j] = second[j]
  BY ReleaseSecondEffect
<1>7. Paired(s, first[i])
  BY <1>1, <1>3 DEF Paired
<1>8. \A o \in Session : ~Paired(s, o)'
  BY <1>1, <1>3, <1>4 DEF Paired
<1>9. ASSUME NEW t \in Session, t # s
      PROVE  SameFor(t)
  <2>1. FightsOf(t) \subseteq FightId \ {i}
    BY <1>5, <1>9 DEF FightsOf
  <2>. QED
    BY <1>4, <1>6, <1>9, <2>1 DEF SameFor, Paired
<1>10. ChallengeState[s] = "matched"
  BY <1>1, <1>3, <1>7 DEF Abstracted
<1>11. ChallengeState'[s] = "free" /\ ChallengeOpponent'[s] = None
  BY <1>1, <1>3, <1>4, <1>8 DEF Abstracted
<1>12. Promised!LetGo(s)
  BY <1>1, <1>3, <1>9, <1>10, <1>11, SameIsKept DEF Abstracted, Promised!LetGo
<1>. QED
  BY <1>1, <1>3, <1>12

\* Mistakes stay recorded.
LEMMA MistakesStay ==
  ASSUME IInv, NoMistakes', Next
  PROVE  NoMistakes
<1> USE DEF IInv
<1>1. ASSUME NEW s \in Session, RemoveFightRoom(s)
      PROVE  NoMistakes
  BY <1>1, RoomTaken DEF RemoveFightRoom
<1>2. ASSUME NEW s \in Session, RefuseDone(s)
      PROVE  NoMistakes
  <2>1. CASE Crash(room[s])
    BY <2>1 DEF Crash
  <2>2. CASE ~Crash(room[s])
    BY <1>2, <2>2, RefuseEffect DEF Cleared
  <2>. QED
    BY <2>1, <2>2
<1>3. ASSUME NEW s \in Session, JoinAnswer(s) \/ StartFight(s)
      PROVE  NoMistakes
  BY <1>3 DEF JoinAnswer, StartFight, Crash
<1>4. ASSUME NEW i \in FightId, ReleaseFirst(i)
      PROVE  NoMistakes
  <2>1. CASE Crash(first[i])
    BY <2>1 DEF Crash
  <2>2. CASE ~Crash(first[i])
    BY <1>4, <2>2, ReleaseFirstEffect DEF Cleared
  <2>. QED
    BY <2>1, <2>2
<1>5. ASSUME NEW i \in FightId, ReleaseSecond(i)
      PROVE  NoMistakes
  <2>1. CASE Crash(second[i])
    BY <2>1 DEF Crash
  <2>2. CASE ~Crash(second[i])
    BY <1>5, <2>2, ReleaseSecondEffect DEF Cleared
  <2>. QED
    BY <2>1, <2>2
<1>6. ASSUME NEW s \in Session,
             CheckCreate(s) \/ InsertRoom(s) \/ FindRoom(s) \/ RecheckRoom(s) \/ CancelDone(s) \/ Client(s)
      PROVE  NoMistakes
  BY <1>6 DEF Client, CheckCreate, InsertRoom, FindRoom, RecheckRoom, CancelDone, Connect, Disconnect,
              UserFightReady, RequestCreate, RequestCancel, RequestJoin, RequestRefuse, Request
<1>7. ASSUME NEW i \in FightId, PollFirst(i) \/ PollSecond(i) \/ EndFight(i)
      PROVE  NoMistakes
  BY <1>7 DEF PollFirst, PollSecond, Poll, EndFight
<1>. QED
  BY <1>1, <1>2, <1>3, <1>4, <1>5, <1>6, <1>7 DEF Next, Handle, Run

\* A crash is a stutter.
LEMMA CrashIsQuiet ==
  ASSUME NEW s, Crash(s)
  PROVE  UNCHANGED Mapped
BY DEF Crash, Mapped, ChallengeState, ChallengeOpponent, Matches, Matching, FightsOf, RoomOf

\* Every step is one of Challenge, or a stutter.
LEMMA StepImplements ==
  ASSUME IInv, IInv', NoMistakes', Abstracted, Abstracted', Next
  PROVE  Promised!Next \/ UNCHANGED Mapped
<1>1. NoMistakes
  BY MistakesStay
<1>2. ASSUME NEW s \in Session, InsertRoom(s)
      PROVE  Promised!Next
  BY <1>1, <1>2, InsertRoomChallenges DEF Promised!Next
<1>3. ASSUME NEW s \in Session, RemoveFightRoom(s)
      PROVE  Promised!Next
  BY <1>3, RoomRemovedWithdraws, RoomJoinedAccepts DEF Promised!Next
<1>4. ASSUME NEW s \in Session, JoinAnswer(s)
      PROVE  Promised!Next \/ UNCHANGED Mapped
  BY <1>1, <1>4, JoinAnswerCallsOff, SameForAll, CrashIsQuiet DEF Promised!Next
<1>5. ASSUME NEW s \in Session, StartFight(s)
      PROVE  UNCHANGED Mapped
  BY <1>1, <1>5, StartFightKeepsMatch, SameForAll, CrashIsQuiet
<1>6. ASSUME NEW s \in Session, Quiet(s)
      PROVE  UNCHANGED Mapped
  BY <1>6, QuietRequests, SameForAll
<1>7. ASSUME NEW i \in FightId, ReleaseFirst(i) \/ ReleaseSecond(i)
      PROVE  Promised!Next \/ UNCHANGED Mapped
  BY <1>1, <1>7, ReleaseFirstLetsGo, ReleaseSecondLetsGo, CrashIsQuiet DEF Promised!Next
<1>8. ASSUME NEW i \in FightId, PollFirst(i) \/ PollSecond(i) \/ EndFight(i)
      PROVE  UNCHANGED Mapped
  BY <1>8, QuietFights, SameForAll
<1>. QED
  BY <1>2, <1>3, <1>4, <1>5, <1>6, <1>7, <1>8 DEF Next, Handle, Quiet, Run

(* Rooms, requests, flags and tasks implement Challenge while no rooms and *)
(* no sessions are mistaken (fightManage.h:131-253, userFightTask.h:43-64).*)
THEOREM Refinement == Spec => ImplementsChallenge
<1>1. Init => Promised!Init
  <2> SUFFICES ASSUME Init PROVE Promised!Init
    OBVIOUS
  <2>1. \A s \in Session : Matches(s) = {} /\ RoomOf(s) = {}
    BY DEF Init, Matches, Matching, FightsOf, RoomOf
  <2>. QED
    BY <2>1 DEF Promised!Init, ChallengeState, ChallengeOpponent
<1> DEFINE Related == IInv /\ (NoMistakes => Abstracted)
<1>2. IInv => Related
  BY Abstraction
<1>3. Related /\ Related' /\ [Next]_vars
        => [mixed' \cup struck' = {} => Promised!Next]_<<ChallengeState, ChallengeOpponent>>
  <2> SUFFICES ASSUME Related, Related', [Next]_vars, NoMistakes'
               PROVE  Promised!Next \/ UNCHANGED Mapped
    BY DEF Mapped
  <2>1. CASE Next
    <3>1. NoMistakes
      BY <2>1, MistakesStay
    <3>. QED
      BY <2>1, <3>1, StepImplements
  <2>2. CASE UNCHANGED vars
    BY <2>2 DEF Mapped, ChallengeState, ChallengeOpponent, Matches, Matching, FightsOf, RoomOf
  <2>. QED
    BY <2>1, <2>2
<1> HIDE DEF Related
<1>4. Spec => [][mixed' \cup struck' = {} => Promised!Next]_<<ChallengeState, ChallengeOpponent>>
  BY <1>2, <1>3, Invariance, PTL DEF Spec
<1>. QED
  BY <1>1, <1>4, PTL DEF Spec, ImplementsChallenge
=============================================================================
