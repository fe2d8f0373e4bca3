------------------------------ MODULE Responses ------------------------------
(***************************************************************************)
(* Sessions, and a thread that reads the registry: one that walks over all *)
(* sessions at the end of a login or of a connection                       *)
(* (noticeOnlineUserAction.h: notice, JsonFactory.h:                       *)
(* getNoticeAllOnlineUserJson) and sends to each of them, or one of a      *)
(* fight that sends to the descriptor of a session                         *)
(* (websocketSendAction.h: response).                                      *)
(*                                                                         *)
(* The thread takes one step for each access.  Between two of them entries *)
(* are erased, sessions destroyed and users deleted, and a descriptor is   *)
(* only a number: its connection may be closed and another one accepted    *)
(* under it.  What is read through an iterator, a session or a user that   *)
(* is no longer there is arbitrary, and may end the process.               *)
(*                                                                         *)
(* Such a thread changes nothing of the registry as long as the process    *)
(* lives, so that several do not affect each other, and the model follows  *)
(* one at a time.                                                          *)
(***************************************************************************)
EXTENDS Sessions

CONSTANT Idle   \* no thread is followed

VARIABLES
  out,        \* the thread that is followed, or Idle
  crashed,    \* the process has followed an invalid pointer
  disturbed   \* history: a session left or logged out while it was looked at

(***************************************************************************)
(* out.by is the connection whose thread walks, or None for the thread of  *)
(* a fight; out.fd the descriptor in hand; out.to the session the thread   *)
(* has read, or None; out.step the next thing it does:                     *)
(*   "at"      isSessionOpen for the entry the iterator is at,             *)
(*   "open"    it->second->getUser(),                                      *)
(*   "user"    user->username,                                             *)
(*   "called"  isSessionOpen in response,                                  *)
(*   "checked" isSessionOpen after packData,                               *)
(*   "packed"  send,                                                       *)
(*   "next"    it++;                                                       *)
(* out.counted: isSessionOpen has found the key; out.gone: the entry the   *)
(* iterator is at was erased; out.stale: the user was deleted.             *)
(* out.reused: the descriptor was given to a new connection since it was   *)
(* read; out.late: since the frame was packed.                             *)
(***************************************************************************)
rvars == <<vars, out, crashed, disturbed>>

Asking == {"at", "called", "checked"}
Step   == Asking \cup {"open", "user", "packed", "next"}

ResponsesInit == Init /\ out = Idle /\ crashed = FALSE /\ disturbed = FALSE

Crash == crashed' = TRUE /\ UNCHANGED out

\* The entry is done with: a walk goes on, and response returns to a fight.
Done ==
  /\ out' = IF out.by = None THEN Idle ELSE
              [out EXCEPT !.step = "next", !.to = None, !.counted = FALSE, !.stale = FALSE,
                          !.reused = FALSE, !.late = FALSE]
  /\ UNCHANGED crashed

Dead(c) == c \in Conn /\ phase[c] = "dead"

-----------------------------------------------------------------------------
(* The walk.                                                               *)

\* The iterator comes to some entry: the order of a hash table is any, and
\* another one after a rehash.
Arrive(c) ==
  \E f \in AnyFd :
    /\ connfdSessionMap[f] # Absent
    /\ out' = [by |-> c, fd |-> f, step |-> "at", counted |-> FALSE,
               to |-> IF connfdSessionMap[f] = Null THEN None ELSE connfdSessionMap[f],
               gone |-> FALSE, stale |-> FALSE, reused |-> FALSE, late |-> FALSE]

\* noticeAllOnlineUser, noticeNewOnlineUser or noticeNewOfflineUser: begin().
BeginWalk ==
  /\ out = Idle
  /\ \E c \in Conn :
       /\ phase[c] = "announce" \/ (phase[c] = "leaving" /\ user[c] # None)
       /\ Arrive(c)
  /\ UNCHANGED <<vars, crashed, disturbed>>

\* it++, through an entry that may have been erased.
Advance ==
  /\ out # Idle /\ out.step = "next"
  /\ \/ Arrive(out.by) /\ UNCHANGED crashed
     \/ out' = Idle /\ UNCHANGED crashed
     \/ out.gone /\ Crash
  /\ UNCHANGED <<vars, disturbed>>

\* it->second->getUser().
GetUser ==
  /\ out # Idle /\ out.step = "open"
  /\ LET entry == connfdSessionMap[out.fd]
     IN  \/ /\ ~out.gone /\ entry \in Conn
            /\ user[entry] # None \/ Dead(entry)
            /\ out' = [out EXCEPT !.step = "user", !.to = entry, !.reused = FALSE,
                                  !.stale = Dead(entry)]
            /\ UNCHANGED crashed
         \/ /\ ~out.gone /\ entry \in Conn
            /\ user[entry] = None \/ Dead(entry)
            /\ Done
         \/ out.gone /\ Done
         \/ /\ out.gone /\ out.to # None
            /\ out' = [out EXCEPT !.step = "user", !.stale = TRUE]
            /\ UNCHANGED crashed
         \/ (out.gone \/ entry = Null \/ Dead(entry)) /\ Crash
  /\ UNCHANGED <<vars, disturbed>>

\* user->username is compared, and response called; a walk for the list of all
\* users takes the name and goes on.
ReadName ==
  /\ out # Idle /\ out.step = "user"
  /\ \/ out' = [out EXCEPT !.step = "called", !.stale = FALSE] /\ UNCHANGED crashed
     \/ Done
     \/ out.stale /\ Crash
  /\ UNCHANGED <<vars, disturbed>>

-----------------------------------------------------------------------------
(* response.                                                               *)

\* The thread of a fight reads the descriptor of a session with a user, and
\* calls response.
Call ==
  /\ out = Idle
  /\ \E f \in Fd, c \in Conn :
       /\ connfdSessionMap[f] = c
       /\ user[c] # None \/ Dead(c)
       /\ out' = [by |-> None, fd |-> f, step |-> "called", counted |-> FALSE, to |-> c,
                  gone |-> FALSE, stale |-> FALSE, reused |-> FALSE, late |-> FALSE]
  /\ UNCHANGED <<vars, crashed, disturbed>>

\* isSessionOpen: count() of the descriptor ...
Count ==
  /\ out # Idle /\ out.step \in Asking /\ ~out.counted
  /\ \/ /\ connfdSessionMap[out.fd] # Absent
        /\ out' = [out EXCEPT !.counted = TRUE] /\ UNCHANGED crashed
     \/ connfdSessionMap[out.fd] = Absent /\ Done
     \/ out.gone /\ out.step = "at" /\ Crash    \* it->first
  /\ UNCHANGED <<vars, disturbed>>

(* ... and then operator[], and isClose() of the session.  An entry that    *)
(* was erased in between is inserted again, with a null session; a null     *)
(* session ends the process, a destroyed one may.                           *)
IsClose(from, to) ==
  /\ out # Idle /\ out.step = from /\ out.counted
  /\ LET entry == connfdSessionMap[out.fd]
     IN  \/ /\ entry \in Conn
            /\ out' = [out EXCEPT !.step = to, !.counted = FALSE, !.late = FALSE]
            /\ UNCHANGED crashed
         \/ Dead(entry) /\ Done
         \/ (entry \in {Null, Absent} \/ Dead(entry)) /\ Crash
  /\ UNCHANGED <<vars, disturbed>>

Visit == IsClose("at", "open")
Check == IsClose("called", "checked")

\* Mutant: response asks only once.
PackUnchecked ==
  /\ out # Idle /\ out.step = "checked"
  /\ out' = [out EXCEPT !.step = "packed", !.late = FALSE]
  /\ UNCHANGED <<vars, crashed, disturbed>>

\* packData, and the second question.
Pack == IsClose("checked", "packed")

\* send, to whatever connection has the descriptor, or to none.
Send ==
  /\ out # Idle /\ out.step = "packed"
  /\ Done
  /\ UNCHANGED <<vars, disturbed>>

-----------------------------------------------------------------------------

Given(c)   == phase[c] = "new" /\ phase'[c] = "queued" /\ fdOf'[c] = out.fd
Leaves(c)  == phase[c] = "loop" /\ phase'[c] = "removing"
LogsOut(c) == phase[c] = "loop" /\ user[c] # None /\ user'[c] = None

\* A step of a connection, and what it means for the thread that is followed;
\* the thread of a connection does not go on before its walk is over.
SessionStep ==
  /\ Next
  /\ UNCHANGED crashed
  /\ IF out = Idle THEN UNCHANGED <<out, disturbed>> ELSE
     /\ out.by # None => phase'[out.by] = phase[out.by]
     /\ LET given  == \E c \in Conn : Given(c)
            erased == connfdSessionMap[out.fd] # Absent /\ connfdSessionMap'[out.fd] = Absent
        IN  out' = [out EXCEPT !.reused = @ \/ given, !.late = @ \/ (out.step = "packed" /\ given),
                               !.gone = @ \/ (out.by # None /\ erased),
                               !.stale = @ \/ (out.step = "user" /\ user'[out.to] # user[out.to])]
     /\ disturbed' = (disturbed \/ \E c \in Conn :
                        (Leaves(c) /\ fdOf[c] = out.fd) \/ (LogsOut(c) /\ c = out.to))

Read == BeginWalk \/ Advance \/ GetUser \/ ReadName \/ Call \/ Count \/ Visit \/ Check \/ Pack \/ Send

ResponsesNext == ~crashed /\ (SessionStep \/ Read)

ResponsesSpec == ResponsesInit /\ [][ResponsesNext]_rvars

-----------------------------------------------------------------------------
(* Properties.                                                             *)

Reaches(c) == phase[c] \in Open /\ fdOf[c] = out.fd

(* A message reaches no session but the one it is for, unless this one has *)
(* ended since its descriptor was read and a new connection has got the    *)
(* number, or its entry had stayed after a reset.  And no message reaches  *)
(* a client that waits for the answer to its handshake, unless the number  *)
(* was given away after the frame was packed and the registry asked again  *)
(* (websocketSendAction.h:56-77).                                          *)
AnswersReachTheirSession ==
  [][out # Idle /\ Send => \A c \in Conn : Reaches(c) =>
       /\ c = out.to \/ out.reused \/ wasReset # {}
       /\ phase[c] = "queued" => out.late \/ wasReset # {}]_rvars

(* Reading the registry ends the process only after a look up of a user    *)
(* without a session, which leaves a null entry, after a reset, which      *)
(* leaves a dangling one, or when the very session a thread is at leaves   *)
(* or logs out between two of its accesses.  Whoever else comes, leaves    *)
(* or logs out meanwhile does no harm: sessions are unregistered before    *)
(* they are destroyed (websocketSessionManage.h:52-54, 108,                *)
(* noticeOnlineUserAction.h:20-32, requestHanlder.h:190).                  *)
CrashHasCause == crashed => missed # {} \/ wasReset # {} \/ disturbed
=============================================================================
