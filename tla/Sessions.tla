------------------------------- MODULE Sessions -------------------------------
(***************************************************************************)
(* The life of a connection (requestReceiver.h: receiveRequest), login and *)
(* logout (requestHanlder.h), and the two maps every thread shares         *)
(* (websocketSessionManage.h): connfdSessionMap, from descriptors to       *)
(* sessions, and userConnfdMap, from user names to descriptors.            *)
(*                                                                         *)
(* A WebsocketSession is a local variable of receiveRequest, so it lives   *)
(* exactly as long as the call that serves its connection, and the map     *)
(* holds a pointer into that call's stack.  A pointer to a session is      *)
(* modelled by the connection it serves.                                   *)
(*                                                                         *)
(* The maps are not protected by any lock.  A step of this module is one   *)
(* access to one map: the model interleaves accesses, and takes each of    *)
(* them as indivisible.  What a thread reads while it notifies the users,  *)
(* and what happens to it there, is module Responses.                      *)
(***************************************************************************)
EXTENDS FiniteSets

CONSTANTS
  Conn,     \* the connections a run of the model accepts; each is one client
  Fd,       \* the descriptors the kernel gives to connections
  Zero,     \* descriptor 0, the value operator[] gives to a new key
  Minus,    \* -1, what accept returns when it fails
  User,     \* the users of the database
  None,     \* no user
  Null,     \* the null pointer, the session operator[] gives to a new key
  Absent    \* no entry in connfdSessionMap

ASSUME SessionsAssumption ==
  /\ Zero \notin Fd /\ Minus \notin Fd /\ Zero # Minus
  /\ None \notin User \cup Conn
  /\ Null \notin Conn /\ Absent \notin Conn /\ Null # Absent

VARIABLES
  phase,              \* how far receiveRequest is for each connection
  fdOf,               \* WebsocketSession::connfd
  user,               \* WebsocketSession::user
  want,               \* the username a login in progress has checked
  connfdSessionMap,
  userConnfdMap,      \* Zero for a name that is not a key
  raced,              \* history: users with two logins under way at once
  loggedOut,          \* history: connections that sent logout
  wasReset,           \* history: connections for which recv has failed
  missed              \* history: users looked up while they had no session

history == <<raced, loggedOut, wasReset, missed>>
vars == <<phase, fdOf, user, want, connfdSessionMap, userConnfdMap, history>>

(***************************************************************************)
(* "new" not accepted yet; "queued" a SessionTask in the pool; "loop" at   *)
(* recv; "checked", "updated", "announce" inside login; "removing" inside  *)
(* removeSession; "leaving" after the loop; "closing" before close(connfd);*)
(* "closed" before the return that destroys the session; "dead" after it.  *)
(***************************************************************************)
Served == {"loop", "checked", "updated", "announce"}
Open   == {"queued", "removing", "leaving", "closing"} \cup Served
Phase  == {"new", "closed", "dead"} \cup Open

\* The keys of connfdSessionMap.
AnyFd == Fd \cup {Zero, Minus}

OpenFds == {fdOf[c] : c \in {d \in Conn : phase[d] \in Open}}

Init ==
  /\ phase = [c \in Conn |-> "new"]
  /\ fdOf = [c \in Conn |-> Zero]
  /\ user = [c \in Conn |-> None]
  /\ want = [c \in Conn |-> None]
  /\ connfdSessionMap = [f \in AnyFd |-> Absent]
  /\ userConnfdMap = [u \in User |-> Zero]
  /\ raced = {} /\ loggedOut = {} /\ wasReset = {} /\ missed = {}

Goto(c, from, to) ==
  /\ phase[c] = from
  /\ phase' = [phase EXCEPT ![c] = to]

-----------------------------------------------------------------------------
(* Connecting.                                                             *)

\* accept() returns a descriptor that is not open; addTask(SessionTask).
Accept(c) ==
  /\ Goto(c, "new", "queued")
  /\ \E f \in Fd \ OpenFds : fdOf' = [fdOf EXCEPT ![c] = f]
  /\ UNCHANGED <<user, want, connfdSessionMap, userConnfdMap, history>>

\* accept() fails, for want of descriptors or because the client has gone
\* already; the task is added all the same.
AcceptFails(c) ==
  /\ Goto(c, "new", "queued")
  /\ fdOf' = [fdOf EXCEPT ![c] = Minus]
  /\ UNCHANGED <<user, want, connfdSessionMap, userConnfdMap, history>>

\* The handshake, the constructor of the session, and addSession.
AddSession(c) ==
  /\ Goto(c, "queued", "loop")
  /\ fdOf[c] # Minus
  /\ connfdSessionMap' = [connfdSessionMap EXCEPT ![fdOf[c]] = c]
  /\ UNCHANGED <<fdOf, user, want, userConnfdMap, history>>

\* The same without a connection; recv fails at once, and the loop ends without
\* removeSession.
AddNoSession(c) ==
  /\ Goto(c, "queued", "leaving")
  /\ fdOf[c] = Minus
  /\ connfdSessionMap' = [connfdSessionMap EXCEPT ![Minus] = c]
  /\ wasReset' = wasReset \cup {c}
  /\ UNCHANGED <<fdOf, user, want, userConnfdMap, raced, loggedOut,
                 missed>>

-----------------------------------------------------------------------------
(* login and logout.  dealRequest lets only login through before a login,  *)
(* and every request but login afterwards.  A login with a wrong password, *)
(* or of a user that isUserOnline finds, changes nothing.                  *)

\* Mutant: login without isUserOnline.
LoginUnchecked(c, u) ==
  /\ Goto(c, "loop", "checked")
  /\ user[c] = None
  /\ want' = [want EXCEPT ![c] = u]
  /\ raced' = IF \E d \in Conn : phase[d] = "checked" /\ want[d] = u
                THEN raced \cup {u} ELSE raced
  /\ UNCHANGED <<fdOf, user, connfdSessionMap, userConnfdMap, loggedOut, wasReset, missed>>

LoginCheck(c, u) ==
  /\ Goto(c, "loop", "checked")
  /\ user[c] = None
  /\ userConnfdMap[u] = Zero
  /\ want' = [want EXCEPT ![c] = u]
  /\ raced' = IF \E d \in Conn : phase[d] = "checked" /\ want[d] = u
                THEN raced \cup {u} ELSE raced
  /\ UNCHANGED <<fdOf, user, connfdSessionMap, userConnfdMap, loggedOut, wasReset, missed>>

\* updateSession
LoginUpdate(c) ==
  /\ Goto(c, "checked", "updated")
  /\ userConnfdMap' = [userConnfdMap EXCEPT ![want[c]] = fdOf[c]]
  /\ UNCHANGED <<fdOf, user, want, connfdSessionMap, history>>

LoginSetUser(c) ==
  /\ Goto(c, "updated", "announce")
  /\ user' = [user EXCEPT ![c] = want[c]]
  /\ want' = [want EXCEPT ![c] = None]
  /\ UNCHANGED <<fdOf, connfdSessionMap, userConnfdMap, history>>

\* noticeAllOnlineUser and noticeNewOnlineUser, after the user is set, are over.
LoginNotice(c) ==
  /\ Goto(c, "announce", "loop")
  /\ UNCHANGED <<fdOf, user, want, connfdSessionMap, userConnfdMap, history>>

\* setUser(NULL), and nothing else.
Logout(c) ==
  /\ phase[c] = "loop"
  /\ user[c] # None
  /\ user' = [user EXCEPT ![c] = None]
  /\ loggedOut' = loggedOut \cup {c}
  /\ UNCHANGED <<phase, fdOf, want, connfdSessionMap, userConnfdMap, raced, wasReset, missed>>

(* getSessionByUsername, called by createUserFight and cancelUserFight with *)
(* a name the client sent: operator[] inserts a null session for a          *)
(* descriptor that is not a key, and descriptor 0 for a name that is not.   *)
GetSessionByUsername(c, u) ==
  /\ phase[c] = "loop"
  /\ user[c] # None
  /\ connfdSessionMap[userConnfdMap[u]] = Absent
  /\ connfdSessionMap' = [connfdSessionMap EXCEPT ![userConnfdMap[u]] = Null]
  /\ missed' = missed \cup {u}
  /\ UNCHANGED <<phase, fdOf, user, want, userConnfdMap, raced,
                 loggedOut, wasReset>>

-----------------------------------------------------------------------------
(* Leaving.                                                                *)

\* Mutant: removeSession leaves the session registered.
RemoveNothing(c) ==
  /\ Goto(c, "loop", "removing")
  /\ UNCHANGED <<fdOf, user, want, connfdSessionMap, userConnfdMap, history>>

\* Mutant: removeSession sets the pointer to null and keeps the key.
RemoveToNull(c) ==
  /\ Goto(c, "loop", "removing")
  /\ connfdSessionMap' = [connfdSessionMap EXCEPT ![fdOf[c]] = Null]
  /\ UNCHANGED <<fdOf, user, want, userConnfdMap, history>>

\* recv returns 0: removeSession erases the session first,
RemoveSession(c) ==
  /\ Goto(c, "loop", "removing")
  /\ connfdSessionMap' = [connfdSessionMap EXCEPT ![fdOf[c]] = Absent]
  /\ UNCHANGED <<fdOf, user, want, userConnfdMap, history>>

\* Mutant: removeSession forgets userConnfdMap.
RemoveNoUser(c) ==
  /\ Goto(c, "removing", "leaving")
  /\ UNCHANGED <<fdOf, user, want, connfdSessionMap, userConnfdMap, history>>

\* then the first name, in the order of the hash table, with this descriptor.
RemoveUser(c) ==
  /\ Goto(c, "removing", "leaving")
  /\ \/ /\ \A u \in User : userConnfdMap[u] # fdOf[c]
        /\ UNCHANGED userConnfdMap
     \/ \E u \in User :
          /\ userConnfdMap[u] = fdOf[c]
          /\ userConnfdMap' = [userConnfdMap EXCEPT ![u] = Zero]
  /\ UNCHANGED <<fdOf, user, want, connfdSessionMap, history>>

\* recv fails: the loop ends without removeSession.
ConnectionReset(c) ==
  /\ Goto(c, "loop", "leaving")
  /\ wasReset' = wasReset \cup {c}
  /\ UNCHANGED <<fdOf, user, want, connfdSessionMap, userConnfdMap, raced, loggedOut, missed>>

\* noticeNewOfflineUser, for a session with a user, is over.
LeaveNotice(c) ==
  /\ Goto(c, "leaving", "closing")
  /\ UNCHANGED <<fdOf, user, want, connfdSessionMap, userConnfdMap, history>>

CloseFd(c) ==
  /\ Goto(c, "closing", "closed")
  /\ UNCHANGED <<fdOf, user, want, connfdSessionMap, userConnfdMap, history>>

\* Mutant: the destructor, after close(connfd), erases the entry.
DestroyErases(c) ==
  /\ Goto(c, "closed", "dead")
  /\ user' = [user EXCEPT ![c] = None]
  /\ connfdSessionMap' = [connfdSessionMap EXCEPT ![fdOf[c]] = Absent]
  /\ UNCHANGED <<fdOf, want, userConnfdMap, history>>

\* The end of receiveRequest runs the destructor of the session.
Destroy(c) ==
  /\ Goto(c, "closed", "dead")
  /\ user' = [user EXCEPT ![c] = None]
  /\ UNCHANGED <<fdOf, want, connfdSessionMap, userConnfdMap, history>>

-----------------------------------------------------------------------------

Serve(c) ==
  \/ AddSession(c) \/ AddNoSession(c)
  \/ LoginUpdate(c) \/ LoginSetUser(c) \/ LoginNotice(c)
  \/ RemoveUser(c) \/ LeaveNotice(c) \/ CloseFd(c) \/ Destroy(c)

Client(c) ==
  \/ Accept(c) \/ AcceptFails(c) \/ Logout(c) \/ RemoveSession(c) \/ ConnectionReset(c)
  \/ \E u \in User : LoginCheck(c, u) \/ GetSessionByUsername(c, u)

Next == \E c \in Conn : Serve(c) \/ Client(c)

Spec == Init /\ [][Next]_vars

\* The thread of a connection runs whenever it is not waiting for its client.
FairSpec == Spec /\ \A c \in Conn : WF_vars(Serve(c))

-----------------------------------------------------------------------------
(* Properties.                                                             *)

TypeOK ==
  /\ phase \in [Conn -> Phase]
  /\ fdOf \in [Conn -> AnyFd]
  /\ user \in [Conn -> User \cup {None}]
  /\ want \in [Conn -> User \cup {None}]
  /\ connfdSessionMap \in [AnyFd -> Conn \cup {Null, Absent}]
  /\ userConnfdMap \in [User -> Fd \cup {Zero}]
  /\ raced \in SUBSET User /\ missed \in SUBSET User
  /\ loggedOut \in SUBSET Conn /\ wasReset \in SUBSET Conn

(* A connection that is being served is the one registered under its       *)
(* descriptor, so that responses to it are sent, although the number has   *)
(* belonged to other connections whose threads may still be leaving        *)
(* (requestReceiver.h:223-227, 237, 268: the entry is removed before the   *)
(* descriptor is closed).                                                  *)
ServedIsRegistered ==
  \A c \in Conn : phase[c] \in Served => connfdSessionMap[fdOf[c]] = c

(* The registry points at a destroyed session only if that session ended   *)
(* with an error of recv (requestReceiver.h:249-253), its connection reset *)
(* or never accepted: every other way out removes the pointer while the    *)
(* session still exists.                                                   *)
DanglingNeedsReset ==
  \A c \in Conn, f \in AnyFd :
    connfdSessionMap[f] = c /\ phase[c] = "dead" => c \in wasReset

LoggedIn(c, u) == phase[c] \in Served /\ user[c] = u

(* Two sessions serve the same user only if two logins of this user were   *)
(* both between isUserOnline and updateSession (requestHanlder.h:42-48):   *)
(* neither logouts, nor resets, nor descriptors used again, nor names left *)
(* in userConnfdMap let a second session in.                               *)
LoginExclusive ==
  \A u \in User \ raced : \A c, d \in Conn :
    LoggedIn(c, u) /\ LoggedIn(d, u) => c = d

(* As long as nobody logs out, no connection is reset and no logins        *)
(* overlap, a name is in userConnfdMap only while a session of this user   *)
(* holds the descriptor: the user is not refused as online after leaving,  *)
(* and a challenge to a user reaches this user's session                   *)
(* (websocketSessionManage.h:81-98, 106-109).                              *)
Orderly == raced = {} /\ loggedOut = {} /\ wasReset = {}

OnlineIsServed ==
  Orderly =>
    \A u \in User : userConnfdMap[u] # Zero =>
      \E c \in Conn :
        /\ fdOf[c] = userConnfdMap[u]
        /\ \/ phase[c] = "updated" /\ want[c] = u
           \/ phase[c] \in {"loop", "announce", "removing"} /\ user[c] = u

(* After an orderly history, a user whose client closes the connection     *)
(* goes offline, whatever the other threads do, and can log in again (as   *)
(* long as the process lives; see Responses!CrashHasCause).                *)
GoesOffline ==
  \A c \in Conn, u \in User :
    phase[c] = "removing" /\ user[c] = u
      ~> userConnfdMap[u] = Zero \/ ~Orderly
=============================================================================
