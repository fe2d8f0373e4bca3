--------------------------- MODULE SessionsProofs ---------------------------
(***************************************************************************)
(* Theorems of Sessions, for any number of connections, descriptors and    *)
(* users: what the two shared maps say about the sessions that exist.  And *)
(* of Responses: whom a message reaches; the invariant of the sessions     *)
(* holds there too, where a response may end the process.                  *)
(***************************************************************************)
EXTENDS Responses, TLAPS

(* The inductive invariant, one conjunct per idea.                         *)

\* A descriptor belongs to one connection at a time, and what is served has one.
Descriptors ==
  /\ \A c \in Conn : phase[c] # "new" => fdOf[c] \in Fd \cup {Minus}
  /\ \A c \in Conn : phase[c] \in Served \cup {"removing"} => fdOf[c] # Minus
  /\ \A c, d \in Conn :
       phase[c] \in Open /\ phase[d] \in Open /\ fdOf[c] = fdOf[d] =>
         c = d \/ fdOf[c] = Minus

\* An entry is a session under its own descriptor, and one that is past the
\* loop was left there by a reset.
Registry ==
  \A c \in Conn, f \in AnyFd : connfdSessionMap[f] = c =>
    /\ f = fdOf[c]
    /\ phase[c] \notin {"new", "queued"}
    /\ phase[c] \in Served \/ c \in wasReset

\* The local state of a login.
LoginLocals ==
  \A c \in Conn :
    /\ phase[c] \in {"new", "queued", "checked", "updated"} => user[c] = None
    /\ phase[c] \in {"checked", "updated"} => want[c] \in User

\* c has passed updateSession for u.
Claims(c, u) ==
  \/ phase[c] = "updated" /\ want[c] = u
  \/ phase[c] \in {"announce", "loop"} /\ user[c] = u

\* Without overlapping logins, updateSession is the only writer that matters.
LoginOrder ==
  \A u \in User \ raced :
    /\ \A c \in Conn : Claims(c, u) => userConnfdMap[u] = fdOf[c]
    /\ \A c \in Conn :
         phase[c] = "checked" /\ want[c] = u => userConnfdMap[u] = Zero
    /\ \A c, d \in Conn :
         phase[c] = "checked" /\ want[c] = u /\ phase[d] = "checked" /\ want[d] = u
           => c = d

\* A null entry comes from a look up that found nothing.
Nulls == \A f \in AnyFd : connfdSessionMap[f] = Null => missed # {}

IInv ==
  /\ TypeOK
  /\ Descriptors
  /\ ServedIsRegistered
  /\ Registry
  /\ LoginLocals
  /\ LoginOrder
  /\ OnlineIsServed
  /\ Nulls

USE SessionsAssumption DEF SessionsAssumption, AnyFd, Phase, Open, Served, history, vars

-----------------------------------------------------------------------------
(* One lemma for each part of the invariant.                               *)

LEMMA TypePreserved ==
  ASSUME TypeOK, Descriptors, LoginLocals, [Next]_vars
  PROVE  TypeOK'
<1> USE DEF TypeOK, LoginLocals
<1>1. ASSUME NEW c \in Conn, Accept(c)
      PROVE  TypeOK'
  BY <1>1 DEF Accept, Goto
<1>2. ASSUME NEW c \in Conn, AddSession(c)
      PROVE  TypeOK'
  BY <1>2 DEF AddSession, Goto
<1>3. ASSUME NEW c \in Conn, NEW u \in User, LoginCheck(c, u)
      PROVE  TypeOK'
  BY <1>3 DEF LoginCheck, Goto
<1>4. ASSUME NEW c \in Conn, LoginUpdate(c)
      PROVE  TypeOK'
  BY <1>4 DEF LoginUpdate, Goto, Descriptors
<1>5. ASSUME NEW c \in Conn, LoginSetUser(c)
      PROVE  TypeOK'
  BY <1>5 DEF LoginSetUser, Goto
<1>6. ASSUME NEW c \in Conn, LoginNotice(c)
      PROVE  TypeOK'
  BY <1>6 DEF LoginNotice, Goto
<1>7. ASSUME NEW c \in Conn, Logout(c)
      PROVE  TypeOK'
  BY <1>7 DEF Logout, Goto
<1>8. ASSUME NEW c \in Conn, NEW u \in User, GetSessionByUsername(c, u)
      PROVE  TypeOK'
  BY <1>8 DEF GetSessionByUsername, Goto
<1>9. ASSUME NEW c \in Conn, RemoveSession(c)
      PROVE  TypeOK'
  BY <1>9 DEF RemoveSession, Goto
<1>10. ASSUME NEW c \in Conn, RemoveUser(c)
      PROVE  TypeOK'
  BY <1>10 DEF RemoveUser, Goto
<1>11. ASSUME NEW c \in Conn, ConnectionReset(c)
      PROVE  TypeOK'
  BY <1>11 DEF ConnectionReset, Goto
<1>12. ASSUME NEW c \in Conn, LeaveNotice(c)
      PROVE  TypeOK'
  BY <1>12 DEF LeaveNotice, Goto
<1>13. ASSUME NEW c \in Conn, CloseFd(c)
      PROVE  TypeOK'
  BY <1>13 DEF CloseFd, Goto
<1>14. ASSUME NEW c \in Conn, Destroy(c)
      PROVE  TypeOK'
  BY <1>14 DEF Destroy, Goto
<1>15. ASSUME NEW c \in Conn, AcceptFails(c)
      PROVE  TypeOK'
  BY <1>15 DEF AcceptFails, Goto
<1>16. ASSUME NEW c \in Conn, AddNoSession(c)
      PROVE  TypeOK'
  BY <1>16 DEF AddNoSession, Goto
<1>17. CASE UNCHANGED vars
  BY <1>17
<1>. QED
  BY <1>1, <1>2, <1>3, <1>4, <1>5, <1>6, <1>7, <1>8, <1>9, <1>10, <1>11,
     <1>12, <1>13, <1>14, <1>15, <1>16, <1>17 DEF Next, Serve, Client

LEMMA DescriptorsPreserved ==
  ASSUME TypeOK, Descriptors, [Next]_vars
  PROVE  Descriptors'
<1> USE DEF TypeOK, Descriptors
<1>1. ASSUME NEW c \in Conn, Accept(c)
      PROVE  Descriptors'
  BY <1>1 DEF Accept, Goto, OpenFds
<1>2. ASSUME NEW c \in Conn, AddSession(c)
      PROVE  Descriptors'
  BY <1>2 DEF AddSession, Goto
<1>3. ASSUME NEW c \in Conn, NEW u \in User, LoginCheck(c, u)
      PROVE  Descriptors'
  BY <1>3 DEF LoginCheck, Goto
<1>4. ASSUME NEW c \in Conn, LoginUpdate(c)
      PROVE  Descriptors'
  BY <1>4 DEF LoginUpdate, Goto
<1>5. ASSUME NEW c \in Conn, LoginSetUser(c)
      PROVE  Descriptors'
  BY <1>5 DEF LoginSetUser, Goto
<1>6. ASSUME NEW c \in Conn, LoginNotice(c)
      PROVE  Descriptors'
  BY <1>6 DEF LoginNotice, Goto
<1>7. ASSUME NEW c \in Conn, Logout(c)
      PROVE  Descriptors'
  BY <1>7 DEF Logout, Goto
<1>8. ASSUME NEW c \in Conn, NEW u \in User, GetSessionByUsername(c, u)
      PROVE  Descriptors'
  BY <1>8 DEF GetSessionByUsername, Goto
<1>9. ASSUME NEW c \in Conn, RemoveSession(c)
      PROVE  Descriptors'
  BY <1>9 DEF RemoveSession, Goto
<1>10. ASSUME NEW c \in Conn, RemoveUser(c)
      PROVE  Descriptors'
  BY <1>10 DEF RemoveUser, Goto
<1>11. ASSUME NEW c \in Conn, ConnectionReset(c)
      PROVE  Descriptors'
  BY <1>11 DEF ConnectionReset, Goto
<1>12. ASSUME NEW c \in Conn, LeaveNotice(c)
      PROVE  Descriptors'
  BY <1>12 DEF LeaveNotice, Goto
<1>13. ASSUME NEW c \in Conn, CloseFd(c)
      PROVE  Descriptors'
  BY <1>13 DEF CloseFd, Goto
<1>14. ASSUME NEW c \in Conn, Destroy(c)
      PROVE  Descriptors'
  BY <1>14 DEF Destroy, Goto
<1>15. ASSUME NEW c \in Conn, AcceptFails(c)
      PROVE  Descriptors'
  BY <1>15 DEF AcceptFails, Goto
<1>16. ASSUME NEW c \in Conn, AddNoSession(c)
      PROVE  Descriptors'
  BY <1>16 DEF AddNoSession, Goto
<1>17. CASE UNCHANGED vars
  BY <1>17
<1>. QED
  BY <1>1, <1>2, <1>3, <1>4, <1>5, <1>6, <1>7, <1>8, <1>9, <1>10, <1>11,
     <1>12, <1>13, <1>14, <1>15, <1>16, <1>17 DEF Next, Serve, Client

LEMMA ServedPreserved ==
  ASSUME TypeOK, Descriptors, ServedIsRegistered, [Next]_vars
  PROVE  ServedIsRegistered'
<1> USE DEF TypeOK, Descriptors, ServedIsRegistered
<1>1. ASSUME NEW c \in Conn, Accept(c)
      PROVE  ServedIsRegistered'
  BY <1>1 DEF Accept, Goto
<1>2. ASSUME NEW c \in Conn, AddSession(c)
      PROVE  ServedIsRegistered'
  BY <1>2 DEF AddSession, Goto
<1>3. ASSUME NEW c \in Conn, NEW u \in User, LoginCheck(c, u)
      PROVE  ServedIsRegistered'
  BY <1>3 DEF LoginCheck, Goto
<1>4. ASSUME NEW c \in Conn, LoginUpdate(c)
      PROVE  ServedIsRegistered'
  BY <1>4 DEF LoginUpdate, Goto
<1>5. ASSUME NEW c \in Conn, LoginSetUser(c)
      PROVE  ServedIsRegistered'
  BY <1>5 DEF LoginSetUser, Goto
<1>6. ASSUME NEW c \in Conn, LoginNotice(c)
      PROVE  ServedIsRegistered'
  BY <1>6 DEF LoginNotice, Goto
<1>7. ASSUME NEW c \in Conn, Logout(c)
      PROVE  ServedIsRegistered'
  BY <1>7 DEF Logout, Goto
<1>8. ASSUME NEW c \in Conn, NEW u \in User, GetSessionByUsername(c, u)
      PROVE  ServedIsRegistered'
  BY <1>8 DEF GetSessionByUsername, Goto
<1>9. ASSUME NEW c \in Conn, RemoveSession(c)
      PROVE  ServedIsRegistered'
  BY <1>9 DEF RemoveSession, Goto
<1>10. ASSUME NEW c \in Conn, RemoveUser(c)
      PROVE  ServedIsRegistered'
  BY <1>10 DEF RemoveUser, Goto
<1>11. ASSUME NEW c \in Conn, ConnectionReset(c)
      PROVE  ServedIsRegistered'
  BY <1>11 DEF ConnectionReset, Goto
<1>12. ASSUME NEW c \in Conn, LeaveNotice(c)
      PROVE  ServedIsRegistered'
  BY <1>12 DEF LeaveNotice, Goto
<1>13. ASSUME NEW c \in Conn, CloseFd(c)
      PROVE  ServedIsRegistered'
  BY <1>13 DEF CloseFd, Goto
<1>14. ASSUME NEW c \in Conn, Destroy(c)
      PROVE  ServedIsRegistered'
  BY <1>14 DEF Destroy, Goto
<1>15. ASSUME NEW c \in Conn, AcceptFails(c)
      PROVE  ServedIsRegistered'
  BY <1>15 DEF AcceptFails, Goto
<1>16. ASSUME NEW c \in Conn, AddNoSession(c)
      PROVE  ServedIsRegistered'
  BY <1>16 DEF AddNoSession, Goto
<1>17. CASE UNCHANGED vars
  BY <1>17
<1>. QED
  BY <1>1, <1>2, <1>3, <1>4, <1>5, <1>6, <1>7, <1>8, <1>9, <1>10, <1>11,
     <1>12, <1>13, <1>14, <1>15, <1>16, <1>17 DEF Next, Serve, Client

LEMMA RegistryPreserved ==
  ASSUME TypeOK, Descriptors, Registry, [Next]_vars
  PROVE  Registry'
<1> USE DEF TypeOK, Descriptors, Registry
<1>1. ASSUME NEW c \in Conn, Accept(c)
      PROVE  Registry'
  BY <1>1 DEF Accept, Goto
<1>2. ASSUME NEW c \in Conn, AddSession(c)
      PROVE  Registry'
  BY <1>2 DEF AddSession, Goto
<1>3. ASSUME NEW c \in Conn, NEW u \in User, LoginCheck(c, u)
      PROVE  Registry'
  BY <1>3 DEF LoginCheck, Goto
<1>4. ASSUME NEW c \in Conn, LoginUpdate(c)
      PROVE  Registry'
  BY <1>4 DEF LoginUpdate, Goto
<1>5. ASSUME NEW c \in Conn, LoginSetUser(c)
      PROVE  Registry'
  BY <1>5 DEF LoginSetUser, Goto
<1>6. ASSUME NEW c \in Conn, LoginNotice(c)
      PROVE  Registry'
  BY <1>6 DEF LoginNotice, Goto
<1>7. ASSUME NEW c \in Conn, Logout(c)
      PROVE  Registry'
  BY <1>7 DEF Logout, Goto
<1>8. ASSUME NEW c \in Conn, NEW u \in User, GetSessionByUsername(c, u)
      PROVE  Registry'
  BY <1>8 DEF GetSessionByUsername, Goto
<1>9. ASSUME NEW c \in Conn, RemoveSession(c)
      PROVE  Registry'
  BY <1>9 DEF RemoveSession, Goto
<1>10. ASSUME NEW c \in Conn, RemoveUser(c)
      PROVE  Registry'
  BY <1>10 DEF RemoveUser, Goto
<1>11. ASSUME NEW c \in Conn, ConnectionReset(c)
      PROVE  Registry'
  BY <1>11 DEF ConnectionReset, Goto
<1>12. ASSUME NEW c \in Conn, LeaveNotice(c)
      PROVE  Registry'
  BY <1>12 DEF LeaveNotice, Goto
<1>13. ASSUME NEW c \in Conn, CloseFd(c)
      PROVE  Registry'
  BY <1>13 DEF CloseFd, Goto
<1>14. ASSUME NEW c \in Conn, Destroy(c)
      PROVE  Registry'
  BY <1>14 DEF Destroy, Goto
<1>15. ASSUME NEW c \in Conn, AcceptFails(c)
      PROVE  Registry'
  BY <1>15 DEF AcceptFails, Goto
<1>16. ASSUME NEW c \in Conn, AddNoSession(c)
      PROVE  Registry'
  BY <1>16 DEF AddNoSession, Goto
<1>17. CASE UNCHANGED vars
  BY <1>17
<1>. QED
  BY <1>1, <1>2, <1>3, <1>4, <1>5, <1>6, <1>7, <1>8, <1>9, <1>10, <1>11,
     <1>12, <1>13, <1>14, <1>15, <1>16, <1>17 DEF Next, Serve, Client

LEMMA LocalsPreserved ==
  ASSUME TypeOK, LoginLocals, [Next]_vars
  PROVE  LoginLocals'
<1> USE DEF TypeOK, LoginLocals
<1>1. ASSUME NEW c \in Conn, Accept(c)
      PROVE  LoginLocals'
  BY <1>1 DEF Accept, Goto
<1>2. ASSUME NEW c \in Conn, AddSession(c)
      PROVE  LoginLocals'
  BY <1>2 DEF AddSession, Goto
<1>3. ASSUME NEW c \in Conn, NEW u \in User, LoginCheck(c, u)
      PROVE  LoginLocals'
  BY <1>3 DEF LoginCheck, Goto
<1>4. ASSUME NEW c \in Conn, LoginUpdate(c)
      PROVE  LoginLocals'
  BY <1>4 DEF LoginUpdate, Goto
<1>5. ASSUME NEW c \in Conn, LoginSetUser(c)
      PROVE  LoginLocals'
  BY <1>5 DEF LoginSetUser, Goto
<1>6. ASSUME NEW c \in Conn, LoginNotice(c)
      PROVE  LoginLocals'
  BY <1>6 DEF LoginNotice, Goto
<1>7. ASSUME NEW c \in Conn, Logout(c)
      PROVE  LoginLocals'
  BY <1>7 DEF Logout, Goto
<1>8. ASSUME NEW c \in Conn, NEW u \in User, GetSessionByUsername(c, u)
      PROVE  LoginLocals'
  BY <1>8 DEF GetSessionByUsername, Goto
<1>9. ASSUME NEW c \in Conn, RemoveSession(c)
      PROVE  LoginLocals'
  BY <1>9 DEF RemoveSession, Goto
<1>10. ASSUME NEW c \in Conn, RemoveUser(c)
      PROVE  LoginLocals'
  BY <1>10 DEF RemoveUser, Goto
<1>11. ASSUME NEW c \in Conn, ConnectionReset(c)
      PROVE  LoginLocals'
  BY <1>11 DEF ConnectionReset, Goto
<1>12. ASSUME NEW c \in Conn, LeaveNotice(c)
      PROVE  LoginLocals'
  BY <1>12 DEF LeaveNotice, Goto
<1>13. ASSUME NEW c \in Conn, CloseFd(c)
      PROVE  LoginLocals'
  BY <1>13 DEF CloseFd, Goto
<1>14. ASSUME NEW c \in Conn, Destroy(c)
      PROVE  LoginLocals'
  BY <1>14 DEF Destroy, Goto
<1>15. ASSUME NEW c \in Conn, AcceptFails(c)
      PROVE  LoginLocals'
  BY <1>15 DEF AcceptFails, Goto
<1>16. ASSUME NEW c \in Conn, AddNoSession(c)
      PROVE  LoginLocals'
  BY <1>16 DEF AddNoSession, Goto
<1>17. CASE UNCHANGED vars
  BY <1>17
<1>. QED
  BY <1>1, <1>2, <1>3, <1>4, <1>5, <1>6, <1>7, <1>8, <1>9, <1>10, <1>11,
     <1>12, <1>13, <1>14, <1>15, <1>16, <1>17 DEF Next, Serve, Client

LEMMA OrderPreserved ==
  ASSUME TypeOK, Descriptors, LoginLocals, LoginOrder, [Next]_vars
  PROVE  LoginOrder'
<1> USE DEF TypeOK, Descriptors, LoginLocals, LoginOrder, Claims
<1>1. ASSUME NEW c \in Conn, Accept(c)
      PROVE  LoginOrder'
  BY <1>1 DEF Accept, Goto
<1>2. ASSUME NEW c \in Conn, AddSession(c)
      PROVE  LoginOrder'
  BY <1>2 DEF AddSession, Goto
<1>3. ASSUME NEW c \in Conn, NEW u \in User, LoginCheck(c, u)
      PROVE  LoginOrder'
  BY <1>3 DEF LoginCheck, Goto
<1>4. ASSUME NEW c \in Conn, LoginUpdate(c)
      PROVE  LoginOrder'
  BY <1>4 DEF LoginUpdate, Goto
<1>5. ASSUME NEW c \in Conn, LoginSetUser(c)
      PROVE  LoginOrder'
  BY <1>5 DEF LoginSetUser, Goto
<1>6. ASSUME NEW c \in Conn, LoginNotice(c)
      PROVE  LoginOrder'
  BY <1>6 DEF LoginNotice, Goto
<1>7. ASSUME NEW c \in Conn, Logout(c)
      PROVE  LoginOrder'
  BY <1>7 DEF Logout, Goto
<1>8. ASSUME NEW c \in Conn, NEW u \in User, GetSessionByUsername(c, u)
      PROVE  LoginOrder'
  BY <1>8 DEF GetSessionByUsername, Goto
<1>9. ASSUME NEW c \in Conn, RemoveSession(c)
      PROVE  LoginOrder'
  BY <1>9 DEF RemoveSession, Goto
<1>10. ASSUME NEW c \in Conn, RemoveUser(c)
      PROVE  LoginOrder'
  BY <1>10 DEF RemoveUser, Goto
<1>11. ASSUME NEW c \in Conn, ConnectionReset(c)
      PROVE  LoginOrder'
  BY <1>11 DEF ConnectionReset, Goto
<1>12. ASSUME NEW c \in Conn, LeaveNotice(c)
      PROVE  LoginOrder'
  BY <1>12 DEF LeaveNotice, Goto
<1>13. ASSUME NEW c \in Conn, CloseFd(c)
      PROVE  LoginOrder'
  BY <1>13 DEF CloseFd, Goto
<1>14. ASSUME NEW c \in Conn, Destroy(c)
      PROVE  LoginOrder'
  BY <1>14 DEF Destroy, Goto
<1>15. ASSUME NEW c \in Conn, AcceptFails(c)
      PROVE  LoginOrder'
  BY <1>15 DEF AcceptFails, Goto
<1>16. ASSUME NEW c \in Conn, AddNoSession(c)
      PROVE  LoginOrder'
  BY <1>16 DEF AddNoSession, Goto
<1>17. CASE UNCHANGED vars
  BY <1>17
<1>. QED
  BY <1>1, <1>2, <1>3, <1>4, <1>5, <1>6, <1>7, <1>8, <1>9, <1>10, <1>11,
     <1>12, <1>13, <1>14, <1>15, <1>16, <1>17 DEF Next, Serve, Client

LEMMA OnlinePreserved ==
  ASSUME TypeOK, Descriptors, LoginLocals, OnlineIsServed, [Next]_vars
  PROVE  OnlineIsServed'
<1> USE DEF TypeOK, Descriptors, LoginLocals, OnlineIsServed, Orderly
<1>1. ASSUME NEW c \in Conn, Accept(c)
      PROVE  OnlineIsServed'
  BY <1>1 DEF Accept, Goto
<1>2. ASSUME NEW c \in Conn, AddSession(c)
      PROVE  OnlineIsServed'
  BY <1>2 DEF AddSession, Goto
<1>3. ASSUME NEW c \in Conn, NEW u \in User, LoginCheck(c, u)
      PROVE  OnlineIsServed'
  BY <1>3 DEF LoginCheck, Goto
<1>4. ASSUME NEW c \in Conn, LoginUpdate(c)
      PROVE  OnlineIsServed'
  BY <1>4 DEF LoginUpdate, Goto
<1>5. ASSUME NEW c \in Conn, LoginSetUser(c)
      PROVE  OnlineIsServed'
  BY <1>5 DEF LoginSetUser, Goto
<1>6. ASSUME NEW c \in Conn, LoginNotice(c)
      PROVE  OnlineIsServed'
  BY <1>6 DEF LoginNotice, Goto
<1>7. ASSUME NEW c \in Conn, Logout(c)
      PROVE  OnlineIsServed'
  BY <1>7 DEF Logout, Goto
<1>8. ASSUME NEW c \in Conn, NEW u \in User, GetSessionByUsername(c, u)
      PROVE  OnlineIsServed'
  BY <1>8 DEF GetSessionByUsername, Goto
<1>9. ASSUME NEW c \in Conn, RemoveSession(c)
      PROVE  OnlineIsServed'
  BY <1>9 DEF RemoveSession, Goto
<1>10. ASSUME NEW c \in Conn, RemoveUser(c)
      PROVE  OnlineIsServed'
  BY <1>10 DEF RemoveUser, Goto
<1>11. ASSUME NEW c \in Conn, ConnectionReset(c)
      PROVE  OnlineIsServed'
  BY <1>11 DEF ConnectionReset, Goto
<1>12. ASSUME NEW c \in Conn, LeaveNotice(c)
      PROVE  OnlineIsServed'
  BY <1>12 DEF LeaveNotice, Goto
<1>13. ASSUME NEW c \in Conn, CloseFd(c)
      PROVE  OnlineIsServed'
  BY <1>13 DEF CloseFd, Goto
<1>14. ASSUME NEW c \in Conn, Destroy(c)
      PROVE  OnlineIsServed'
  BY <1>14 DEF Destroy, Goto
<1>15. ASSUME NEW c \in Conn, AcceptFails(c)
      PROVE  OnlineIsServed'
  BY <1>15 DEF AcceptFails, Goto
<1>16. ASSUME NEW c \in Conn, AddNoSession(c)
      PROVE  OnlineIsServed'
  BY <1>16 DEF AddNoSession, Goto
<1>17. CASE UNCHANGED vars
  BY <1>17
<1>. QED
  BY <1>1, <1>2, <1>3, <1>4, <1>5, <1>6, <1>7, <1>8, <1>9, <1>10, <1>11,
     <1>12, <1>13, <1>14, <1>15, <1>16, <1>17 DEF Next, Serve, Client

LEMMA NullsPreserved ==
  ASSUME TypeOK, Nulls, [Next]_vars
  PROVE  Nulls'
<1> USE DEF TypeOK, Nulls
<1>1. ASSUME NEW c \in Conn, Accept(c)
      PROVE  Nulls'
  BY <1>1 DEF Accept, Goto
<1>2. ASSUME NEW c \in Conn, AddSession(c)
      PROVE  Nulls'
  BY <1>2 DEF AddSession, Goto
<1>3. ASSUME NEW c \in Conn, NEW u \in User, LoginCheck(c, u)
      PROVE  Nulls'
  BY <1>3 DEF LoginCheck, Goto
<1>4. ASSUME NEW c \in Conn, LoginUpdate(c)
      PROVE  Nulls'
  BY <1>4 DEF LoginUpdate, Goto
<1>5. ASSUME NEW c \in Conn, LoginSetUser(c)
      PROVE  Nulls'
  BY <1>5 DEF LoginSetUser, Goto
<1>6. ASSUME NEW c \in Conn, LoginNotice(c)
      PROVE  Nulls'
  BY <1>6 DEF LoginNotice, Goto
<1>7. ASSUME NEW c \in Conn, Logout(c)
      PROVE  Nulls'
  BY <1>7 DEF Logout, Goto
<1>8. ASSUME NEW c \in Conn, NEW u \in User, GetSessionByUsername(c, u)
      PROVE  Nulls'
  BY <1>8 DEF GetSessionByUsername, Goto
<1>9. ASSUME NEW c \in Conn, RemoveSession(c)
      PROVE  Nulls'
  BY <1>9 DEF RemoveSession, Goto
<1>10. ASSUME NEW c \in Conn, RemoveUser(c)
      PROVE  Nulls'
  BY <1>10 DEF RemoveUser, Goto
<1>11. ASSUME NEW c \in Conn, ConnectionReset(c)
      PROVE  Nulls'
  BY <1>11 DEF ConnectionReset, Goto
<1>12. ASSUME NEW c \in Conn, LeaveNotice(c)
      PROVE  Nulls'
  BY <1>12 DEF LeaveNotice, Goto
<1>13. ASSUME NEW c \in Conn, CloseFd(c)
      PROVE  Nulls'
  BY <1>13 DEF CloseFd, Goto
<1>14. ASSUME NEW c \in Conn, Destroy(c)
      PROVE  Nulls'
  BY <1>14 DEF Destroy, Goto
<1>15. ASSUME NEW c \in Conn, AcceptFails(c)
      PROVE  Nulls'
  BY <1>15 DEF AcceptFails, Goto
<1>16. ASSUME NEW c \in Conn, AddNoSession(c)
      PROVE  Nulls'
  BY <1>16 DEF AddNoSession, Goto
<1>17. CASE UNCHANGED vars
  BY <1>17
<1>. QED
  BY <1>1, <1>2, <1>3, <1>4, <1>5, <1>6, <1>7, <1>8, <1>9, <1>10, <1>11,
     <1>12, <1>13, <1>14, <1>15, <1>16, <1>17 DEF Next, Serve, Client

-----------------------------------------------------------------------------
(* The invariant.                                                          *)

\* The invariant holds at first, ...
LEMMA InitEstablishes == Init => IInv
<1> SUFFICES ASSUME Init PROVE IInv
  OBVIOUS
<1>1. TypeOK
  BY DEF Init, TypeOK
<1>2. Descriptors /\ ServedIsRegistered /\ LoginLocals
  BY DEF Init, Descriptors, ServedIsRegistered, LoginLocals
<1>3. Registry /\ Nulls
  BY DEF Init, Registry, Nulls
<1>4. LoginOrder /\ OnlineIsServed
  BY DEF Init, LoginOrder, Claims, OnlineIsServed
<1>. QED
  BY <1>1, <1>2, <1>3, <1>4 DEF IInv

\* ... is kept by every step, ...
LEMMA StepPreserves == IInv /\ [Next]_vars => IInv'
BY TypePreserved, DescriptorsPreserved, ServedPreserved, RegistryPreserved,
   LocalsPreserved, OrderPreserved, OnlinePreserved, NullsPreserved
DEF IInv

\* ... and so holds always.
LEMMA Invariance == Spec => []IInv
BY InitEstablishes, StepPreserves, PTL DEF Spec

-----------------------------------------------------------------------------
(* The theorems.                                                           *)

(* Every variable keeps its type; in particular the maps hold descriptors  *)
(* and sessions (websocketSessionManage.h:24-25).                          *)
THEOREM TypeCorrect == Spec => []TypeOK
<1>1. IInv => TypeOK
  BY DEF IInv
<1>. QED
  BY <1>1, Invariance, PTL

(* The connection that is served under a descriptor is the registered one, *)
(* however often the kernel has given the number out again                 *)
(* (requestReceiver.h:223-227, 237, 268).                                  *)
THEOREM Registered == Spec => []ServedIsRegistered
<1>1. IInv => ServedIsRegistered
  BY DEF IInv
<1>. QED
  BY <1>1, Invariance, PTL

(* Only a reset leaves a pointer to a destroyed session                    *)
(* (requestReceiver.h:249-253).                                            *)
THEOREM Dangles == Spec => []DanglingNeedsReset
<1>1. IInv => DanglingNeedsReset
  BY DEF IInv, Registry, DanglingNeedsReset
<1>. QED
  BY <1>1, Invariance, PTL

\* Two logins of a user at once need one of the recorded causes.
LEMMA ExclusiveLogins == IInv => LoginExclusive
<1> SUFFICES ASSUME IInv, NEW u \in User \ raced, NEW c \in Conn, NEW d \in Conn,
                    LoggedIn(c, u), LoggedIn(d, u)
             PROVE  c = d
  BY DEF LoginExclusive
<1>1. Claims(c, u) /\ Claims(d, u)
  BY DEF LoggedIn, Claims, IInv, LoginLocals
<1>2. fdOf[c] = fdOf[d]
  BY <1>1 DEF IInv, LoginOrder
<1> QED BY <1>2 DEF LoggedIn, IInv, Descriptors

(* Without two logins of a user in flight at once, this user has at most   *)
(* one session (requestHanlder.h:42-50).                                   *)
THEOREM Exclusive == Spec => []LoginExclusive
BY ExclusiveLogins, Invariance, PTL

(* After an orderly history, a name is online only while its session is    *)
(* there (websocketSessionManage.h:81-98).                                 *)
THEOREM Online == Spec => []OnlineIsServed
<1>1. IInv => OnlineIsServed
  BY DEF IInv
<1>. QED
  BY <1>1, Invariance, PTL

-----------------------------------------------------------------------------
(* Responses.  The inductive invariant: that of the sessions, and what is  *)
(* known of the thread that is followed.                                   *)

Reader == [by : Conn \cup {None}, fd : AnyFd, step : Step, counted : BOOLEAN,
           to : Conn \cup {None}, gone : BOOLEAN, stale : BOOLEAN,
           reused : BOOLEAN, late : BOOLEAN]

Known ==
  /\ crashed \in BOOLEAN /\ disturbed \in BOOLEAN
  /\ out # Idle =>
       /\ out \in Reader
       /\ out.step \in {"user", "called", "checked", "packed"} => out.to # None

\* As long as the descriptor has not been given away, nobody else has it.
StillTheirs ==
  out # Idle /\ out.to # None /\ wasReset = {} /\ ~out.reused =>
    \A c \in Conn : Reaches(c) => c = out.to

\* As long as it has not been given away since the frame was packed, whoever
\* has it was in the registry, with the handshake done.
ShakenHands ==
  out # Idle /\ wasReset = {} /\ out.step = "packed" /\ ~out.late =>
    \A c \in Conn : phase[c] = "queued" => fdOf[c] # out.fd

\* None of the causes of a crash is there.
Calm == missed = {} /\ wasReset = {} /\ ~disturbed

\* Then what the thread has read is still there.
Undisturbed ==
  out # Idle /\ Calm =>
    /\ ~out.gone /\ ~out.stale
    /\ out.by # None \/ out.counted => connfdSessionMap[out.fd] # Absent
    /\ out.step = "user" => connfdSessionMap[out.fd] = out.to /\ user[out.to] # None

RInv ==
  /\ IInv
  /\ Known
  /\ StillTheirs
  /\ ShakenHands
  /\ Undisturbed
  /\ CrashHasCause

-----------------------------------------------------------------------------
(* The sessions, as the thread sees them.                                  *)

(* An entry of the registry, when no connection was reset: its session is  *)
(* served, and the only one with the descriptor.                           *)
LEMMA EntryOwnsDescriptor ==
  ASSUME IInv, wasReset = {}, NEW f \in AnyFd, NEW c \in Conn, connfdSessionMap[f] = c
  PROVE  /\ phase[c] \in Served /\ fdOf[c] = f /\ ~Dead(c)
         /\ \A d \in Conn : phase[d] \in Open /\ fdOf[d] = f => d = c
<1>1. phase[c] \in Served /\ fdOf[c] = f
  BY DEF IInv, Registry
<1>2. f # Minus
  BY <1>1 DEF IInv, Descriptors
<1> QED BY <1>1, <1>2 DEF IInv, Descriptors, Open, Dead

\* A reset and a failed look up stay recorded.
LEMMA CausesStay == Next => wasReset \subseteq wasReset' /\ missed \subseteq missed'
BY DEF Next, Serve, Client, Accept, AcceptFails, AddSession, AddNoSession,
       LoginUpdate, LoginSetUser, LoginNotice, RemoveUser, LeaveNotice,
       CloseFd, Destroy, Logout, RemoveSession, ConnectionReset, LoginCheck,
       GetSessionByUsername, history

(* Only the accept loop opens a connection, and the descriptor of one that *)
(* is open does not change.                                                *)
LEMMA OpenedByAccept ==
  ASSUME TypeOK, Next, NEW c \in Conn, phase'[c] \in Open
  PROVE  /\ phase[c] # "new" => phase[c] \in Open /\ fdOf'[c] = fdOf[c]
         /\ phase[c] = "new" => phase'[c] \in {"new", "queued"}
         /\ phase[c] # "new" /\ phase'[c] = "queued" => phase[c] = "queued"
<1>1. PICK d \in Conn : Serve(d) \/ Client(d)
  BY DEF Next
<1>2. CASE Accept(d) \/ AcceptFails(d)
  BY <1>2 DEF Accept, AcceptFails, Goto, TypeOK, history, Open, Served, Phase
<1>3. CASE ~(Accept(d) \/ AcceptFails(d))
  <2>1. fdOf' = fdOf
    BY <1>1, <1>3
    DEF Serve, Client, AddSession, AddNoSession, LoginUpdate, LoginSetUser,
        LoginNotice, RemoveUser, LeaveNotice, CloseFd, Destroy, Logout,
        RemoveSession, ConnectionReset, LoginCheck, GetSessionByUsername, history
  <2>2. \/ phase' = phase
        \/ \E from \in Open \cup {"closed"}, to \in Phase \ {"new", "queued"} :
             Goto(d, from, to) /\ (from = "closed" => to = "dead")
    BY <1>1, <1>3
    DEF Serve, Client, AddSession, AddNoSession, LoginUpdate, LoginSetUser,
        LoginNotice, RemoveUser, LeaveNotice, CloseFd, Destroy, Logout,
        RemoveSession, ConnectionReset, LoginCheck, GetSessionByUsername,
        Open, Served, Phase, Goto
  <2> QED BY <2>1, <2>2 DEF Goto, TypeOK, Open, Served, Phase
<1> QED BY <1>2, <1>3

\* An entry changes when a session is added under its key or removed, or by a
\* look up; it is erased only when its session leaves.
LEMMA EntryChanges ==
  ASSUME TypeOK, Next, NEW f \in AnyFd, connfdSessionMap'[f] # connfdSessionMap[f]
  PROVE  \/ \E c \in Conn : Leaves(c) /\ fdOf[c] = f
         \/ /\ connfdSessionMap'[f] # Absent
            /\ \/ \E c \in Conn : phase[c] = "queued" /\ fdOf[c] = f
               \/ connfdSessionMap[f] = Absent
<1>1. PICK c \in Conn : Serve(c) \/ Client(c)
  BY DEF Next
<1>2. CASE AddSession(c) \/ AddNoSession(c)
  BY <1>2 DEF AddSession, AddNoSession, Goto, TypeOK
<1>3. CASE RemoveSession(c)
  BY <1>3 DEF RemoveSession, Goto, TypeOK, Leaves
<1>4. ASSUME NEW u \in User, GetSessionByUsername(c, u)
      PROVE  connfdSessionMap'[f] # Absent /\ connfdSessionMap[f] = Absent
  BY <1>4 DEF GetSessionByUsername, TypeOK
<1>5. ASSUME connfdSessionMap' = connfdSessionMap
      PROVE  FALSE
  BY <1>5
<1> QED
  BY <1>1, <1>2, <1>3, <1>4, <1>5
  DEF Serve, Client, Accept, AcceptFails, LoginUpdate, LoginSetUser, LoginNotice,
      RemoveUser, LeaveNotice, CloseFd, Destroy, Logout, ConnectionReset,
      LoginCheck, history

\* The user of a session that is served changes only at a logout, once it is set.
LEMMA UserStays ==
  ASSUME TypeOK, LoginLocals, Next,
         NEW c \in Conn, phase[c] \in Served, user[c] # None, user'[c] # user[c]
  PROVE  LogsOut(c)
<1>1. PICK d \in Conn : Serve(d) \/ Client(d)
  BY DEF Next
<1>2. CASE LoginSetUser(d)
  BY <1>2 DEF LoginSetUser, Goto, TypeOK, LoginLocals
<1>3. CASE Destroy(d)
  BY <1>3 DEF Destroy, Goto, TypeOK
<1>4. CASE Logout(d)
  BY <1>4 DEF Logout, TypeOK, LogsOut
<1>5. ASSUME user' = user
      PROVE  FALSE
  BY <1>5
<1> QED
  BY <1>1, <1>2, <1>3, <1>4, <1>5
  DEF Serve, Client, Accept, AcceptFails, AddSession, AddNoSession, LoginUpdate,
      LoginNotice, RemoveUser, LeaveNotice, CloseFd, RemoveSession,
      ConnectionReset, LoginCheck, GetSessionByUsername, history

-----------------------------------------------------------------------------
(* RInv is inductive: the steps of Sessions.                               *)

\* What a step of Sessions does to the thread that is followed.
LEMMA SessionStepFacts ==
  ASSUME RInv, SessionStep, out' # Idle
  PROVE  /\ out # Idle /\ out \in Reader /\ out' \in Reader
         /\ out'.by = out.by /\ out'.to = out.to /\ out'.fd = out.fd
         /\ out'.step = out.step /\ out'.counted = out.counted
         /\ \/ \A c \in Conn : ~Given(c)
            \/ out'.reused /\ (out.step = "packed" => out'.late)
         /\ (out.reused => out'.reused) /\ (out.late => out'.late)
         /\ out'.gone => \/ out.gone
                         \/ connfdSessionMap[out.fd] # Absent /\ connfdSessionMap'[out.fd] = Absent
         /\ out'.stale => \/ out.stale
                          \/ out.step = "user" /\ user'[out.to] # user[out.to]
         /\ ~disturbed' => /\ ~disturbed
                           /\ \A c \in Conn : Leaves(c) => fdOf[c] # out.fd
                           /\ \A c \in Conn : LogsOut(c) => c # out.to
<1>1. out # Idle /\ out \in Reader
  BY DEF RInv, Known, SessionStep
<1> DEFINE given  == \E c \in Conn : Given(c)
           erased == connfdSessionMap[out.fd] # Absent /\ connfdSessionMap'[out.fd] = Absent
           freed  == out.step = "user" /\ user'[out.to] # user[out.to]
<1>2. /\ out' = [out EXCEPT !.reused = @ \/ given,
                            !.late = @ \/ (out.step = "packed" /\ given),
                            !.gone = @ \/ (out.by # None /\ erased),
                            !.stale = @ \/ freed]
      /\ disturbed' = (disturbed \/ \E c \in Conn :
                         (Leaves(c) /\ fdOf[c] = out.fd) \/ (LogsOut(c) /\ c = out.to))
  BY <1>1 DEF SessionStep
<1>3. given \in BOOLEAN /\ erased \in BOOLEAN /\ freed \in BOOLEAN
  OBVIOUS
<1>4. (\A c \in Conn : ~Given(c)) \/ given
  OBVIOUS
<1>5. erased => connfdSessionMap[out.fd] # Absent /\ connfdSessionMap'[out.fd] = Absent
  OBVIOUS
<1>6. freed => out.step = "user" /\ user'[out.to] # user[out.to]
  OBVIOUS
<1>7. disturbed \in BOOLEAN
  BY DEF RInv, Known
<1> HIDE DEF given, erased, freed
<1> DEFINE reused == out.reused \/ given
           late   == out.late \/ (out.step = "packed" /\ given)
           gone   == out.gone \/ (out.by # None /\ erased)
           stale  == out.stale \/ freed
<1>8. reused \in BOOLEAN /\ late \in BOOLEAN /\ gone \in BOOLEAN /\ stale \in BOOLEAN
  OBVIOUS
<1>9. out' = [out EXCEPT !.reused = reused, !.late = late, !.gone = gone, !.stale = stale]
  BY <1>2
<1> HIDE DEF reused, late, gone, stale
<1>10. /\ out'.by = out.by /\ out'.to = out.to /\ out'.fd = out.fd
       /\ out'.step = out.step /\ out'.counted = out.counted /\ out' \in Reader
       /\ out'.reused = reused /\ out'.late = late /\ out'.gone = gone /\ out'.stale = stale
  BY <1>1, <1>8, <1>9 DEF Reader
<1>11. /\ out'.by = out.by /\ out'.to = out.to /\ out'.fd = out.fd
       /\ out'.step = out.step /\ out'.counted = out.counted /\ out' \in Reader
       /\ out'.reused = (out.reused \/ given)
       /\ out'.late = (out.late \/ (out.step = "packed" /\ given))
       /\ out'.gone = (out.gone \/ (out.by # None /\ erased))
       /\ out'.stale = (out.stale \/ freed)
  BY <1>10 DEF reused, late, gone, stale
<1>12. ~disturbed' => /\ ~disturbed
                      /\ \A c \in Conn : Leaves(c) => fdOf[c] # out.fd
                      /\ \A c \in Conn : LogsOut(c) => c # out.to
  BY <1>2, <1>7
<1> QED BY <1>1, <1>4, <1>5, <1>6, <1>11, <1>12

LEMMA SessionStepUndisturbed ==
  ASSUME RInv, SessionStep
  PROVE  Undisturbed'
<1> SUFFICES ASSUME out' # Idle, Calm'
             PROVE  /\ ~out'.gone /\ ~out'.stale
                    /\ out'.by # None \/ out'.counted => connfdSessionMap'[out'.fd] # Absent
                    /\ out'.step = "user" =>
                         connfdSessionMap'[out'.fd] = out'.to /\ user'[out'.to] # None
  BY DEF Undisturbed
<1>1. /\ out # Idle /\ out \in Reader
      /\ out'.by = out.by /\ out'.to = out.to /\ out'.fd = out.fd
      /\ out'.step = out.step /\ out'.counted = out.counted
      /\ out'.gone => \/ out.gone
                      \/ connfdSessionMap[out.fd] # Absent /\ connfdSessionMap'[out.fd] = Absent
      /\ out'.stale => \/ out.stale
                       \/ out.step = "user" /\ user'[out.to] # user[out.to]
  BY SessionStepFacts
<1>2. /\ Calm /\ out.fd \in AnyFd
      /\ \A c \in Conn : Leaves(c) => fdOf[c] # out.fd
      /\ \A c \in Conn : LogsOut(c) => c # out.to
  BY <1>1, CausesStay, SessionStepFacts DEF SessionStep, Calm, Reader
<1>3. /\ ~out.gone /\ ~out.stale
      /\ out.by # None \/ out.counted => connfdSessionMap[out.fd] # Absent
      /\ out.step = "user" => connfdSessionMap[out.fd] = out.to /\ user[out.to] # None
  BY <1>1, <1>2 DEF RInv, Undisturbed
<1>4. IInv /\ TypeOK /\ LoginLocals /\ Next
  BY DEF RInv, IInv, SessionStep
<1>5. connfdSessionMap[out.fd] # Absent => connfdSessionMap'[out.fd] # Absent
  BY <1>2, <1>4, EntryChanges
<1>6. ASSUME out.step = "user"
      PROVE  connfdSessionMap'[out.fd] = out.to /\ user'[out.to] = user[out.to]
  <2>1. out.to \in Conn
    BY <1>1, <1>6 DEF RInv, Known, Reader
  <2>2. /\ connfdSessionMap[out.fd] = out.to /\ wasReset = {} /\ user[out.to] # None
        /\ out.to # Absent
    BY <1>2, <1>3, <1>6, <2>1 DEF Calm
  <2>3. /\ phase[out.to] \in Served
        /\ \A d \in Conn : phase[d] \in Open /\ fdOf[d] = out.fd => d = out.to
    BY <1>2, <1>4, <2>1, <2>2, EntryOwnsDescriptor
  <2>4. \A d \in Conn : phase[d] = "queued" => fdOf[d] # out.fd
    BY <2>3 DEF Open, Served
  <2>5. connfdSessionMap'[out.fd] = connfdSessionMap[out.fd]
    BY <1>2, <1>4, <2>2, <2>4, EntryChanges
  <2>6. user'[out.to] = user[out.to]
    BY <1>2, <1>4, <2>1, <2>2, <2>3, UserStays
  <2> QED BY <2>2, <2>5, <2>6
<1> QED BY <1>1, <1>3, <1>5, <1>6

\* The steps of Sessions keep what the thread relies on.
LEMMA SessionStepKeeps ==
  ASSUME RInv, SessionStep
  PROVE  RInv'
<1>1. IInv' /\ TypeOK /\ Next
  BY StepPreserves DEF RInv, IInv, SessionStep
<1>2. Known'
  <2>1. out' # Idle => out' \in Reader /\ out'.step = out.step /\ out'.to = out.to /\ out # Idle
    BY SessionStepFacts
  <2>2. crashed' \in BOOLEAN /\ disturbed' \in BOOLEAN
    BY DEF RInv, Known, SessionStep
  <2> QED BY <2>1, <2>2 DEF RInv, Known
<1>3. StillTheirs'
  <2> SUFFICES ASSUME out' # Idle, out'.to # None, wasReset' = {}, ~out'.reused,
                      NEW c \in Conn, phase'[c] \in Open, fdOf'[c] = out'.fd
               PROVE  c = out'.to
    BY DEF StillTheirs, Reaches
  <2>1. /\ out # Idle /\ out'.to = out.to /\ out'.fd = out.fd /\ ~out.reused /\ ~Given(c)
    BY SessionStepFacts
  <2>2. wasReset = {}
    BY <1>1, CausesStay
  <2>3. phase[c] \in Open /\ fdOf[c] = out.fd
    BY <1>1, <2>1, OpenedByAccept DEF Given, Open, Served
  <2> QED BY <2>1, <2>2, <2>3 DEF RInv, StillTheirs, Reaches
<1>4. ShakenHands'
  <2> SUFFICES ASSUME out' # Idle, wasReset' = {}, out'.step = "packed", ~out'.late,
                      NEW c \in Conn, phase'[c] = "queued"
               PROVE  fdOf'[c] # out'.fd
    BY DEF ShakenHands
  <2>1. /\ out # Idle /\ out'.step = out.step /\ out'.fd = out.fd /\ ~out.late /\ ~Given(c)
    BY SessionStepFacts
  <2>2. wasReset = {} /\ phase'[c] \in Open
    BY <1>1, CausesStay DEF Open
  <2>3. CASE phase[c] = "new"
    BY <2>1, <2>3 DEF Given
  <2>4. CASE phase[c] # "new"
    <3>1. phase[c] = "queued" /\ fdOf'[c] = fdOf[c]
      BY <1>1, <2>2, <2>4, OpenedByAccept
    <3> QED BY <2>1, <2>2, <3>1 DEF RInv, ShakenHands
  <2> QED BY <2>3, <2>4
<1>5. CrashHasCause'
  <2>1. crashed' = crashed /\ (disturbed => disturbed')
    BY DEF RInv, Known, SessionStep
  <2> QED BY <1>1, <2>1, CausesStay DEF RInv, CrashHasCause
<1> QED BY <1>1, <1>2, <1>3, <1>4, <1>5, SessionStepUndisturbed DEF RInv

-----------------------------------------------------------------------------
(* RInv is inductive: the steps of the thread that is followed.  It        *)
(* changes nothing of the registry, and what it has read and the next step *)
(* of it need a look at the sessions as they are.                          *)

\* What has to be shown of a step of the thread.
ReaderInv == Known /\ StillTheirs /\ ShakenHands /\ Undisturbed /\ CrashHasCause

\* The process ends here only with a cause.
LEMMA CrashKeeps ==
  ASSUME RInv, Crash, ~Calm, UNCHANGED <<vars, disturbed>>
  PROVE  ReaderInv'
<1>1. out' = out /\ crashed' = TRUE /\ disturbed' = disturbed
      /\ UNCHANGED <<phase, fdOf, user, connfdSessionMap, wasReset, missed>>
  BY DEF Crash, vars, history
<1>2. Known' /\ CrashHasCause'
  BY <1>1 DEF RInv, Known, CrashHasCause, Calm
<1>3. StillTheirs' /\ ShakenHands' /\ Undisturbed'
  BY <1>1 DEF RInv, StillTheirs, ShakenHands, Undisturbed, Reaches, Calm
<1> QED BY <1>2, <1>3 DEF ReaderInv

LEMMA DoneKeeps ==
  ASSUME RInv, out # Idle, Done, UNCHANGED <<vars, disturbed>>
  PROVE  ReaderInv'
<1>1. crashed' = crashed /\ disturbed' = disturbed
      /\ UNCHANGED <<phase, fdOf, user, connfdSessionMap, wasReset, missed>>
  BY DEF Done, vars, history
<1>2. CASE out' = Idle
  BY <1>1, <1>2
  DEF RInv, ReaderInv, Known, StillTheirs, ShakenHands, Undisturbed, CrashHasCause
<1>3. CASE out' # Idle
  <2>1. /\ out' \in Reader /\ out'.step = "next" /\ out'.to = None /\ ~out'.stale
        /\ out'.fd = out.fd /\ out'.gone = out.gone /\ out'.by = out.by /\ out.by # None
    BY <1>3 DEF Done, RInv, Known, Reader, Step
  <2> QED
    BY <1>1, <2>1
    DEF RInv, ReaderInv, Known, StillTheirs, ShakenHands, Undisturbed, Calm, CrashHasCause
<1> QED BY <1>2, <1>3

\* A thread begins, or an iterator arrives, without a claim on any session.
LEMMA FreshKeeps ==
  ASSUME RInv, UNCHANGED <<vars, crashed, disturbed>>,
         NEW f \in AnyFd, connfdSessionMap[f] # Absent,
         NEW b \in Conn \cup {None}, NEW d \in Conn \cup {None}, NEW p \in {"at", "called"},
         d # None => connfdSessionMap[f] = d, p = "called" => d # None,
         out' = [by |-> b, fd |-> f, step |-> p, counted |-> FALSE, to |-> d,
                 gone |-> FALSE, stale |-> FALSE, reused |-> FALSE, late |-> FALSE]
  PROVE  ReaderInv'
<1>1. UNCHANGED <<phase, fdOf, user, connfdSessionMap, wasReset, missed, crashed, disturbed>>
  BY DEF vars, history
<1>2. /\ out' \in Reader /\ out'.to = d /\ out'.fd = f /\ out'.step = p
      /\ ~out'.gone /\ ~out'.stale
  BY DEF Reader, Step, Asking
<1>3. d # None /\ wasReset = {} => \A c \in Conn : phase[c] \in Open /\ fdOf[c] = f => c = d
  BY EntryOwnsDescriptor DEF RInv
<1>4. Known' /\ CrashHasCause'
  BY <1>1, <1>2 DEF RInv, Known, CrashHasCause
<1>5. StillTheirs' /\ ShakenHands' /\ Undisturbed'
  BY <1>1, <1>2, <1>3 DEF StillTheirs, ShakenHands, Undisturbed, Reaches
<1> QED BY <1>4, <1>5 DEF ReaderInv

LEMMA ArriveKeeps ==
  ASSUME RInv, NEW b \in Conn \cup {None}, Arrive(b), UNCHANGED <<vars, crashed, disturbed>>
  PROVE  ReaderInv'
<1>1. PICK f \in AnyFd :
        /\ connfdSessionMap[f] # Absent
        /\ out' = [by |-> b, fd |-> f, step |-> "at", counted |-> FALSE,
                   to |-> IF connfdSessionMap[f] = Null THEN None ELSE connfdSessionMap[f],
                   gone |-> FALSE, stale |-> FALSE, reused |-> FALSE, late |-> FALSE]
  BY DEF Arrive
<1>2. connfdSessionMap[f] = Null \/ connfdSessionMap[f] \in Conn
  BY <1>1 DEF RInv, IInv, TypeOK
<1> QED BY <1>1, <1>2, FreshKeeps

LEMMA AdvanceKeeps ==
  ASSUME RInv, Advance
  PROVE  ReaderInv'
<1>1. out # Idle /\ out \in Reader /\ UNCHANGED <<vars, disturbed>>
  BY DEF Advance, RInv, Known
<1>2. CASE Arrive(out.by) /\ UNCHANGED crashed
  BY <1>1, <1>2, ArriveKeeps DEF Reader
<1>3. CASE out' = Idle /\ UNCHANGED crashed
  BY <1>1, <1>3
  DEF RInv, ReaderInv, Known, StillTheirs, ShakenHands, Undisturbed, CrashHasCause,
      vars, history
<1>4. CASE out.gone /\ Crash
  <2>1. ~Calm
    BY <1>1, <1>4 DEF RInv, Undisturbed
  <2> QED BY <1>1, <1>4, <2>1, CrashKeeps
<1> QED BY <1>2, <1>3, <1>4 DEF Advance

LEMMA GetUserKeeps ==
  ASSUME RInv, GetUser
  PROVE  ReaderInv'
<1> DEFINE entry == connfdSessionMap[out.fd]
<1>1. /\ out # Idle /\ out \in Reader /\ out.fd \in AnyFd /\ UNCHANGED <<vars, disturbed>>
      /\ UNCHANGED <<phase, fdOf, user, connfdSessionMap, wasReset, missed>>
      /\ disturbed' = disturbed
  BY DEF GetUser, RInv, Known, Reader, vars, history
<1>2. ASSUME wasReset = {}, entry \in Conn
      PROVE  ~Dead(entry) /\ \A d \in Conn : phase[d] \in Open /\ fdOf[d] = out.fd => d = entry
  BY <1>1, <1>2, EntryOwnsDescriptor DEF RInv
<1>3. CASE /\ entry \in Conn
           /\ user[entry] # None \/ Dead(entry)
           /\ out' = [out EXCEPT !.step = "user", !.to = entry, !.reused = FALSE,
                                 !.stale = Dead(entry)]
           /\ UNCHANGED crashed
           /\ ~out.gone
  <2>1. Dead(entry) \in BOOLEAN
    BY DEF Dead
  <2>2. /\ out' \in Reader /\ out'.to = entry /\ out'.fd = out.fd /\ out'.step = "user"
        /\ out'.stale = Dead(entry) /\ out'.gone = out.gone /\ ~out'.reused
        /\ entry # None /\ entry # Absent
    BY <1>1, <1>3, <2>1 DEF Reader, Step
  <2>3. Known' /\ CrashHasCause'
    BY <1>1, <1>3, <2>2 DEF RInv, Known, CrashHasCause
  <2>4. StillTheirs' /\ ShakenHands'
    BY <1>1, <1>2, <1>3, <2>2 DEF StillTheirs, ShakenHands, Reaches
  <2>5. Calm => ~Dead(entry) /\ user[entry] # None
    BY <1>2, <1>3 DEF Calm
  <2>6. Undisturbed'
    BY <1>1, <1>3, <2>2, <2>5 DEF Undisturbed, Calm
  <2> QED BY <2>3, <2>4, <2>6 DEF ReaderInv
<1>4. CASE Done
  BY <1>1, <1>4, DoneKeeps
<1>5. CASE /\ out.gone /\ out.to # None
           /\ out' = [out EXCEPT !.step = "user", !.stale = TRUE]
           /\ UNCHANGED crashed
  <2>1. /\ out' \in Reader /\ out'.to = out.to /\ out'.fd = out.fd /\ out'.step = "user"
        /\ out'.reused = out.reused
    BY <1>1, <1>5 DEF Reader, Step
  <2>2. ~Calm
    BY <1>1, <1>5 DEF RInv, Undisturbed
  <2> QED
    BY <1>1, <1>5, <2>1, <2>2
    DEF RInv, ReaderInv, Known, StillTheirs, ShakenHands, Undisturbed, Reaches, Calm,
        CrashHasCause
<1>6. CASE (out.gone \/ entry = Null \/ Dead(entry)) /\ Crash
  <2>1. ~Calm
    <3>1. out.gone => ~Calm
      BY <1>1 DEF RInv, Undisturbed
    <3>2. entry = Null => missed # {}
      BY <1>1 DEF RInv, IInv, Nulls
    <3>3. Dead(entry) => wasReset # {}
      BY <1>2 DEF Dead
    <3> QED BY <1>6, <3>1, <3>2, <3>3 DEF Calm
  <2> QED BY <1>1, <1>6, <2>1, CrashKeeps
<1> QED BY <1>3, <1>4, <1>5, <1>6 DEF GetUser

LEMMA ReadNameKeeps ==
  ASSUME RInv, ReadName
  PROVE  ReaderInv'
<1>1. /\ out # Idle /\ out \in Reader /\ out.step = "user" /\ UNCHANGED <<vars, disturbed>>
      /\ UNCHANGED <<phase, fdOf, user, connfdSessionMap, wasReset, missed>>
      /\ disturbed' = disturbed
  BY DEF ReadName, RInv, Known, vars, history
<1>2. CASE out' = [out EXCEPT !.step = "called", !.stale = FALSE] /\ UNCHANGED crashed
  <2>1. /\ out' \in Reader /\ out'.to = out.to /\ out'.fd = out.fd /\ out'.step = "called"
        /\ out'.reused = out.reused /\ out'.gone = out.gone /\ ~out'.stale
        /\ out'.by = out.by /\ out'.counted = out.counted
    BY <1>1, <1>2 DEF Reader, Step, Asking
  <2> QED
    BY <1>1, <1>2, <2>1
    DEF RInv, ReaderInv, Known, StillTheirs, ShakenHands, Undisturbed, Reaches, Calm,
        CrashHasCause
<1>3. CASE Done
  BY <1>1, <1>3, DoneKeeps
<1>4. CASE out.stale /\ Crash
  <2>1. ~Calm
    BY <1>1, <1>4 DEF RInv, Undisturbed
  <2> QED BY <1>1, <1>4, <2>1, CrashKeeps
<1> QED BY <1>2, <1>3, <1>4 DEF ReadName

LEMMA CallKeeps ==
  ASSUME RInv, Call
  PROVE  ReaderInv'
<1>1. PICK f \in Fd, c \in Conn :
        /\ connfdSessionMap[f] = c
        /\ out' = [by |-> None, fd |-> f, step |-> "called", counted |-> FALSE, to |-> c,
                   gone |-> FALSE, stale |-> FALSE, reused |-> FALSE, late |-> FALSE]
  BY DEF Call
<1>2. f \in AnyFd /\ c # None /\ c # Absent /\ UNCHANGED <<vars, crashed, disturbed>>
  BY DEF Call
<1> QED BY <1>1, <1>2, FreshKeeps

LEMMA CountKeeps ==
  ASSUME RInv, Count
  PROVE  ReaderInv'
<1>1. /\ out # Idle /\ out \in Reader /\ UNCHANGED <<vars, disturbed>>
      /\ UNCHANGED <<phase, fdOf, user, connfdSessionMap, wasReset, missed>>
      /\ disturbed' = disturbed
  BY DEF Count, RInv, Known, vars, history
<1>2. CASE /\ connfdSessionMap[out.fd] # Absent
           /\ out' = [out EXCEPT !.counted = TRUE] /\ UNCHANGED crashed
  <2>1. /\ out' \in Reader /\ out'.to = out.to /\ out'.fd = out.fd /\ out'.step = out.step
        /\ out'.reused = out.reused /\ out'.late = out.late /\ out'.gone = out.gone
        /\ out'.stale = out.stale
    BY <1>1, <1>2 DEF Reader
  <2> QED
    BY <1>1, <1>2, <2>1
    DEF RInv, ReaderInv, Known, StillTheirs, ShakenHands, Undisturbed, Reaches, Calm,
        CrashHasCause
<1>3. CASE Done
  BY <1>1, <1>3, DoneKeeps
<1>4. CASE out.gone /\ Crash
  <2>1. ~Calm
    BY <1>1, <1>4 DEF RInv, Undisturbed
  <2> QED BY <1>1, <1>4, <2>1, CrashKeeps
<1> QED BY <1>2, <1>3, <1>4 DEF Count

(* The registry is asked: whoever has the descriptor then is served.       *)
LEMMA IsCloseKeeps ==
  ASSUME RInv, NEW from \in Asking, NEW to \in {"open", "checked", "packed"},
         to # "open" => from # "at",
         IsClose(from, to)
  PROVE  ReaderInv'
<1> DEFINE entry == connfdSessionMap[out.fd]
<1>1. /\ out # Idle /\ out \in Reader /\ out.fd \in AnyFd /\ out.step = from /\ out.counted
      /\ UNCHANGED <<vars, disturbed>>
      /\ UNCHANGED <<phase, fdOf, user, connfdSessionMap, wasReset, missed>>
      /\ disturbed' = disturbed
  BY DEF IsClose, RInv, Known, Reader, vars, history
<1>2. ASSUME wasReset = {}, entry \in Conn
      PROVE  /\ ~Dead(entry) /\ phase[entry] \in Served
             /\ \A d \in Conn : phase[d] \in Open /\ fdOf[d] = out.fd => d = entry
  BY <1>1, <1>2, EntryOwnsDescriptor DEF RInv
<1>3. CASE /\ entry \in Conn
           /\ out' = [out EXCEPT !.step = to, !.counted = FALSE, !.late = FALSE]
           /\ UNCHANGED crashed
  <2>1. /\ out' \in Reader /\ out'.to = out.to /\ out'.fd = out.fd /\ out'.step = to
        /\ out'.reused = out.reused /\ out'.gone = out.gone /\ out'.stale = out.stale
        /\ out'.by = out.by
    BY <1>1, <1>3 DEF Reader, Step, Asking
  <2>2. Known' /\ CrashHasCause'
    BY <1>1, <1>3, <2>1 DEF RInv, Known, CrashHasCause, Asking
  <2>3. StillTheirs'
    BY <1>1, <2>1 DEF RInv, StillTheirs, Reaches
  <2>4. wasReset = {} => \A c \in Conn : phase[c] = "queued" => fdOf[c] # out.fd
    BY <1>2, <1>3 DEF Open, Served
  <2>5. ShakenHands'
    BY <1>1, <2>1, <2>4 DEF ShakenHands
  <2>6. Undisturbed'
    BY <1>1, <1>3, <2>1 DEF RInv, Undisturbed, Calm
  <2> QED BY <2>2, <2>3, <2>5, <2>6 DEF ReaderInv
<1>4. CASE Done
  BY <1>1, <1>4, DoneKeeps
<1>5. CASE (entry \in {Null, Absent} \/ Dead(entry)) /\ Crash
  <2>1. ~Calm
    <3>1. entry = Absent => ~Calm
      BY <1>1 DEF RInv, Undisturbed
    <3>2. entry = Null => missed # {}
      BY <1>1 DEF RInv, IInv, Nulls
    <3>3. Dead(entry) => wasReset # {}
      BY <1>2 DEF Dead
    <3> QED BY <1>5, <3>1, <3>2, <3>3 DEF Calm
  <2> QED BY <1>1, <1>5, <2>1, CrashKeeps
<1> QED BY <1>3, <1>4, <1>5 DEF IsClose

LEMMA SendKeeps ==
  ASSUME RInv, Send
  PROVE  ReaderInv'
BY DoneKeeps DEF Send

\* Reading keeps the invariant, and the sessions as they are.
LEMMA ReadKeeps ==
  ASSUME RInv, Read
  PROVE  RInv'
<1>1. UNCHANGED vars
  BY DEF Read, BeginWalk, Advance, GetUser, ReadName, Call, Count, Visit, Check, Pack, Send, IsClose
<1>2. IInv'
  BY <1>1, StepPreserves DEF RInv
<1>3. ReaderInv'
  <2>1. CASE BeginWalk
    BY <2>1, ArriveKeeps DEF BeginWalk
  <2>2. CASE Visit
    BY <2>2, IsCloseKeeps DEF Visit, Asking
  <2>3. CASE Check
    BY <2>3, IsCloseKeeps DEF Check, Asking
  <2>4. CASE Pack
    BY <2>4, IsCloseKeeps DEF Pack, Asking
  <2> QED
    BY <2>1, <2>2, <2>3, <2>4, AdvanceKeeps, GetUserKeeps, ReadNameKeeps, CallKeeps,
       CountKeeps, SendKeeps DEF Read
<1> QED BY <1>2, <1>3 DEF RInv, ReaderInv

(* The invariant of Sessions holds beside a thread that walks or sends,     *)
(* and what this thread has read is true, or its number was given away, or  *)
(* the session it is at has left or logged out (websocketSendAction.h:52-79,*)
(* noticeOnlineUserAction.h:16-34).                                         *)
THEOREM ResponsesInvariance == ResponsesSpec => []RInv
<1>1. ResponsesInit => RInv
  BY InitEstablishes
  DEF ResponsesInit, RInv, Known, StillTheirs, ShakenHands, Undisturbed, CrashHasCause
<1>2. RInv /\ [ResponsesNext]_rvars => RInv'
  <2> SUFFICES ASSUME RInv, [ResponsesNext]_rvars PROVE RInv'
    OBVIOUS
  <2>1. CASE UNCHANGED rvars
    <3>1. IInv'
      BY <2>1, StepPreserves DEF RInv, rvars
    <3> QED
      BY <2>1, <3>1
      DEF RInv, Known, StillTheirs, ShakenHands, Undisturbed, Calm, CrashHasCause, Reaches,
          rvars, vars, history
  <2> QED BY <2>1, SessionStepKeeps, ReadKeeps DEF ResponsesNext
<1> QED BY <1>1, <1>2, PTL DEF ResponsesSpec

-----------------------------------------------------------------------------
(* The results.                                                            *)

(* Without a reset, a message reaches another session than its addressee's *)
(* only if the addressee has ended since its descriptor was read and a new *)
(* connection has got the number, and a client in its handshake only if    *)
(* that was after the frame was packed (websocketSendAction.h:56-77).      *)
THEOREM Delivered == ResponsesSpec => AnswersReachTheirSession
<1>1. RInv =>
        [out # Idle /\ Send => \A c \in Conn : Reaches(c) =>
           /\ c = out.to \/ out.reused \/ wasReset # {}
           /\ phase[c] = "queued" => out.late \/ wasReset # {}]_rvars
  BY DEF RInv, Known, StillTheirs, ShakenHands, Reaches, Send
<1> QED BY ResponsesInvariance, <1>1, PTL DEF AnswersReachTheirSession

(* An invalid pointer is followed only after a look up that found nothing, *)
(* after a reset, or when the session a thread is at leaves or logs out    *)
(* between two of its accesses (websocketSessionManage.h:52-54, 108,       *)
(* noticeOnlineUserAction.h:20-32).                                        *)
THEOREM Cause == ResponsesSpec => []CrashHasCause
<1>1. RInv => CrashHasCause
  BY DEF RInv
<1> QED BY ResponsesInvariance, <1>1, PTL

(* Reading endangers no session: beside a thread that walks or sends,      *)
(* whoever is served stays registered, and logins and names are as without *)
(* it (requestReceiver.h:237-268, requestHanlder.h:42-50).                 *)
THEOREM SessionsUnharmed ==
  ResponsesSpec => [](/\ TypeOK /\ ServedIsRegistered /\ DanglingNeedsReset
                      /\ LoginExclusive /\ OnlineIsServed)
<1>1. RInv => /\ TypeOK /\ ServedIsRegistered /\ DanglingNeedsReset
              /\ LoginExclusive /\ OnlineIsServed
  BY ExclusiveLogins DEF RInv, IInv, Registry, DanglingNeedsReset, Served
<1> QED BY ResponsesInvariance, <1>1, PTL
=============================================================================
