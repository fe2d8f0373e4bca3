------------------------------ MODULE Equipment ------------------------------
(***************************************************************************)
(* The equipments of one user: the list the session keeps, what the worn   *)
(* ones add to the user (the attach fields), and the column wear of the    *)
(* table user_equip (requestHanlder.h and userAction.h: wearEquip;         *)
(* equipmentDao.h: updateUserUsedEquip).                                   *)
(*                                                                         *)
(* updateEquipSem is a semaphore of the session, and only the thread that  *)
(* serves the session wears its equipment, so that a request is one step.  *)
(* What may come between are failures: of each update on its own, and of   *)
(* the process, between the two updates of one request.                    *)
(*                                                                         *)
(* An equipment is in the list and in the table once at most; MapFight     *)
(* shows when it is not.                                                   *)
(*                                                                         *)
(* Every call opens a connection to the database (sqlTem.h), and closes it *)
(* again, but for updateUserUsedEquip.  The threads of other users do the  *)
(* same meanwhile.  A query without a connection ends the process, an      *)
(* update fails.                                                           *)
(***************************************************************************)
EXTENDS Integers, FiniteSets, FiniteSetsExt

CONSTANTS
  Equip,      \* the equipments of the table equipment
  TypeOf,     \* the column type
  Bonus,      \* what an equipment adds, one number for its four columns
  MaxConnections,   \* what the database allows
  MaxBusy,    \* the calls other threads are in at a time (bound)
  SentType    \* the types a client may send, -1 among them for any other text

ASSUME EquipmentAssumption ==
  /\ IsFiniteSet(Equip)
  /\ TypeOf \in [Equip -> Nat]
  /\ Bonus \in [Equip -> Nat]
  /\ SentType \subseteq Int
  /\ MaxConnections \in Nat /\ MaxBusy \in Nat

Wear == {"none", "off", "on"}   \* not in the list, or in it and worn or not

VARIABLES
  rows,     \* user_equip
  list,     \* WebsocketSession::userEquipList
  attach,   \* User::attachAgility and the three others
  online,   \* a session has this user
  left,     \* connections this process has left open
  busy,     \* connections the calls of other threads have now
  wears,    \* history: requests to wear since the process began, up to MaxConnections
  faults,   \* history: the database calls that have failed
  honest    \* history: clients have sent the types of their equipments

connections == <<left, busy, wears>>
vars == <<rows, list, attach, online, connections, faults, honest>>

Worn(wear) == {e \in Equip : wear[e] = "on"}
Sum(wear)  == MapThenSumSet(LAMBDA e : Bonus[e], Worn(wear))

Init ==
  /\ rows \in {r \in [Equip -> Wear] :
                 \A e, f \in Worn(r) : TypeOf[e] = TypeOf[f] => e = f}
  /\ list = [e \in Equip |-> "none"]
  /\ attach = 0
  /\ online = FALSE
  /\ left = 0 /\ busy = 0 /\ wears = 0
  /\ faults = {} /\ honest = TRUE

-----------------------------------------------------------------------------
(* Connections to the database.                                            *)

CanConnect == left + busy < MaxConnections

\* updateUserUsedEquip connects, and does not close.
LeaveOpen ==
  /\ left' = IF CanConnect THEN left + 1 ELSE left
  /\ wears' = IF wears < MaxConnections THEN wears + 1 ELSE wears
  /\ UNCHANGED busy

\* The process ends, and the server is started again.
Restart ==
  /\ online' = FALSE
  /\ left' = 0 /\ busy' = 0 /\ wears' = 0

\* query() sends its first statement before it looks at the connection.
QueryNull ==
  /\ ~CanConnect
  /\ Restart
  /\ UNCHANGED <<rows, list, attach, faults, honest>>

\* Another thread connects; closes; or does not close, having worn something.
Others ==
  /\ \/ busy < MaxBusy /\ CanConnect /\ busy' = busy + 1 /\ UNCHANGED <<left, wears>>
     \/ busy > 0 /\ busy' = busy - 1 /\ UNCHANGED <<left, wears>>
     \/ /\ busy > 0 /\ busy' = busy - 1 /\ left' = left + 1
        /\ wears' = IF wears < MaxConnections THEN wears + 1 ELSE wears
  /\ UNCHANGED <<rows, list, attach, online, faults, honest>>

-----------------------------------------------------------------------------
(* The session.                                                            *)

\* setUserEquipList(getByUserid): a new user object has nothing attached.
Login(failed) ==
  /\ ~online /\ online' = TRUE
  /\ CanConnect
  /\ failed \subseteq {"getByUserid"}
  /\ list' = IF failed = {} THEN rows ELSE [e \in Equip |-> "none"]
  /\ attach' = Sum(list')
  /\ faults' = faults \cup failed
  /\ UNCHANGED <<rows, connections, honest>>

\* The client leaves.
Offline ==
  /\ online /\ online' = FALSE
  /\ UNCHANGED <<rows, list, attach, connections, faults, honest>>

\* The process ends between two calls.
Crash == Restart /\ UNCHANGED <<rows, list, attach, faults, honest>>

\* Mutant: the connection stays open when the insert fails.
GainLeavesOpen(e, failed) ==
  /\ online /\ CanConnect
  /\ rows[e] = "none" /\ list[e] = "none"
  /\ failed \subseteq {"addUserEquip"}
  /\ list' = [list EXCEPT ![e] = "off"]
  /\ rows' = IF failed = {} THEN [rows EXCEPT ![e] = "off"] ELSE rows
  /\ faults' = faults \cup failed
  /\ left' = IF failed = {} THEN left ELSE left + 1
  /\ UNCHANGED <<attach, online, busy, wears, honest>>

\* A map fight is won, with an equipment the user does not have: the queries
\* before have found a connection.
Gain(e, failed) ==
  /\ online /\ CanConnect
  /\ rows[e] = "none" /\ list[e] = "none"
  /\ failed \subseteq {"addUserEquip"}
  /\ list' = [list EXCEPT ![e] = "off"]
  /\ rows' = IF failed = {} THEN [rows EXCEPT ![e] = "off"] ELSE rows
  /\ faults' = faults \cup failed
  /\ UNCHANGED <<attach, online, connections, honest>>

-----------------------------------------------------------------------------
(* wearEquip.                                                              *)

\* update user_equip set wear = w: there may be no such row.
SetWear(r, e, w) == IF r[e] = "none" THEN r ELSE [r EXCEPT ![e] = w]

\* Mutant: the new equipment is put on before the old one is taken off.
PutOnFirst(old, new, done) ==
  CASE done = 0 -> rows
    [] done = 1 -> SetWear(rows, new, "on")
    [] done = 2 -> SetWear(SetWear(rows, new, "on"), old, "off")

\* Mutant: the two equipments are confused.
PutOnOld(old, new, done) ==
  CASE done = 0 -> rows
    [] done = 1 -> SetWear(rows, new, "off")
    [] done = 2 -> SetWear(SetWear(rows, new, "off"), old, "on")

\* updateUserUsedEquip, when done of its two updates have worked.
Exchange(old, new, done) ==
  CASE done = 0 -> rows
    [] done = 1 -> SetWear(rows, old, "off")
    [] done = 2 -> SetWear(SetWear(rows, old, "off"), new, "on")

\* The equipments one of which the request takes off: the last one in the list.
ToTakeOff(new, type) ==
  {e \in Worn(list) : TypeOf[e] = type /\ e # new}

\* A request for an equipment that is not in the list, or is worn, is refused.
Wearable(e) == online /\ list[e] = "off"

WearFirst(new, type, failed) ==
  /\ Wearable(new)
  /\ ToTakeOff(new, type) = {}
  /\ failed \subseteq {"putOn"} /\ (~CanConnect => failed = {"putOn"})
  /\ LeaveOpen
  /\ rows' = IF failed = {} THEN SetWear(rows, new, "on") ELSE rows
  /\ list' = [list EXCEPT ![new] = "on"]
  /\ attach' = attach + Bonus[new]
  /\ faults' = faults \cup failed
  /\ honest' = (honest /\ type = TypeOf[new])
  /\ UNCHANGED online

\* Mutant: what the old equipment added stays.
WearInsteadKeep(new, type, done) ==
  \E old \in ToTakeOff(new, type) :
    /\ Wearable(new) /\ (~CanConnect => done = 0)
    /\ LeaveOpen
    /\ rows' = Exchange(old, new, done)
    /\ list' = [list EXCEPT ![new] = "on", ![old] = "off"]
    /\ attach' = attach + Bonus[new]
    /\ faults' = faults \cup (CASE done = 0 -> {"takeOff"}
                                [] done = 1 -> {"putOn"}
                                [] done = 2 -> {})
    /\ honest' = (honest /\ type = TypeOf[new])
    /\ UNCHANGED online

\* The session is changed whatever updateUserUsedEquip returns.
WearInstead(new, type, done) ==
  \E old \in ToTakeOff(new, type) :
    /\ Wearable(new) /\ (~CanConnect => done = 0)
    /\ LeaveOpen
    /\ rows' = Exchange(old, new, done)
    /\ list' = [list EXCEPT ![new] = "on", ![old] = "off"]
    /\ attach' = attach + Bonus[new] - Bonus[old]
    /\ faults' = faults \cup (CASE done = 0 -> {"takeOff"}
                                [] done = 1 -> {"putOn"}
                                [] done = 2 -> {})
    /\ honest' = (honest /\ type = TypeOf[new])
    /\ UNCHANGED online

\* The process ends after one of the two updates.
CrashBetween(new, type) ==
  \E old \in ToTakeOff(new, type) :
    /\ Wearable(new) /\ CanConnect
    /\ rows' = Exchange(old, new, 1)
    /\ Restart
    /\ honest' = (honest /\ type = TypeOf[new])
    /\ UNCHANGED <<list, attach, faults>>

-----------------------------------------------------------------------------

Next ==
  \/ \E failed \in SUBSET {"getByUserid"} : Login(failed)
  \/ Offline \/ Crash \/ QueryNull \/ Others
  \/ \E e \in Equip, failed \in SUBSET {"addUserEquip"} : Gain(e, failed)
  \/ \E e \in Equip, t \in SentType :
       \/ \E failed \in SUBSET {"putOn"} : WearFirst(e, t, failed)
       \/ \E done \in 0..2 : WearInstead(e, t, done)
       \/ CrashBetween(e, t)

Spec == Init /\ [][Next]_vars

-----------------------------------------------------------------------------
(* Properties.                                                             *)

TypeOK ==
  /\ rows \in [Equip -> Wear] /\ list \in [Equip -> Wear]
  /\ attach \in Nat
  /\ left \in 0..MaxConnections /\ busy \in 0..MaxBusy
  /\ wears \in 0..MaxConnections
  /\ online \in BOOLEAN /\ honest \in BOOLEAN
  /\ faults \subseteq {"getByUserid", "addUserEquip", "takeOff", "putOn"}

(* The attached values, which every request changes by a difference, are   *)
(* those of the equipments the session believes worn, whatever failed and  *)
(* whatever types were sent (userAction.h:71-104, websocketSession.h:114). *)
AttachIsWorn == online => attach = Sum(list)

(* At most one equipment of a type is worn, in the table and in the list.  *)
(* An update that puts on and fails, and a crash between the two updates,  *)
(* do no harm; one that takes off and fails, a list that could not be      *)
(* read, and a client that sends another type, leave two worn              *)
(* (requestHanlder.h:69-80, equipmentDao.h:164-196).                       *)
OneWornPerType ==
  honest /\ faults \cap {"takeOff", "getByUserid"} = {} =>
    \A wear \in {rows, list} : \A e, f \in Worn(wear) :
      TypeOf[e] = TypeOf[f] => e = f

(* Without failed calls the session shows what the table holds, even if    *)
(* the process has ended between two updates.                              *)
ListIsTable == online /\ faults = {} => list = rows

(* No call of any thread goes without a connection, which makes an update  *)
(* fail and a query end the process, as long as fewer equipments have been *)
(* worn since the server began than the database has connections beyond    *)
(* those of the calls in progress: nothing but wearing leaves one open, on *)
(* any path (sqlTem.h:47-71, equipmentDao.h:138-196).                      *)
EnoughConnections == wears + MaxBusy < MaxConnections => CanConnect
=============================================================================
