------------------------------ MODULE Challenge ------------------------------
(***************************************************************************)
(* What fight rooms and the tasks of user fights promise together          *)
(* (fightManage.h, userFightTask.h), without registry, flags or threads:   *)
(* a challenge stands until it is withdrawn or one user accepts it, who is *)
(* free at that moment; from then on the two belong to one fight, until    *)
(* each of them is let go, once.                                           *)
(***************************************************************************)
CONSTANTS
  Session,
  None       \* no opponent

VARIABLES
  state,     \* "free", "waiting" (for an answer) or "matched"
  opponent   \* of a session that is matched

vars == <<state, opponent>>

Init ==
  /\ state = [s \in Session |-> "free"]
  /\ opponent = [s \in Session |-> None]

Challenge(s) ==
  /\ state[s] = "free"
  /\ state' = [state EXCEPT ![s] = "waiting"]
  /\ UNCHANGED opponent

\* The challenger cancels, or somebody refuses.
Withdraw(s) ==
  /\ state[s] = "waiting"
  /\ state' = [state EXCEPT ![s] = "free"]
  /\ UNCHANGED opponent

Accept(s, t) ==
  /\ state[s] = "free" /\ state[t] = "waiting"
  /\ state' = [state EXCEPT ![s] = "matched", ![t] = "matched"]
  /\ opponent' = [opponent EXCEPT ![s] = t, ![t] = s]

LetGo(s) ==
  /\ state[s] = "matched"
  /\ state' = [state EXCEPT ![s] = "free"]
  /\ opponent' = [opponent EXCEPT ![s] = None]

\* The challenger has left, and the user who accepted is told so: the match is
\* off for both.
CallOff(s) ==
  /\ state[s] = "matched" /\ opponent[opponent[s]] = s
  /\ state' = [state EXCEPT ![s] = "free", ![opponent[s]] = "free"]
  /\ opponent' = [opponent EXCEPT ![s] = None, ![opponent[s]] = None]

Next ==
  \E s \in Session :
    \/ Challenge(s) \/ Withdraw(s) \/ LetGo(s) \/ CallOff(s)
    \/ \E t \in Session \ {s} : Accept(s, t)

Spec == Init /\ [][Next]_vars
=============================================================================
