----------------------------- MODULE MCResponses ------------------------------
(* A small instance of Responses, and so of Sessions, for TLC.             *)
EXTENDS Responses, Naturals, FiniteSets, TLC

\* Connections, descriptors and users are interchangeable.
Symmetry == Permutations(Conn) \cup Permutations(Fd) \cup Permutations(User)

\* Bound: the sessions are explored in full; beside them, a thread that reads is
\* followed until a look up has failed or a connection was reset, and from then on
\* as long as two connections have been accepted.
Followed ==
  \/ out = Idle
  \/ wasReset = {} /\ missed = {}
  \/ Cardinality({c \in Conn : phase[c] # "new"}) <= 2
=============================================================================
