---------------------------- MODULE MCThreadPool ----------------------------
(* Small instances of ThreadPool for TLC.                                  *)
EXTENDS ThreadPool, TLC

\* Tasks and threads are interchangeable; used in the safety runs only.
Symmetry == Permutations(Task) \cup Permutations(Worker)
=============================================================================
