------------------------------- MODULE MCDuel -------------------------------
(* Small instances of Duel for TLC.                                        *)
EXTENDS Duel, TLC

\* Sessions and descriptors are interchangeable; used where all sessions have
\* the same bounds and no liveness is checked.
Symmetry == Permutations(Session) \cup Permutations(Fd)
=============================================================================
