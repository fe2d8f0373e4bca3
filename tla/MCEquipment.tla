----------------------------- MODULE MCEquipment -----------------------------
(* A small instance of Equipment for TLC.                                  *)
EXTENDS Equipment

\* Three equipments of one type and one of another, told apart by their sums.
Types   == <<1, 1, 1, 2>>
Bonuses == <<1, 2, 4, 8>>
Sent    == {-1, 1, 2}
=============================================================================
