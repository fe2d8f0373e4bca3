------------------------------ MODULE MCMapFight ------------------------------
(* Small instances of MapFight for TLC.                                    *)
EXTENDS MapFight

Monster(level, agility, strength, HP) ==
  [level |-> level, agility |-> agility, strength |-> strength, HP |-> HP]

\* Two monsters on map 1, a strong one on map 2, which is for level 2, and one
\* on map 3 for level 3; as much XP as a level costs at most.
Monsters ==
  << <<Monster(1, 0, 1, 2), Monster(2, 1, 1, 1)>>,
     <<Monster(3, 1, 2, 3)>>,
     <<Monster(2, 0, 1, 1)>> >>

Levels == <<1, 2, 3>>
=============================================================================
