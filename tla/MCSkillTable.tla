----------------------------- MODULE MCSkillTable -----------------------------
(* Small instances of SkillTable for TLC.                                  *)
EXTENDS SkillTable

\* One skill for everybody and one for level 3.
Levels == <<1, 3>>
=============================================================================
