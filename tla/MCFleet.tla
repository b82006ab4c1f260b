------------------------------- MODULE MCFleet -------------------------------
(* Small instances of Fleet.                                                  *)
EXTENDS Fleet, TLC
CONSTANTS m1, m2, r1, r2
TwoMachines == {m1, m2}
TwoIds == {r1, r2}
=============================================================================
