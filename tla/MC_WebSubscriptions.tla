------------------------ MODULE MC_WebSubscriptions ------------------------
(***************************************************************************)
(* Instances of WebSubscriptions for TLC.                                  *)
(***************************************************************************)
EXTENDS WebSubscriptions, TLC

CONSTANTS s1, s2, s3, door, hdm14, nobody

TwoSessions   == {s1, s2}
ThreeSessions == {s1, s2, s3}
Symmetry      == Permutations(ThreeSessions)

OneDoor    == {door}
DoorOnly   == {hdm14}
DoorTarget == hdm14 :> door
=============================================================================
