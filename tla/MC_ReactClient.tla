--------------------------- MODULE MC_ReactClient ---------------------------
(***************************************************************************)
(* Instances of ReactClient for TLC.                                       *)
(***************************************************************************)
EXTENDS ReactClient, TLC

CONSTANTS p1, p2, door, hdm14, nobody

TwoTabs    == {p1, p2}
OneReload  == p1 :> 2 @@ p2 :> 1
OneStrict  == p1 :> 1 @@ p2 :> 2
OneDevice  == {1}
OneDoor    == {door}
DoorTarget == hdm14 :> door
=============================================================================
