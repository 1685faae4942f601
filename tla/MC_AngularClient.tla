-------------------------- MODULE MC_AngularClient --------------------------
(***************************************************************************)
(* Instances of AngularClient for TLC.                                     *)
(***************************************************************************)
EXTENDS AngularClient

CONSTANTS d1, d2, nan, none

TwoDevices == {d1, d2}
OneStrange == {nan}
=============================================================================
