---------------------------- MODULE MCFrontDoor ----------------------------
(***************************************************************************)
(* Instances of the front door.                                            *)
(***************************************************************************)
EXTENDS FrontDoor, TLC

SlotsAndSecrets == Permutations(Connections) \cup Permutations(Passwords)
=============================================================================
