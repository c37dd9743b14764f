---------------------------- MODULE MCSPSCQueue ----------------------------
(* The ring on a small instance, for TLC.                                  *)
EXTENDS SPSCQueue

CONSTANTS v1, v2, MinCapacity

\* The capacity in the .cfg is the one the constructor picks.
ASSUME Capacity = CapacityFor(MinCapacity)
=============================================================================
