------------------------------ MODULE MCMemory ------------------------------
(***************************************************************************)
(* Instances of TenantMemory for TLC.                                      *)
(***************************************************************************)
EXTENDS TenantMemory, TLC

CONSTANTS on, off, default

ModesOfThree == [c \in Config |-> IF c = off THEN "off" ELSE "augment"]

ThreadSymmetry == Permutations(Threads)
=============================================================================
