----------------------------- MODULE MCIssueFlow -----------------------------
(***************************************************************************)
(* Instances of IssueFlow for TLC.                                         *)
(***************************************************************************)
EXTENDS IssueFlow, TLC

CONSTANTS t1

FlowSymmetry == Permutations(Clients) \cup Permutations(Handlers)
=============================================================================
