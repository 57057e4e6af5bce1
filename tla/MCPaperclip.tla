----------------------------- MODULE MCPaperclip -----------------------------
(***************************************************************************)
(* Instances of PaperclipService for TLC.                                  *)
(***************************************************************************)
EXTENDS PaperclipPromises, TLC

CONSTANTS t1, t2, k1

\* Threads are interchangeable: no state distinguishes them.
ThreadSymmetry == Permutations(Threads)

\* No task is submitted with an Idempotency-Key.
NoKeys == [t \in Tasks |-> NoKey]

\* Every task is submitted with the same Idempotency-Key.
OneKey == [t \in Tasks |-> k1]
=============================================================================
