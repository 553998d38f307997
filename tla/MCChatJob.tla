------------------------------ MODULE MCChatJob ------------------------------
(* Instances of ChatJob for TLC. *)
EXTENDS ChatJob, TLC

\* Invocations are interchangeable: no action or invariant names one.
WorkerSymmetry == Permutations(Worker)
=============================================================================
