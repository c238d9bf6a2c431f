-------------------------- MODULE MCTaskLifecycle --------------------------
(* Instance of TaskLifecycle for TLC. *)
EXTENDS TaskLifecycle, TLC

\* Coroutine identities are interchangeable.
SlotSymmetry == Permutations(Slots)

AllModes == {"off", "evaluate", "full"}
=============================================================================
