---------------------------- MODULE MCEventPoll -----------------------------
(* Symmetry of the small instances of EventPoll.                           *)
EXTENDS EventPoll, TLC

Symmetry == Permutations(WaitThreads)
=============================================================================
