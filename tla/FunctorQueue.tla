---------------------------- MODULE FunctorQueue ----------------------------
(***************************************************************************)
(* What EventLoop::queueInLoop promises its callers: functors are run in   *)
(* the order in which they were queued, each one at most once, and none    *)
(* that was not queued.  It says nothing of threads, locks or the eventfd; *)
(* module EventLoop is shown to implement it.                              *)
(***************************************************************************)
EXTENDS Naturals, Sequences

CONSTANT Functors

VARIABLES
  queued,     \* every functor ever handed over, in order
  executed    \* every functor run so far, in order

vars == <<queued, executed>>

Init == queued = <<>> /\ executed = <<>>

Submit(f) ==
  /\ queued' = Append(queued, f)
  /\ UNCHANGED executed

Run ==
  /\ Len(executed) < Len(queued)
  /\ executed' = Append(executed, queued[Len(executed) + 1])
  /\ UNCHANGED queued

Next == Run \/ \E f \in Functors : Submit(f)

Spec == Init /\ [][Next]_vars
=============================================================================
