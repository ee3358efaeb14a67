---------------------------- MODULE TrustAnchors ----------------------------
(***************************************************************************)
(* What the trust manager of the core promises about the generation of the *)
(* edge-CA set it enforces, without how: within a process the generation   *)
(* only moves forward; a process that starts while a durable record exists *)
(* never enforces an older one; and as long as the record is not lost, it  *)
(* is never older than what bound the process that writes it, although it  *)
(* may name that bound again after a newer set.                            *)
(***************************************************************************)
EXTENDS Naturals

VARIABLES held,     \* generation enforced, 0 while no CA set is loaded
          durable,  \* generation a restart is bound by, 0 when there is none
          bound     \* what bound the process that is running now

vars == <<held, durable, bound>>

Init == held = 0 /\ durable = 0 /\ bound = 0

\* A newer CA set is enforced, never one older than the bound.
Advance ==
    /\ held' > held /\ held' >= bound
    /\ UNCHANGED <<durable, bound>>

\* What is enforced, or what bound this process, becomes what binds the next.
Persist ==
    /\ durable' \in {held, bound} \ {0}
    /\ durable' >= bound
    /\ UNCHANGED <<held, bound>>

\* The record expires or its disk is replaced.
Forget ==
    /\ durable' = 0
    /\ UNCHANGED <<held, bound>>

\* A new process enforces nothing and is bound by the record.
Restart ==
    /\ held' = 0 /\ bound' = durable
    /\ UNCHANGED durable

Next == Advance \/ Persist \/ Forget \/ Restart

Spec == Init /\ [][Next]_vars
=============================================================================
