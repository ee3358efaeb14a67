----------------------------- MODULE MCDebounce -----------------------------
(* Two watch goroutines (a service and an ingress watcher, say) that share *)
(* one debounced reload, and up to two timer-fired passes at a time.       *)
EXTENDS Debounce, TLC

CONSTANTS w1, w2, g1, g2, k1, k2

MCCallers == {w1, w2}
MCTimers  == {g1, g2}
MCKeys    == {k1, k2}
MCOwner   == (k1 :> w1) @@ (k2 :> w2)
MCPoison  == {<<k1, 1>>}
MCGlobalKeys == {k2}
=============================================================================
