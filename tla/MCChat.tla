-------------------------------- MODULE MCChat --------------------------------
(* ChatRuntime for TLC: the cfg files choose the bounds and the requests.    *)
EXTENDS ChatRuntime, TLC

CONSTANTS w1, w2, q1, q2

\* Workers are interchangeable: no property of a run with this symmetry is temporal.
WorkerSymmetry == {[w \in {w1, w2} |-> w], (w1 :> w2) @@ (w2 :> w1)}

=============================================================================
