------------------------------ MODULE MCRuntime ------------------------------
(* Three of the seven pages are enough to have an active page, Performance   *)
(* and a hidden page, and each of them can be the active one.                *)
EXTENDS Runtime, TLC

CONSTANTS cpu, perf, gpu, c1, c2

MCPages == {cpu, perf, gpu}
MCRank == cpu :> 1 @@ perf :> 0 @@ gpu :> 2
MCClients == {c1, c2}

\* Each thread calls once; the calls of the two overlap or follow each other.
OneEach == c1 :> 1 @@ c2 :> 1

=============================================================================
