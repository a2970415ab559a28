---------------------------- MODULE MCMonitoring ----------------------------
EXTENDS Monitoring, TLC

Symmetric == Permutations(Jobs) \cup Permutations(Workers)

(* When the last of MaxTicks ticks has read the jobs nobody looks at them again: states that *)
(* differ only there have the same future.                                                   *)
Watched  == ticks < MaxTicks \/ \E w \in Workers : tick[w].pc = "ages"
Readable == <<IF Watched THEN jobs ELSE None, now, alerts, tick, console, ticks, acks, faults, history>>
=============================================================================
