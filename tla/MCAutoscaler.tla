---------------------------- MODULE MCAutoscaler ----------------------------
(***************************************************************************)
(* Small instances of the control loop: one sample on each side of every   *)
(* threshold the engine looks at, clocks of a few ticks.                   *)
(***************************************************************************)
EXTENDS Autoscaler, TLC

CONSTANT s1   \* the server the cluster starts with

OneServer == {s1}
ServerSymmetry == Permutations(Server \ InitialServers) \cup Permutations(InitialServers)

MCCPULevels == {0, 20, 50, 90, 96}

Sample(cpu, trend, spike) == [avgCPU |-> cpu, trend |-> trend, hasSpike |-> spike]

(* Idle and rising, idle, a metrics report without servers, busy, spiking. *)
OrdinarySamples ==
    {Sample(20, "rising", FALSE), Sample(20, "falling", FALSE), Sample(0, "stable", FALSE),
     Sample(50, "stable", FALSE), Sample(90, "stable", FALSE), Sample(50, "rising", TRUE)}

AllSamples == OrdinarySamples \cup {Sample(96, "rising", FALSE)}
=============================================================================
