--------------------------- MODULE MCSignalPipeline ---------------------------
(* Instances of SignalPipeline for TLC: the workers are interchangeable, and so are *)
(* the deliveries, which get their payloads as they arrive.                         *)
EXTENDS SignalPipeline, TLC

Symmetry == Permutations(Workers) \cup Permutations(Deliveries)
=============================================================================
