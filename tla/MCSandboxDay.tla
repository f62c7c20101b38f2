---------------------------- MODULE MCSandboxDay ----------------------------
(***************************************************************************)
(* Small instances of the trading days: symbols traded both for delivery   *)
(* and intraday.  The symbols are interchangeable.                         *)
(***************************************************************************)
EXTENDS SandboxDay, TLC

MCLeverage == [p \in Products |-> IF p = "MIS" THEN 2 ELSE 1]

SymbolSymmetry == Permutations(Symbols)
=============================================================================
