--------------------------- MODULE MCSandboxBook ---------------------------
(***************************************************************************)
(* Small instances of the book.  Prices are multiples of 25200 so that the  *)
(* averages and margin shares of a few orders come out whole.              *)
(***************************************************************************)
EXTENDS SandboxBook

MCLeverage == [p \in Products |-> IF p = "MIS" THEN 2 ELSE 1]
=============================================================================
