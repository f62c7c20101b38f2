--------------------------- MODULE MCApprovalQueue ---------------------------
(* A small instance of the queue and the switch: the threads that approve are *)
(* interchangeable, and so are those that press.                              *)
EXTENDS ApprovalQueue, TLC

Symmetry == Permutations(Approvers) \cup Permutations(Presses)
=============================================================================
