--------------------------- MODULE MCHistorifyJobs ---------------------------
(* A small instance of HistorifyJobs: the requests are interchangeable. *)
EXTENDS HistorifyJobs, TLC

Symmetry == Permutations(Users)
=============================================================================
