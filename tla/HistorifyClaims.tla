--------------------------- MODULE HistorifyClaims ---------------------------
(* What the comments and the documentation say of HistorifyJobs and the code does not do. *)
EXTENDS HistorifyJobs

\* A job that is cancelled while a thread works on it is left by that thread
\* (cancel_job signals it to stop, and wakes it so that it can exit cleanly).
CancelStopsTheThread ==
    \A w \in Workers : Busy(w) /\ status = "cancelled" ~> ~Busy(w)
=============================================================================
