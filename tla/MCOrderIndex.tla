----------------------------- MODULE MCOrderIndex -----------------------------
(* All orders are one user's. *)
EXTENDS OrderIndex

CONSTANT user

OneUser == [o \in Orders |-> user]
=============================================================================
