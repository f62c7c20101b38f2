---------------------------- MODULE MCTrailingStop ----------------------------
(* Two stops; one trails by two units, one by forty per cent. *)
EXTENDS TrailingStop

CONSTANTS s1, s2

Trails == [s \in Stops |-> IF s \in Percent THEN 40 ELSE 2]
=============================================================================
