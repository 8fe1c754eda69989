------------------------------ MODULE MCRouting ------------------------------
(***************************************************************************)
(* Routing for TLC.                                                        *)
(***************************************************************************)
EXTENDS Routing

CONSTANTS c1, s, t

\* c1 calls s and t, whose handlers call each other; those of t with a trace id.
Mutual == {<<c1, s>>, <<c1, t>>, <<s, t>>, <<t, s>>}
Marked == {<<t, s>>}
=============================================================================
