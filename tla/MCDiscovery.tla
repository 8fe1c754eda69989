----------------------------- MODULE MCDiscovery -----------------------------
(***************************************************************************)
(* Discovery for TLC.                                                      *)
(***************************************************************************)
EXTENDS Discovery, TLC

CONSTANTS a, b, p1, p2

\* Every process has a name of its own.
Own == {<<a, p1>>, <<b, p2>>}
\* Both serve a, and p2 has a name of its own too.
Shared == {<<a, p1>>, <<a, p2>>, <<b, p2>>}
\* Every process serves every name.
Everyone == Name \X Port
=============================================================================
