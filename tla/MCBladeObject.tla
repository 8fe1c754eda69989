--------------------------- MODULE MCBladeObject ---------------------------
(* A small instance of BladeObject for TLC. *)
EXTENDS BladeObject

CONSTANTS ta, tb

\* The lengths of the names in blmesh/common.h; the texts have no character
\* and three, so that a field without bytes of its own is among them.
MCLength == [x \in Field \cup Text |->
                CASE x = ta -> 0
                  [] x = tb -> 3
                  [] x \in {"#CALL_NAME", "#RESP_NAME"} -> 10
                  [] x = "#REG_PORT" -> 9
                  [] x \in {"#REG_IP", "#ANS_IP", "#NO_ANS"} -> 7
                  [] x = "#QUERY" -> 6
                  [] OTHER -> 1]
=============================================================================
