------------------------------ MODULE MCSession ------------------------------
(***************************************************************************)
(* Session for TLC: caller and service on hosts of their own.              *)
(***************************************************************************)
EXTENDS Session

CONSTANTS client, near, far, server

Hosts == [s \in Node |-> CASE s = "caller" -> client
                           [] s \in {"loki", "tokartos"} -> near
                           [] s \in {"kartos", "toservice"} -> far
                           [] s = "service" -> server]
=============================================================================
