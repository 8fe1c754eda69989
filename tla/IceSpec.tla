------------------------------- MODULE IceSpec -------------------------------
(***************************************************************************)
(* What the ICE name service promises: it keeps a set of pairs, name x     *)
(* host, and answers from it.  How the pairs are stored is IceRegistry's   *)
(* business.  Nothing of it outlives the process.                          *)
(***************************************************************************)
CONSTANTS Name, Ip, NoAnswer,
          Size(_)  \* the number of elements of a set

VARIABLES
  registered,  \* the pairs <<name, ip>> somebody registered and nobody deregistered
  reply        \* the last reply that left ICE

vars == <<registered, reply>>

Hosts(name) == {ip \in Ip : <<name, ip>> \in registered}
Names == {name \in Name : Hosts(name) # {}}

Init == registered = {} /\ reply = [to |-> "nobody"]

Register(name, ip) ==
  /\ registered' = registered \cup {<<name, ip>>}
  /\ reply' = [to |-> "register"]

Deregister(name, ip) ==
  /\ registered' = registered \ {<<name, ip>>}
  /\ reply' = [to |-> "register"]

\* Any host that has the service will do; NoAnswer only when none has it.
Query(name) ==
  /\ \E ip \in IF Hosts(name) = {} THEN {NoAnswer} ELSE Hosts(name) :
       reply' = [to |-> "query", name |-> name, ip |-> ip]
  /\ UNCHANGED registered

AvaSrv  == reply' = [to |-> "ava_srv", names |-> Names] /\ UNCHANGED registered
AvaSrvN == reply' = [to |-> "ava_srv_n", val |-> Size(Names)] /\ UNCHANGED registered
Refuse  == reply' = [to |-> "register"] /\ UNCHANGED registered

StartAnew == registered' = {} /\ reply' = [to |-> "nobody"]

Next == \/ \E name \in Name, ip \in Ip : Register(name, ip) \/ Deregister(name, ip)
        \/ \E name \in Name : Query(name)
        \/ AvaSrv \/ AvaSrvN \/ Refuse \/ StartAnew

Spec == Init /\ [][Next]_vars
=============================================================================
