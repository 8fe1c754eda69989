----------------------------- MODULE IceRegistry -----------------------------
(***************************************************************************)
(* ICE, the name service: the four handlers of ice/ice.cc over the two     *)
(* maps of ice/service_manager.  A BladeServer runs its handlers one at a  *)
(* time on one thread, so each handler is one step; the lock inside the    *)
(* ServiceManager (RWLock) is never contended here.                        *)
(*                                                                         *)
(* operator[] of an unordered_map inserts the key it does not find: Lookup *)
(* and With below are that operator, read and written.                     *)
(***************************************************************************)
EXTENDS Naturals, FiniteSets

CONSTANTS
  Name, Ip,    \* the names and addresses that requests mention
  NoAnswer     \* the answer to a query for a name nobody serves

ASSUME NoAnswerIsNoIp == NoAnswer \notin Ip
ASSUME NameFinite == IsFiniteSet(Name)

VARIABLES
  srv_name_to_ip,   \* name -> ip[]
  srv_ip_to_name,   \* ip -> name[]
  reply             \* the last reply that left ICE

vars == <<srv_name_to_ip, srv_ip_to_name, reply>>

NoKeys == [k \in {} |-> {}]

Lookup(map, k) == IF k \in DOMAIN map THEN map[k] ELSE {}

With(map, k, s) == [j \in DOMAIN map \cup {k} |-> IF j = k THEN s ELSE map[j]]

Emplace(map, k, v) == With(map, k, Lookup(map, k) \cup {v})

\* erase(v) in the set of k, then erase(k) if nothing is left of it.
BugEraseKeepsKey(map, k, v) == With(map, k, Lookup(map, k) \ {v})

BugEraseWholeKey(map, k, v) == [j \in DOMAIN map \ {k} |-> map[j]]

Erase(map, k, v) ==
  LET left == Lookup(map, k) \ {v}
  IN  IF left = {} THEN [j \in DOMAIN map \ {k} |-> map[j]]
                   ELSE With(map, k, left)

Contains(name) == name \in DOMAIN srv_name_to_ip

Init ==
  /\ srv_name_to_ip = NoKeys /\ srv_ip_to_name = NoKeys
  /\ reply = [to |-> "nobody"]

-----------------------------------------------------------------------------
Response == reply' = [to |-> "register"]

\* The two halves of the handler that Loki calls, by the type of the request.
Register(name, ip) ==
  /\ srv_name_to_ip' = Emplace(srv_name_to_ip, name, ip)
  /\ srv_ip_to_name' = Emplace(srv_ip_to_name, ip, name)
  /\ Response

BugDeregisterOneSided(name, ip) ==   \* the second map is forgotten
  /\ srv_name_to_ip' = Erase(srv_name_to_ip, name, ip)
  /\ UNCHANGED srv_ip_to_name
  /\ Response

Deregister(name, ip) ==
  /\ IF Contains(name)
     THEN /\ srv_name_to_ip' = Erase(srv_name_to_ip, name, ip)
          /\ srv_ip_to_name' = Erase(srv_ip_to_name, ip, name)
     ELSE UNCHANGED <<srv_name_to_ip, srv_ip_to_name>>
  /\ Response

\* A request whose type or fields are wrong throws, is logged, and gets the
\* same response: what ICE adds to tell the two apart it adds to the request.
Refuse == Response /\ UNCHANGED <<srv_name_to_ip, srv_ip_to_name>>

\* The loop over uniform_dist stops at some element, never past the last.
Query(name) ==
  /\ \E ip \in IF Contains(name) THEN srv_name_to_ip[name] ELSE {NoAnswer} :
       reply' = [to |-> "query", name |-> name, ip |-> ip]
  /\ UNCHANGED <<srv_name_to_ip, srv_ip_to_name>>

\* A query that names nothing.  The handler of the exception reads the missing
\* field once more, for the log, and what that throws nobody catches: ICE ends,
\* and has forgotten everything when it is started again.
QueryNothing ==
  /\ srv_name_to_ip' = NoKeys /\ srv_ip_to_name' = NoKeys
  /\ reply' = [to |-> "nobody"]

AvaSrv ==
  /\ reply' = [to |-> "ava_srv", names |-> DOMAIN srv_name_to_ip]
  /\ UNCHANGED <<srv_name_to_ip, srv_ip_to_name>>

AvaSrvN ==
  /\ reply' = [to |-> "ava_srv_n", val |-> Cardinality(DOMAIN srv_name_to_ip)]
  /\ UNCHANGED <<srv_name_to_ip, srv_ip_to_name>>

Next == \/ \E name \in Name, ip \in Ip : Register(name, ip) \/ Deregister(name, ip)
        \/ \E name \in Name : Query(name)
        \/ QueryNothing \/ AvaSrv \/ AvaSrvN \/ Refuse

Spec == Init /\ [][Next]_vars

-----------------------------------------------------------------------------
(* The type invariant.  No key of either map has an empty set: Query would *)
(* draw from uniform(0, -1) and dereference the end of the set.            *)
TypeOK ==
  /\ DOMAIN srv_name_to_ip \subseteq Name
  /\ DOMAIN srv_ip_to_name \subseteq Ip
  /\ \A name \in DOMAIN srv_name_to_ip : srv_name_to_ip[name] \in (SUBSET Ip) \ {{}}
  /\ \A ip \in DOMAIN srv_ip_to_name : srv_ip_to_name[ip] \in (SUBSET Name) \ {{}}

(* The two maps are each other's inverse after any sequence of             *)
(* registrations and deregistrations, those of a pair that is not there    *)
(* included: Deregister tests the name only and creates the keys it erases *)
(* from.                                                                   *)
Inverse ==
  \A name \in Name, ip \in Ip :
    ip \in Lookup(srv_name_to_ip, name) <=> name \in Lookup(srv_ip_to_name, ip)

(* The maps implement the set of pairs of IceSpec: every reply is the one  *)
(* that the registrations and deregistrations so far call for.             *)
Pairs == {p \in Name \X Ip : p[2] \in Lookup(srv_name_to_ip, p[1])}
Promise == INSTANCE IceSpec WITH registered <- Pairs, Size <- Cardinality
ImplementsPairs == Promise!Spec
=============================================================================
