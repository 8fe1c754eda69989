-------------------------- MODULE IceRegistryProofs --------------------------
(***************************************************************************)
(* ice/service_manager for any names and any hosts.  TypeOK and Inverse    *)
(* together are inductive: an erase that left an empty set under one key   *)
(* would make Contains lie, and a Deregister that Contains turns away      *)
(* leaves the other map alone because Inverse says the name is not there.  *)
(***************************************************************************)
EXTENDS IceRegistry, TLAPS

IInv == TypeOK /\ Inverse

\* A map without empty sets has a key exactly when there is something under it.
LEMMA KeysOf ==
  ASSUME TypeOK
  PROVE  /\ \A name : name \in DOMAIN srv_name_to_ip <=> Lookup(srv_name_to_ip, name) # {}
         /\ \A ip : ip \in DOMAIN srv_ip_to_name <=> Lookup(srv_ip_to_name, ip) # {}
  BY DEF TypeOK, Lookup

LEMMA EmplaceEffect ==
  ASSUME NEW map, NEW k, NEW v, NEW K, NEW V,
         DOMAIN map \subseteq K, \A j \in DOMAIN map : map[j] \in (SUBSET V) \ {{}},
         k \in K, v \in V
  PROVE  LET new == Emplace(map, k, v)
         IN  /\ DOMAIN new \subseteq K
             /\ \A j \in DOMAIN new : new[j] \in (SUBSET V) \ {{}}
             /\ \A j : Lookup(new, j) =
                         IF j = k THEN Lookup(map, j) \cup {v} ELSE Lookup(map, j)
<1> DEFINE new == Emplace(map, k, v)
<1>1. /\ DOMAIN new = DOMAIN map \cup {k}
      /\ \A j \in DOMAIN new : new[j] = IF j = k THEN Lookup(map, k) \cup {v} ELSE map[j]
  BY DEF Emplace, With
<1>2. \A j \in DOMAIN new : new[j] \in (SUBSET V) \ {{}}
  BY <1>1 DEF Lookup
<1>3. \A j : Lookup(new, j) = IF j = k THEN Lookup(map, j) \cup {v} ELSE Lookup(map, j)
  BY <1>1 DEF Lookup
<1> QED BY <1>1, <1>2, <1>3

LEMMA EraseEffect ==
  ASSUME NEW map, NEW k, NEW v, NEW K, NEW V,
         DOMAIN map \subseteq K, \A j \in DOMAIN map : map[j] \in (SUBSET V) \ {{}},
         k \in K, v \in V
  PROVE  LET new == Erase(map, k, v)
         IN  /\ DOMAIN new \subseteq K
             /\ \A j \in DOMAIN new : new[j] \in (SUBSET V) \ {{}}
             /\ \A j : Lookup(new, j) =
                         IF j = k THEN Lookup(map, j) \ {v} ELSE Lookup(map, j)
<1> DEFINE new  == Erase(map, k, v)
           left == Lookup(map, k) \ {v}
<1>1. CASE left = {}
  <2>1. /\ DOMAIN new = DOMAIN map \ {k}
        /\ \A j \in DOMAIN new : new[j] = map[j]
    BY <1>1 DEF Erase
  <2> QED BY <1>1, <2>1 DEF Lookup
<1>2. CASE left # {}
  <2>1. /\ DOMAIN new = DOMAIN map \cup {k}
        /\ \A j \in DOMAIN new : new[j] = IF j = k THEN left ELSE map[j]
    BY <1>2 DEF Erase, With
  <2>2. \A j \in DOMAIN new : new[j] \in (SUBSET V) \ {{}}
    BY <1>2, <2>1 DEF Lookup
  <2>3. \A j : Lookup(new, j) = IF j = k THEN Lookup(map, j) \ {v} ELSE Lookup(map, j)
    BY <2>1 DEF Lookup
  <2> QED BY <2>1, <2>2, <2>3
<1> QED BY <1>1, <1>2

-----------------------------------------------------------------------------
LEMMA RegisterStep ==
  ASSUME IInv, NEW name \in Name, NEW ip \in Ip, Register(name, ip)
  PROVE  /\ IInv'
         /\ Pairs' = Pairs \cup {<<name, ip>>}
<1> DEFINE byName == Lookup(srv_name_to_ip, name)
<1>1. /\ DOMAIN srv_name_to_ip' \subseteq Name
      /\ \A j \in DOMAIN srv_name_to_ip' : srv_name_to_ip'[j] \in (SUBSET Ip) \ {{}}
      /\ \A j : Lookup(srv_name_to_ip', j) =
                  IF j = name THEN Lookup(srv_name_to_ip, j) \cup {ip}
                              ELSE Lookup(srv_name_to_ip, j)
  BY EmplaceEffect DEF Register, IInv, TypeOK
<1>2. /\ DOMAIN srv_ip_to_name' \subseteq Ip
      /\ \A j \in DOMAIN srv_ip_to_name' : srv_ip_to_name'[j] \in (SUBSET Name) \ {{}}
      /\ \A j : Lookup(srv_ip_to_name', j) =
                  IF j = ip THEN Lookup(srv_ip_to_name, j) \cup {name}
                            ELSE Lookup(srv_ip_to_name, j)
  BY EmplaceEffect DEF Register, IInv, TypeOK
<1>3. TypeOK' /\ Inverse'
  BY <1>1, <1>2 DEF IInv, TypeOK, Inverse
<1>4. Pairs' = Pairs \cup {<<name, ip>>}
  BY <1>1 DEF Pairs
<1> QED BY <1>3, <1>4 DEF IInv

LEMMA DeregisterStep ==
  ASSUME IInv, NEW name \in Name, NEW ip \in Ip, Deregister(name, ip)
  PROVE  /\ IInv'
         /\ Pairs' = Pairs \ {<<name, ip>>}
<1>1. CASE Contains(name)
  <2>0. /\ srv_name_to_ip' = Erase(srv_name_to_ip, name, ip)
        /\ srv_ip_to_name' = Erase(srv_ip_to_name, ip, name)
    BY <1>1 DEF Deregister
  <2>1. /\ DOMAIN srv_name_to_ip' \subseteq Name
        /\ \A j \in DOMAIN srv_name_to_ip' : srv_name_to_ip'[j] \in (SUBSET Ip) \ {{}}
        /\ \A j : Lookup(srv_name_to_ip', j) =
                    IF j = name THEN Lookup(srv_name_to_ip, j) \ {ip}
                                ELSE Lookup(srv_name_to_ip, j)
    BY <2>0, EraseEffect DEF IInv, TypeOK
  <2>2. /\ DOMAIN srv_ip_to_name' \subseteq Ip
        /\ \A j \in DOMAIN srv_ip_to_name' : srv_ip_to_name'[j] \in (SUBSET Name) \ {{}}
        /\ \A j : Lookup(srv_ip_to_name', j) =
                    IF j = ip THEN Lookup(srv_ip_to_name, j) \ {name}
                              ELSE Lookup(srv_ip_to_name, j)
    BY <2>0, EraseEffect DEF IInv, TypeOK
  <2>3. TypeOK' /\ Inverse'
    BY <2>1, <2>2 DEF IInv, TypeOK, Inverse
  <2>4. Pairs' = Pairs \ {<<name, ip>>}
    BY <2>1 DEF Pairs
  <2> QED BY <2>3, <2>4 DEF IInv
<1>2. CASE ~Contains(name)
  <2>1. UNCHANGED <<srv_name_to_ip, srv_ip_to_name>>
    BY <1>2 DEF Deregister
  <2>2. Lookup(srv_name_to_ip, name) = {}
    BY <1>2 DEF Contains, Lookup
  <2>3. IInv'
    BY <2>1 DEF IInv, TypeOK, Inverse, Lookup
  <2>4. <<name, ip>> \notin Pairs /\ Pairs' = Pairs
    BY <2>1, <2>2 DEF Pairs, Lookup
  <2> QED BY <2>3, <2>4
<1> QED BY <1>1, <1>2

LEMMA OthersKeep ==
  ASSUME IInv, UNCHANGED <<srv_name_to_ip, srv_ip_to_name>>
  PROVE  IInv' /\ Pairs' = Pairs
  BY DEF IInv, TypeOK, Inverse, Pairs, Lookup

LEMMA StartAnewStep ==
  ASSUME QueryNothing
  PROVE  IInv' /\ Pairs' = {}
<1>1. IInv'
  BY DEF QueryNothing, NoKeys, IInv, TypeOK, Inverse, Lookup
<1>2. Pairs' = {}
  BY DEF QueryNothing, NoKeys, Pairs, Lookup
<1> QED BY <1>1, <1>2

(* For any names and hosts and any sequence of requests: no key of either  *)
(* map is left with an empty set for Query to draw from, and the two maps  *)
(* stay each other's inverse.                                              *)
THEOREM Consistency == Spec => [](TypeOK /\ Inverse)
<1>1. Init => IInv
  BY DEF Init, IInv, TypeOK, Inverse, NoKeys, Lookup
<1>2. IInv /\ [Next]_vars => IInv'
  <2> SUFFICES ASSUME IInv, [Next]_vars PROVE IInv'
    OBVIOUS
  <2>1. ASSUME NEW name \in Name, NEW ip \in Ip,
               Register(name, ip) \/ Deregister(name, ip)
        PROVE  IInv'
    BY <2>1, RegisterStep, DeregisterStep
  <2>2. CASE (\E name \in Name : Query(name)) \/ AvaSrv \/ AvaSrvN \/ Refuse \/ UNCHANGED vars
    BY <2>2, OthersKeep DEF Query, AvaSrv, AvaSrvN, Refuse, vars
  <2> QED BY <2>1, <2>2, StartAnewStep DEF Next
<1> QED BY <1>1, <1>2, PTL DEF Spec, IInv

\* What IceSpec computes from the pairs is what the code reads off the map.
LEMMA AnswersFromPairs ==
  ASSUME IInv
  PROVE  /\ \A name \in Name : Promise!Hosts(name) = Lookup(srv_name_to_ip, name)
         /\ Promise!Names = DOMAIN srv_name_to_ip
<1>1. \A name \in Name : Promise!Hosts(name) = Lookup(srv_name_to_ip, name)
  <2>1. \A name \in Name : Lookup(srv_name_to_ip, name) \subseteq Ip
    BY DEF IInv, TypeOK, Lookup
  <2> QED BY <2>1 DEF Promise!Hosts, Pairs
<1>2. Promise!Names = DOMAIN srv_name_to_ip
  <2>1. DOMAIN srv_name_to_ip \subseteq Name
    BY DEF IInv, TypeOK
  <2> QED BY <1>1, <2>1, KeysOf DEF Promise!Names, IInv
<1> QED BY <1>1, <1>2

(* Every reply of ICE is the one the set of registered pairs calls for: a  *)
(* query is answered with a host that has the service, and with "no        *)
(* answer" only when no host has it.                                       *)
THEOREM Refinement == Spec => ImplementsPairs
<1>1. Init => Promise!Init
  BY DEF Init, Promise!Init, Pairs, NoKeys, Lookup
<1>2. IInv /\ [Next]_vars => [Promise!Next]_(Promise!vars)
  <2> SUFFICES ASSUME IInv, [Next]_vars PROVE [Promise!Next]_(Promise!vars)
    OBVIOUS
  <2>1. ASSUME NEW name \in Name, NEW ip \in Ip, Register(name, ip)
        PROVE  Promise!Next
    <3>1. Promise!Register(name, ip)
      BY <2>1, RegisterStep DEF Promise!Register, Register, Response
    <3> QED BY <3>1 DEF Promise!Next
  <2>2. ASSUME NEW name \in Name, NEW ip \in Ip, Deregister(name, ip)
        PROVE  Promise!Next
    <3>1. Promise!Deregister(name, ip)
      BY <2>2, DeregisterStep DEF Promise!Deregister, Deregister, Response
    <3> QED BY <3>1 DEF Promise!Next
  <2>3. ASSUME NEW name \in Name, Query(name)
        PROVE  Promise!Next
    <3>1. Pairs' = Pairs
      BY <2>3, OthersKeep DEF Query
    <3>2. Promise!Hosts(name) = {} <=> ~Contains(name)
      BY AnswersFromPairs, KeysOf DEF IInv, Contains
    <3>3. Contains(name) => Promise!Hosts(name) = srv_name_to_ip[name]
      BY AnswersFromPairs DEF Contains, Lookup
    <3>4. Promise!Query(name)
      BY <2>3, <3>1, <3>2, <3>3 DEF Promise!Query, Query
    <3> QED BY <3>4 DEF Promise!Next
  <2>4. CASE AvaSrv \/ AvaSrvN \/ Refuse
    <3>1. Pairs' = Pairs
      BY <2>4, OthersKeep DEF AvaSrv, AvaSrvN, Refuse
    <3>2. Promise!AvaSrv \/ Promise!AvaSrvN \/ Promise!Refuse
      BY <2>4, <3>1, AnswersFromPairs DEF Promise!AvaSrv, Promise!AvaSrvN,
         Promise!Refuse, AvaSrv, AvaSrvN, Refuse, Response
    <3> QED BY <3>2 DEF Promise!Next
  <2>5. CASE QueryNothing
    <3>1. Promise!StartAnew
      BY <2>5, StartAnewStep DEF Promise!StartAnew, QueryNothing
    <3> QED BY <3>1 DEF Promise!Next
  <2>6. CASE UNCHANGED vars
    BY <2>6, OthersKeep DEF vars, Promise!vars
  <2> QED BY <2>1, <2>2, <2>3, <2>4, <2>5, <2>6 DEF Next
<1> QED BY <1>1, <1>2, Consistency, PTL DEF Spec, IInv, ImplementsPairs, Promise!Spec

(* By itself, the type of the maps: a name or a host that is there has a   *)
(* set of hosts or names.                                                  *)
THEOREM Typing == Spec => []TypeOK
BY Consistency, PTL
=============================================================================
