---------------------------- MODULE SessionProofs ----------------------------
(***************************************************************************)
(* Proofs about Session: its invariants, and that it keeps the promise of  *)
(* CallSpec, for any assignment of the sessions to processes, of which any *)
(* may stop.                                                               *)
(***************************************************************************)
EXTENDS Session, TLAPS

\* The sessions, their peers and their words.
LEMMA Sides ==
  /\ Node = Client \cup Server /\ Child \subseteq Client
  /\ \A c \in Client : c \notin Server
  /\ "caller" \in Client /\ "caller" \notin Child
  /\ \A c \in Client : c = "caller" \/ c \in Child
  /\ \A c \in Child : Father[c] \in Server
  BY DEF Node, Client, Server, Child, Father

LEMMA Peers ==
  /\ \A s \in Node : Peer(s) \in Node
  /\ \A c \in Client : Peer(c) \in Server
  /\ \A s \in Server : Peer(s) \in Client
  BY DEF Peer, Node, Client, Server

LEMMA Names ==
  /\ "loki" \in Server /\ "kartos" \in Server /\ "service" \in Server
  /\ "tokartos" \in Child /\ "toservice" \in Child
  /\ "request" \in Object /\ "register" \in Object /\ "keepalive" \in Object
  /\ "reply" \in Object /\ "no service" \in Object
  BY DEF Child, Server, Object, Kind

-----------------------------------------------------------------------------
(* What each action does to each session.                                  *)

LEMMA CallDoes ==
  ASSUME TypeOK, NEW kind \in Kind, Call(kind)
  PROVE  /\ asked = None /\ asked' = kind /\ up[Home["caller"]]
         /\ \A t \in Node : op'[t] = IF t = "caller" THEN "connect" ELSE op[t]
         /\ \A t \in Node : obj'[t] = IF t = "caller" THEN kind ELSE obj[t]
         /\ UNCHANGED <<wire, up, told, ran>>
  BY DEF TypeOK, Call

LEMMA ReturnDoes ==
  ASSUME Return
  PROVE  /\ asked # None /\ asked' = None /\ told' = None /\ ran' = 0
         /\ \A t \in Node : op[t] = "none" /\ op'[t] = "none"
         /\ \A t \in Node : obj'[t] = None /\ wire'[t] = None
         /\ UNCHANGED <<up, trouble>>
  BY DEF Return, Quiet

LEMMA ConnectDoes ==
  ASSUME TypeOK, NEW s \in Node, Connect(s)
  PROVE  /\ s \in Client /\ op[s] = "connect" /\ up[Home[Peer(s)]]
         /\ \A t \in Node : op'[t] = IF t = s THEN "write" ELSE IF t = Peer(s) THEN "accept" ELSE op[t]
         /\ \A t \in Node : obj'[t] = IF t = s /\ s \in Child THEN obj[Father[s]] ELSE obj[t]
         /\ UNCHANGED <<asked, wire, up, told, ran, trouble>>
<1> USE Peers
<1>1. s \in Client /\ op[s] = "connect" /\ s \notin Server
  BY DEF TypeOK, Connect, Node, Client, Server
<1>2. op' = [op EXCEPT ![s] = "write", ![Peer(s)] = "accept"]
  BY DEF Connect
<1>3. Peer(s) # s /\ op \in [Node -> Operation] /\ obj \in [Node -> Object \cup {None}]
  BY <1>1 DEF TypeOK
<1>4. \A t \in Node : op'[t] = IF t = s THEN "write" ELSE IF t = Peer(s) THEN "accept" ELSE op[t]
  BY <1>2, <1>3
<1>5. \A t \in Node : obj'[t] = IF t = s /\ s \in Child THEN obj[Father[s]] ELSE obj[t]
  BY <1>3 DEF Connect
<1> QED
  BY <1>1, <1>4, <1>5 DEF Connect

LEMMA WriteDoes ==
  ASSUME TypeOK, NEW s \in Node, Write(s)
  PROVE  /\ op[s] = "write"
         /\ \A t \in Node : op'[t] = IF t = s THEN (IF s \in Client THEN "header" ELSE "none") ELSE op[t]
         /\ \A t \in Node : obj'[t] = IF t = s THEN None ELSE obj[t]
         /\ \A t \in Node : wire'[t] = IF t = s /\ Alive(Peer(s)) THEN obj[t] ELSE wire[t]
         /\ UNCHANGED <<asked, up, told, ran, trouble>>
  BY DEF TypeOK, Write

LEMMA ReadHeaderDoes ==
  ASSUME TypeOK, NEW s \in Node, ReadHeader(s)
  PROVE  /\ op[s] = "header" /\ wire[Peer(s)] # None
         /\ \A t \in Node : op'[t] = IF t = s THEN "body" ELSE op[t]
         /\ \A t \in Node : obj'[t] = IF t = s THEN None ELSE obj[t]
         /\ UNCHANGED <<asked, wire, up, told, ran, trouble>>
  BY DEF TypeOK, ReadHeader

LEMMA AcceptDoes ==
  ASSUME TypeOK, NEW s \in Node, Accept(s)
  PROVE  /\ op[s] = "accept"
         /\ \A t \in Node : op'[t] = IF t = s THEN "header" ELSE op[t]
         /\ UNCHANGED <<asked, obj, wire, up, told, ran, trouble>>
  BY DEF TypeOK, Accept

LEMMA ReceivedDoes ==
  ASSUME TypeOK, NEW s \in Node, NEW o \in Object, Received(s, o)
  PROVE  /\ op[s] = "body" /\ wire[Peer(s)] = o
         /\ \A t \in Node : wire'[t] = IF t = Peer(s) THEN None ELSE wire[t]
  BY Peers DEF TypeOK, Received

LEMMA RespondDoes ==
  ASSUME TypeOK, NEW s \in Node, NEW o \in Object, Respond(s, o)
  PROVE  /\ \A t \in Node : op'[t] = IF t = s THEN "write" ELSE op[t]
         /\ \A t \in Node : obj'[t] = IF t = s THEN o ELSE obj[t]
  BY DEF TypeOK, Respond

LEMMA ForwardDoes ==
  ASSUME TypeOK, NEW s \in Server, NEW c \in Child, NEW o \in Object, Forward(s, c, o)
  PROVE  /\ \A t \in Node : op'[t] = IF t = s THEN "none" ELSE IF t = c THEN "connect" ELSE op[t]
         /\ \A t \in Node : obj'[t] = IF t = s THEN o ELSE obj[t]
<1>1. s # c /\ s \in Node /\ c \in Node
  BY Sides
<1> QED
  BY <1>1 DEF TypeOK, Forward

LEMMA GiveUpDoes ==
  ASSUME TypeOK, NEW s \in Node, NEW o \in Object, GiveUp(s, o)
  PROVE  /\ s \in Server /\ Received(s, o)
         /\ \A t \in Node : op'[t] = IF t = s THEN "none" ELSE op[t]
         /\ \A t \in Node : obj'[t] = IF t = s THEN o ELSE obj[t]
         /\ trouble'
         /\ UNCHANGED <<asked, up, told, ran>>
  BY DEF TypeOK, GiveUp, Server

LEMMA ChildReceivesDoes ==
  ASSUME TypeOK, NEW c \in Child, NEW o \in Object, Received(c, o), ChildReceives(c)
  PROVE  /\ \A t \in Node : op'[t] = IF t = c THEN "none" ELSE IF t = Father[c] THEN "write" ELSE op[t]
         /\ \A t \in Node : obj'[t] = IF t = c \/ t = Father[c] THEN o ELSE obj[t]
         /\ UNCHANGED <<asked, up, told, ran, trouble>>
<1>1. c \in Node /\ Father[c] \in Node /\ c # Father[c]
  BY Sides
<1>2. PICK o2 \in Object : Received(c, o2) /\ obj' = [obj EXCEPT ![c] = o2, ![Father[c]] = o2]
  BY DEF ChildReceives
<1>3. o2 = o
  BY <1>2 DEF Received
<1>4. \A t \in Node : obj'[t] = IF t = c \/ t = Father[c] THEN o ELSE obj[t]
  BY <1>1, <1>2, <1>3 DEF TypeOK
<1>5. \A t \in Node : op'[t] = IF t = c THEN "none" ELSE IF t = Father[c] THEN "write" ELSE op[t]
  BY <1>1 DEF TypeOK, ChildReceives
<1> QED
  BY <1>4, <1>5 DEF ChildReceives

LEMMA CallerReceivesDoes ==
  ASSUME TypeOK, CallerReceives
  PROVE  \E o \in Object :
           /\ Received("caller", o) /\ told' = o
           /\ \A t \in Node : op'[t] = IF t = "caller" THEN "none" ELSE op[t]
           /\ \A t \in Node : obj'[t] = IF t = "caller" THEN o ELSE obj[t]
           /\ UNCHANGED <<asked, up, ran, trouble>>
  BY Sides DEF TypeOK, CallerReceives

LEMMA StopDoes ==
  ASSUME TypeOK, NEW p \in Process, Stop(p)
  PROVE  /\ \A t \in Node : op'[t] = IF Home[t] = p THEN "none" ELSE op[t]
         /\ \A q \in Process : up'[q] = (up[q] /\ q # p)
         /\ \A t \in Node : \/ wire'[t] = wire[t]
                            \/ wire'[t] = None /\ Home[t] = p /\ Alive(t)
                            \/ wire'[t] = "header" /\ Home[t] = p /\ op[t] = "write"
         /\ up' \in [Process -> BOOLEAN]
         /\ op' \in [Node -> Operation]
         /\ wire' \in [Node -> Object \cup {None, "header"}]
<1>1. PICK lost \in SUBSET {s \in Node : Home[s] = p /\ Alive(s)},
           cut \in SUBSET {s \in Node : Home[s] = p /\ op[s] = "write"} :
        wire' = [s \in Node |-> IF s \in cut THEN "header"
                                   ELSE IF s \in lost THEN None ELSE wire[s]]
  BY DEF Stop
<1>2. \A t \in Node : \/ wire'[t] = wire[t]
                      \/ wire'[t] = None /\ Home[t] = p /\ Alive(t)
                      \/ wire'[t] = "header" /\ Home[t] = p /\ op[t] = "write"
  BY <1>1
<1>3. wire' \in [Node -> Object \cup {None, "header"}]
  BY <1>1 DEF TypeOK
<1>4. op' = [s \in Node |-> IF Home[s] = p THEN "none" ELSE op[s]]
  BY DEF Stop
<1>5. op' \in [Node -> Operation] /\ \A t \in Node : op'[t] = IF Home[t] = p THEN "none" ELSE op[t]
  BY <1>4 DEF TypeOK, Operation
<1>6. up' \in [Process -> BOOLEAN] /\ \A q \in Process : up'[q] = (up[q] /\ q # p)
  BY DEF Stop, TypeOK
<1> QED
  BY <1>2, <1>3, <1>5, <1>6

\* An error ends the session, and nothing else, unless it takes the caller's
\* process with it.
LEMMA FailDoes ==
  ASSUME TypeOK, NEW s \in Node, Fail(s)
  PROVE  /\ UNCHANGED <<asked, obj, ran, trouble>>
         /\ \/ /\ UNCHANGED <<wire, up>> /\ op' \in [Node -> Operation]
               /\ \A t \in Node : op'[t] = IF t = s THEN "none" ELSE op[t]
               /\ \/ s # "caller" /\ told' = told
                  \/ s = "caller" /\ told' = "own" /\ obj["caller"] # None
                  \/ s = "caller" /\ told' = "nullptr"
            \/ s = "caller" /\ told' = "broken" /\ Stop(Home["caller"])
<1>1. CASE s # "caller"
  BY <1>1 DEF TypeOK, Fail, Operation
<1>2. CASE s = "caller"
  <2>1. CallerFails /\ UNCHANGED <<asked, obj, ran, trouble>>
    BY <1>2 DEF Fail
  <2>2. \/ told' = "broken" \/ told' = "nullptr"
        \/ told' = "own" /\ obj["caller"] # None
    BY <2>1 DEF CallerFails
  <2>3. CASE told' = "broken"
    BY <2>1, <2>3, <1>2 DEF CallerFails
  <2>4. CASE told' # "broken"
    BY <2>1, <2>2, <2>4, <1>2 DEF CallerFails, TypeOK, Operation
  <2> QED
    BY <2>3, <2>4
<1> QED
  BY <1>1, <1>2

-----------------------------------------------------------------------------
(* The type invariant.                                                     *)

Typed ==
  /\ asked \in Kind \cup {None}
  /\ op \in [Node -> Operation]
  /\ obj \in [Node -> Object \cup {None}]
  /\ wire \in [Node -> Object \cup {None, "header"}]
  /\ up \in [Process -> BOOLEAN]
  /\ told \in Object \cup {None, "own", "broken", "nullptr"}
  /\ ran \in Nat /\ trouble \in BOOLEAN

Roles ==
  /\ \A s \in Server : op[s] # "connect"
  /\ \A c \in Client : op[c] # "accept"

Running == \A s \in Node : op[s] # "none" => up[Home[s]]

Recorded == op["caller"] = "none" <=> asked = None \/ told # None

\* It falls into four parts, each of which a step may disturb.
LEMMA TypeParts == TypeOK <=> Typed /\ Roles /\ Running /\ Recorded
  BY DEF TypeOK, Typed, Roles, Running, Recorded

LEMMA Words ==
  /\ Kind \subseteq Object /\ None \notin Kind /\ None \notin Object
  /\ \A o \in Object : o # "header" /\ o # "own" /\ o # "broken" /\ o # "nullptr"
  /\ None # "header" /\ None # "own" /\ None # "broken" /\ None # "nullptr"
  BY NoneIsNothing DEF Object, Kind

\* Each step keeps it.  A call begins with nothing told of the call before.
LEMMA CallType ==
  ASSUME TypeOK, told = None, NEW kind \in Kind, Call(kind)
  PROVE  TypeOK'
<1> USE TypeParts, Sides, Peers, CallDoes
<1>1. Typed'
  BY Words DEF Typed, Operation, Call
<1>2. Roles'
  BY <1>1 DEF Roles, Typed, Call
<1>3. Running'
  BY <1>1, HomeOfAll, ChildAtHome DEF Running, Typed, Call
<1>4. Recorded'
  BY <1>1, Words DEF Recorded, Typed, Call
<1> QED
  BY <1>1, <1>2, <1>3, <1>4 DEF TypeOK, Typed, Roles, Running, Recorded

LEMMA ReturnType ==
  ASSUME TypeOK, Return
  PROVE  TypeOK'
<1> USE TypeParts, Sides, Peers
<1>1. Typed'
  BY Words DEF Typed, Operation, Return
<1>2. Roles'
  BY <1>1 DEF Roles, Typed, Return, Quiet
<1>3. Running'
  BY <1>1, HomeOfAll, ChildAtHome DEF Running, Typed, Return, Quiet
<1>4. Recorded'
  BY <1>1, Words DEF Recorded, Typed, Return, Quiet
<1> QED
  BY <1>1, <1>2, <1>3, <1>4 DEF TypeOK, Typed, Roles, Running, Recorded

LEMMA CrashType ==
  ASSUME TypeOK, NEW p \in Process, Crash(p)
  PROVE  TypeOK'
<1> USE TypeParts, Sides, Peers, StopDoes
<1>1. Typed'
  BY Words DEF Typed, Operation, Crash
<1>2. Roles'
  BY <1>1 DEF Roles, Typed, Crash
<1>3. Running'
  BY <1>1, HomeOfAll, ChildAtHome DEF Running, Typed, Crash
<1>4. Recorded'
  BY <1>1, Words DEF Recorded, Typed, Crash
<1> QED
  BY <1>1, <1>2, <1>3, <1>4 DEF TypeOK, Typed, Roles, Running, Recorded

LEMMA RestartType ==
  ASSUME TypeOK, NEW p \in Process, Restart(p)
  PROVE  TypeOK'
<1> USE TypeParts, Sides, Peers
<1>1. Typed'
  BY Words DEF Typed, Operation, Restart
<1>2. Roles'
  BY <1>1 DEF Roles, Typed, Restart
<1>3. Running'
  BY <1>1, HomeOfAll, ChildAtHome DEF Running, Typed, Restart
<1>4. Recorded'
  BY <1>1, Words DEF Recorded, Typed, Restart
<1> QED
  BY <1>1, <1>2, <1>3, <1>4 DEF TypeOK, Typed, Roles, Running, Recorded

LEMMA ConnectType ==
  ASSUME TypeOK, NEW s \in Node, Connect(s)
  PROVE  TypeOK'
<1> USE TypeParts, Sides, Peers, ConnectDoes
<1>1. Typed'
  BY Words DEF Typed, Operation, Connect
<1>2. Roles'
  BY <1>1 DEF Roles, Typed
<1>3. Running'
  BY <1>1, HomeOfAll, ChildAtHome DEF Running, Typed
<1>4. Recorded'
  BY <1>1, Words DEF Recorded, Typed
<1> QED
  BY <1>1, <1>2, <1>3, <1>4 DEF TypeOK, Typed, Roles, Running, Recorded

LEMMA AcceptType ==
  ASSUME TypeOK, NEW s \in Node, Accept(s)
  PROVE  TypeOK'
<1> USE TypeParts, Sides, Peers, AcceptDoes
<1>1. Typed'
  BY Words DEF Typed, Operation, Accept
<1>2. Roles'
  BY <1>1 DEF Roles, Typed
<1>3. Running'
  BY <1>1, HomeOfAll, ChildAtHome DEF Running, Typed
<1>4. Recorded'
  BY <1>1, Words DEF Recorded, Typed
<1> QED
  BY <1>1, <1>2, <1>3, <1>4 DEF TypeOK, Typed, Roles, Running, Recorded

LEMMA WriteType ==
  ASSUME TypeOK, NEW s \in Node, Write(s)
  PROVE  TypeOK'
<1> USE TypeParts, Sides, Peers, WriteDoes
<1>1. Typed'
  BY Words DEF Typed, Operation, Write
<1>2. Roles'
  BY <1>1 DEF Roles, Typed
<1>3. Running'
  BY <1>1, HomeOfAll, ChildAtHome DEF Running, Typed
<1>4. Recorded'
  BY <1>1, Words DEF Recorded, Typed
<1> QED
  BY <1>1, <1>2, <1>3, <1>4 DEF TypeOK, Typed, Roles, Running, Recorded

LEMMA ReadHeaderType ==
  ASSUME TypeOK, NEW s \in Node, ReadHeader(s)
  PROVE  TypeOK'
<1> USE TypeParts, Sides, Peers, ReadHeaderDoes
<1>1. Typed'
  BY Words DEF Typed, Operation, ReadHeader
<1>2. Roles'
  BY <1>1 DEF Roles, Typed
<1>3. Running'
  BY <1>1, HomeOfAll, ChildAtHome DEF Running, Typed
<1>4. Recorded'
  BY <1>1, Words DEF Recorded, Typed
<1> QED
  BY <1>1, <1>2, <1>3, <1>4 DEF TypeOK, Typed, Roles, Running, Recorded

LEMMA ChildReceivesType ==
  ASSUME TypeOK, NEW c \in Child, NEW o \in Object, Received(c, o), ChildReceives(c)
  PROVE  TypeOK'
<1> USE TypeParts, Sides, Peers, ReceivedDoes, ChildReceivesDoes
<1>1. Typed'
  BY Words DEF Typed, Operation, ChildReceives, Received
<1>2. Roles'
  BY <1>1 DEF Roles, Typed
<1>3. Running'
  BY <1>1, HomeOfAll, ChildAtHome DEF Running, Typed
<1>4. Recorded'
  BY <1>1, Words DEF Recorded, Typed
<1> QED
  BY <1>1, <1>2, <1>3, <1>4 DEF TypeOK, Typed, Roles, Running, Recorded

LEMMA CallerReceivesType ==
  ASSUME TypeOK, CallerReceives
  PROVE  TypeOK'
<1> USE TypeParts, Sides, Peers, ReceivedDoes, CallerReceivesDoes
<1>1. Typed'
  BY Words DEF Typed, Operation, CallerReceives, Received
<1>2. Roles'
  BY <1>1 DEF Roles, Typed
<1>3. Running'
  BY <1>1, HomeOfAll, ChildAtHome DEF Running, Typed
<1>4. Recorded'
  BY <1>1, Words DEF Recorded, Typed
<1> QED
  BY <1>1, <1>2, <1>3, <1>4 DEF TypeOK, Typed, Roles, Running, Recorded

LEMMA FailType ==
  ASSUME TypeOK, NEW s \in Node, Fail(s), op[s] # "none"
  PROVE  TypeOK'
<1> USE TypeParts, Sides
<1>1. CASE told' = "broken" /\ Stop(Home["caller"])
  <2>1. op["caller"] # "none" => told = None /\ asked # None
    BY DEF Recorded
  <2>2. Typed'
    BY <1>1, FailDoes, StopDoes, HomeOfAll DEF Typed
  <2>3. Roles'
    BY <1>1, <2>2, StopDoes, HomeOfAll DEF Roles, Typed
  <2>4. Running'
    BY <1>1, <2>2, StopDoes, HomeOfAll DEF Running, Typed
  <2>5. Recorded'
    BY <1>1, <2>2, StopDoes, HomeOfAll, FailDoes, Words DEF Recorded, Typed
  <2> QED
    BY <2>2, <2>3, <2>4, <2>5 DEF TypeOK, Typed, Roles, Running, Recorded
<1>2. CASE ~(told' = "broken" /\ Stop(Home["caller"]))
  <2>1. /\ UNCHANGED <<asked, obj, wire, up, ran, trouble>>
        /\ \A t \in Node : op'[t] = IF t = s THEN "none" ELSE op[t]
        /\ op' \in [Node -> Operation]
        /\ \/ s # "caller" /\ told' = told
           \/ s = "caller" /\ told' \in {"own", "nullptr"}
    BY <1>2, FailDoes
  <2>2. Typed'
    BY <2>1 DEF Typed
  <2>3. Roles'
    BY <2>1 DEF Roles, Typed
  <2>4. Running'
    BY <2>1, HomeOfAll DEF Running, Typed
  <2>5. Recorded'
    BY <2>1, Words DEF Recorded, Typed
  <2> QED
    BY <2>2, <2>3, <2>4, <2>5 DEF TypeOK, Typed, Roles, Running, Recorded
<1> QED
  BY <1>1, <1>2

\* A server that has an object in whole answers it, or sends it on.
LEMMA AnswerType ==
  ASSUME TypeOK, NEW s \in Server, NEW o \in Object, NEW r \in Object, Received(s, o), Respond(s, r),
         ran' = ran \/ ran' = ran + 1, UNCHANGED <<asked, up, told, trouble>>
  PROVE  TypeOK'
<1> USE TypeParts, Sides, Peers, ReceivedDoes, RespondDoes
<1>1. Typed'
  BY Words DEF Typed, Operation, Received, Respond
<1>2. Roles'
  BY <1>1 DEF Roles, Typed
<1>3. Running'
  BY <1>1, HomeOfAll, ChildAtHome DEF Running, Typed
<1>4. Recorded'
  BY <1>1, Words DEF Recorded, Typed
<1> QED
  BY <1>1, <1>2, <1>3, <1>4 DEF TypeOK, Typed, Roles, Running, Recorded

LEMMA ForwardType ==
  ASSUME TypeOK, NEW s \in Server, NEW c \in Child, NEW o \in Object,
         Father[c] = s, Received(s, o), Forward(s, c, o),
         UNCHANGED <<asked, up, told, ran, trouble>>
  PROVE  TypeOK'
<1> USE TypeParts, Sides, Peers, ReceivedDoes, ForwardDoes
<1>1. Typed'
  BY Words DEF Typed, Operation, Received, Forward
<1>2. Roles'
  BY <1>1 DEF Roles, Typed
<1>3. Running'
  BY <1>1, HomeOfAll, ChildAtHome DEF Running, Typed
<1>4. Recorded'
  BY <1>1, Words DEF Recorded, Typed
<1> QED
  BY <1>1, <1>2, <1>3, <1>4 DEF TypeOK, Typed, Roles, Running, Recorded

LEMMA GiveUpType ==
  ASSUME TypeOK, NEW s \in Node, NEW o \in Object, GiveUp(s, o)
  PROVE  TypeOK'
<1> USE TypeParts, Sides, Peers, GiveUpDoes, ReceivedDoes
<1>1. Typed'
  BY Words DEF Typed, Operation, GiveUp, Received
<1>2. Roles'
  BY <1>1 DEF Roles, Typed
<1>3. Running'
  BY <1>1, HomeOfAll, ChildAtHome DEF Running, Typed
<1>4. Recorded'
  BY <1>1, Words DEF Recorded, Typed
<1> QED
  BY <1>1, <1>2, <1>3, <1>4 DEF TypeOK, Typed, Roles, Running, Recorded

-----------------------------------------------------------------------------
(* The safety invariant.  The sessions of a call stand in a row, and the   *)
(* call goes down the row and comes back: what lies past the session that  *)
(* has it now is untouched on the way down, and done on the way back.      *)

Place == [s \in Node |-> IF s = "caller" THEN 0 ELSE IF s = "loki" THEN 1
                         ELSE IF s = "tokartos" THEN 2 ELSE IF s = "kartos" THEN 3
                         ELSE IF s = "toservice" THEN 4 ELSE 5]

Untouched(t) == op[t] = "none" /\ wire[t] = None

Idle == asked = None => told = None /\ ran = 0 /\ \A t \in Node : Untouched(t)

\* A call that goes straight to the service, or no further than Loki.
OffTheWay ==
  /\ asked = "keepalive" => \A t \in Node : 0 < Place[t] /\ Place[t] < 5 => Untouched(t)
  /\ asked \in {"register", "traced"} => \A t \in Node : Place[t] > 1 => Untouched(t)

Connecting ==
  \A c \in Client : op[c] = "connect" =>
    ran = 0 /\ wire[c] = None /\ \A t \in Node : Place[t] > Place[c] => Untouched(t)

Asking ==
  \A c \in Client : op[c] = "write" =>
    /\ ran = 0 /\ wire[c] = None
    /\ op[Peer(c)] \in {"none", "accept", "header"} /\ wire[Peer(c)] = None
    /\ \A t \in Node : Place[t] > Place[Peer(c)] => Untouched(t)

Hearing ==
  \A s \in Server : op[s] \in {"accept", "header", "body"} =>
    ran = 0 /\ wire[s] = None /\ \A t \in Node : Place[t] > Place[s] => Untouched(t)

Replying ==
  \A s \in Server :
    /\ op[s] = "write" => wire[s] = None
    /\ wire[s] # None => op[s] = "none"
    /\ op[s] = "write" \/ wire[s] # None => \A t \in Node : Place[t] > Place[s] => op[t] = "none"

Settled == told \in Object \cup {"own"} => Quiet

\* What a session may have to tell its caller.
Answering(kind, o, r) ==
  \/ kind \in {"register", "keepalive"} /\ o = kind /\ r = 1
  \/ kind = "request" /\ o = "reply" /\ r = 1
  \/ kind = "request" /\ o \in {"no service", "request"} /\ r = 0

Requests ==
  /\ \A c \in Client : op[c] = "write" => obj[c] = asked
  /\ \A c \in Client : wire[c] \in {None, "header", asked}
  /\ \A c \in Child : op[c] = "connect" => obj[Father[c]] = asked
  /\ op["caller"] = "connect" => obj["caller"] = asked
  /\ op["caller"] \in {"header", "body"} => obj["caller"] = None

Replies ==
  /\ \A s \in Server : op[s] = "write" => Answering(asked, obj[s], ran)
  /\ \A s \in Server : wire[s] \in Object => Answering(asked, wire[s], ran)
  /\ told \in Object => Answering(asked, told, ran)

Links ==
  asked # None /\ ~trouble =>
    /\ \A p \in Process : up[p]
    /\ \A c \in Client : op[c] \in {"write", "header", "body"} =>
         Alive(Peer(c)) \/ wire[Peer(c)] \in Object

Inv ==
  /\ TypeOK /\ Idle /\ OffTheWay /\ Connecting /\ Asking /\ Hearing /\ Replying
  /\ Settled /\ Requests /\ Replies /\ Links /\ ObjectInHand /\ BrokenForAReason

\* The row, and the way of a call through it.
LEMMA Order ==
  /\ \A s \in Node : Place[s] \in Nat /\ Place[s] < 6
  /\ \A s, t \in Node : Place[s] = Place[t] => s = t
  /\ \A s \in Server : Place[s] \in {1, 3, 5}
  /\ \A c \in Client : Place[c] \in {0, 2, 4}
  /\ Place["caller"] = 0
  /\ \A c \in Child : Place[c] = Place[Father[c]] + 1 /\ Place[c] > 1
<1>1. \A s \in Node : <<s, Place[s]>> \in {<<"caller", 0>>, <<"loki", 1>>, <<"tokartos", 2>>,
                                       <<"kartos", 3>>, <<"toservice", 4>>, <<"service", 5>>}
  BY DEF Node, Client, Server, Place
<1>2. "caller" \in Node /\ Server \subseteq Node /\ Client \subseteq Node
  BY DEF Node, Client
<1>3. \A s \in Server : s \in {"loki", "kartos", "service"}
  BY DEF Server
<1>4. \A c \in Client : c \in {"caller", "tokartos", "toservice"}
  BY DEF Client
<1>5. \A c \in Child : /\ c \in Node /\ Father[c] \in Node
                      /\ <<c, Father[c]>> \in {<<"tokartos", "loki">>, <<"toservice", "kartos">>}
  BY DEF Child, Father, Node, Client, Server
<1> QED
  BY <1>1, <1>2, <1>3, <1>4, <1>5

LEMMA Ways ==
  /\ \A c \in Client : asked # "keepalive" \/ c \in Child => Place[Peer(c)] = Place[c] + 1
  /\ asked = "keepalive" => Place[Peer("caller")] = 5
  /\ \A s \in Server : asked # "keepalive" \/ Place[s] < 5 => Place[Peer(s)] = Place[s] - 1
  /\ \A s \in Server : asked = "keepalive" /\ Place[s] = 5 => Peer(s) = "caller"
  /\ \A c \in Client : asked # "keepalive" \/ c = "caller" => Peer(Peer(c)) = c
  BY DEF Place, Peer, Client, Server, Node, Child

-----------------------------------------------------------------------------
(* Each step keeps the safety invariant.                                   *)

LEMMA AcceptStep ==
  ASSUME Inv, NEW s \in Node, Accept(s)
  PROVE  Inv'
<1> USE Sides, Peers, Order, Ways, AcceptDoes DEF Inv, Untouched, Typed, Roles
<1>1. TypeOK'
  BY AcceptType
<1>2. Typed /\ Roles
  BY TypeParts
<1>3. \A t \in Node : Peer(t)' = Peer(t)
  BY DEF Peer
<1>4. Idle' /\ OffTheWay' /\ Settled' /\ BrokenForAReason'
  BY <1>2 DEF Idle, OffTheWay, Requests, Settled, Quiet, Replying, BrokenForAReason, Links
<1>5. Connecting' /\ Hearing'
  BY <1>2 DEF Connecting, Idle, OffTheWay, Hearing
<1>6. Asking'
  BY <1>2, <1>3 DEF Asking, Connecting, Hearing, OffTheWay, Idle
<1>7. Replying'
  BY <1>2 DEF Replying, Connecting, Hearing, OffTheWay
<1>8. Requests' /\ ObjectInHand'
  BY <1>2 DEF Requests, ObjectInHand, Idle, Connecting, Hearing
<1>9. Replies'
  BY <1>2 DEF Replies, Hearing, Replying, Settled, Quiet, Idle
<1>10. Links'
  BY <1>2, <1>3 DEF Links, Alive, Idle, OffTheWay, ObjectInHand
<1> QED
  BY <1>1, <1>4, <1>5, <1>6, <1>7, <1>8, <1>9, <1>10 DEF Inv

LEMMA ReadHeaderStep ==
  ASSUME Inv, NEW s \in Node, ReadHeader(s)
  PROVE  Inv'
<1> USE Sides, Peers, Order, Ways, ReadHeaderDoes DEF Inv, Untouched, Typed, Roles
<1>1. TypeOK'
  BY ReadHeaderType
<1>2. Typed /\ Roles
  BY TypeParts
<1>3. \A t \in Node : Peer(t)' = Peer(t)
  BY DEF Peer
<1>4. Idle' /\ OffTheWay' /\ Settled' /\ BrokenForAReason'
  BY <1>2 DEF Idle, OffTheWay, Requests, Settled, Quiet, Replying, BrokenForAReason, Links
<1>5. Connecting' /\ Hearing'
  BY <1>2 DEF Connecting, Idle, OffTheWay, Hearing
<1>6. Asking'
  BY <1>2, <1>3 DEF Asking, Connecting, Hearing, OffTheWay, Idle
<1>7. Replying'
  BY <1>2 DEF Replying, Connecting, Hearing, OffTheWay
<1>8. Requests'
  BY <1>2 DEF Requests, ObjectInHand, Idle
<1>9. ObjectInHand'
  BY <1>2 DEF ObjectInHand, Connecting, Hearing
<1>10. Replies'
  BY <1>2 DEF Replies, Hearing, Replying, Settled, Quiet, Idle
<1>11. Links'
  BY <1>2, <1>3 DEF Links, Alive, Idle, OffTheWay, ObjectInHand
<1> QED
  BY <1>1, <1>4, <1>5, <1>6, <1>7, <1>8, <1>9, <1>10, <1>11 DEF Inv

LEMMA WriteStep ==
  ASSUME Inv, NEW s \in Node, Write(s)
  PROVE  Inv'
<1> USE Sides, Peers, Order, Ways, WriteDoes DEF Inv, Untouched, Typed, Roles
<1>1. TypeOK'
  BY WriteType
<1>2. Typed /\ Roles
  BY TypeParts
<1>3. \A t \in Node : Peer(t)' = Peer(t)
  BY DEF Peer
<1>4. Idle' /\ OffTheWay' /\ Settled' /\ BrokenForAReason'
  BY <1>2 DEF Idle, OffTheWay, Requests, Settled, Quiet, Replying, BrokenForAReason, Links
<1>5. Connecting' /\ Hearing'
  BY <1>2 DEF Connecting, Idle, OffTheWay, Hearing
<1>6. Asking'
  BY <1>2, <1>3 DEF Asking, Connecting, Hearing, OffTheWay, Idle
<1>7. Replying'
  BY <1>2 DEF Replying, Connecting, Hearing, OffTheWay
<1>8. Requests' /\ ObjectInHand'
  BY <1>2 DEF Requests, ObjectInHand, Idle, Connecting, Hearing
<1>9. Replies'
  BY <1>2 DEF Replies, Hearing, Replying, Settled, Quiet, Idle
<1>10. Links'
  BY <1>2, <1>3 DEF Links, Alive, Idle, OffTheWay, ObjectInHand
<1> QED
  BY <1>1, <1>4, <1>5, <1>6, <1>7, <1>8, <1>9, <1>10 DEF Inv

LEMMA ConnectStep ==
  ASSUME Inv, NEW s \in Node, Connect(s)
  PROVE  Inv'
<1> USE Sides, Peers, Order, Ways, ConnectDoes, Words DEF Inv, Untouched, Typed, Roles
<1>1. TypeOK'
  BY ConnectType
<1>2. Typed /\ Roles
  BY TypeParts
<1>3. \A t \in Node : Peer(t)' = Peer(t)
  BY DEF Peer
<1>4. Idle' /\ OffTheWay' /\ Settled' /\ BrokenForAReason'
  BY <1>2 DEF Idle, OffTheWay, Requests, Settled, Quiet, Replying, BrokenForAReason, Links
<1>5. Connecting' /\ Hearing'
  BY <1>2 DEF Connecting, Idle, OffTheWay, Hearing
<1>6. Asking'
  BY <1>2, <1>3 DEF Asking, Connecting, Hearing, OffTheWay, Idle
<1>7. Replying'
  BY <1>2 DEF Replying, Connecting, Hearing, OffTheWay
<1>8. Requests' /\ ObjectInHand'
  BY <1>2 DEF Requests, ObjectInHand, Idle, Connecting
<1>9. Replies'
  BY <1>2 DEF Replies, Hearing, Replying, Settled, Quiet, Idle
<1>10. Links'
  BY <1>2, <1>3 DEF Links, Alive, Idle, OffTheWay, ObjectInHand
<1> QED
  BY <1>1, <1>4, <1>5, <1>6, <1>7, <1>8, <1>9, <1>10 DEF Inv

LEMMA CallStep ==
  ASSUME Inv, NEW kind \in Kind, Call(kind)
  PROVE  Inv'
<1> USE Sides, Peers, Order, Ways, Words, CallDoes DEF Inv, Untouched, Typed, Roles
<1>1. TypeOK'
  BY CallType DEF Idle
<1>2. Typed /\ Roles
  BY TypeParts
<1>4. Idle' /\ OffTheWay' /\ Settled' /\ BrokenForAReason'
  BY <1>2 DEF Idle, OffTheWay, Requests, Settled, Quiet, Replying, BrokenForAReason, Links
<1>5. Connecting' /\ Hearing'
  BY <1>2 DEF Connecting, Idle, OffTheWay, Hearing
<1>6. Asking'
  BY <1>2 DEF Asking, Connecting, Hearing, OffTheWay, Idle
<1>7. Replying'
  BY <1>2 DEF Replying, Connecting, Hearing, OffTheWay
<1>8. Requests' /\ ObjectInHand'
  BY <1>2 DEF Requests, ObjectInHand, Idle, Connecting, Hearing
<1>9. Replies'
  BY <1>2 DEF Replies, Hearing, Replying, Settled, Quiet, Idle
<1>10. Links'
  BY <1>2 DEF Links, Idle, Call
<1> QED
  BY <1>1, <1>4, <1>5, <1>6, <1>7, <1>8, <1>9, <1>10 DEF Inv

LEMMA ReturnStep ==
  ASSUME Inv, Return
  PROVE  Inv'
<1> USE Sides, Peers, Order, Ways, Words, ReturnDoes DEF Inv, Untouched, Typed, Roles
<1>1. TypeOK'
  BY ReturnType
<1>2. Typed /\ Roles
  BY TypeParts
<1>4. Idle' /\ OffTheWay' /\ Settled' /\ BrokenForAReason'
  BY <1>2 DEF Idle, OffTheWay, Requests, Settled, Quiet, Replying, BrokenForAReason, Links
<1>5. Connecting' /\ Hearing'
  BY <1>2 DEF Connecting, Idle, OffTheWay, Hearing
<1>6. Asking'
  BY <1>2 DEF Asking, Connecting, Hearing, OffTheWay, Idle
<1>7. Replying'
  BY <1>2 DEF Replying, Connecting, Hearing, OffTheWay
<1>8. Requests' /\ ObjectInHand'
  BY <1>2 DEF Requests, ObjectInHand, Idle, Connecting, Hearing
<1>9. Replies'
  BY <1>2 DEF Replies, Hearing, Replying, Settled, Quiet, Idle
<1>10. Links'
  BY <1>2 DEF Links, Alive, Idle, OffTheWay, ObjectInHand
<1> QED
  BY <1>1, <1>4, <1>5, <1>6, <1>7, <1>8, <1>9, <1>10 DEF Inv

LEMMA RestartStep ==
  ASSUME Inv, NEW p \in Process, Restart(p)
  PROVE  Inv'
<1> USE Sides, Peers, Order, Ways DEF Inv, Untouched, Typed, Roles
<1>1. TypeOK'
  BY RestartType
<1>2. Typed /\ Roles
  BY TypeParts
<1>3. \A t \in Node : Peer(t)' = Peer(t)
  BY DEF Peer, Restart
<1>4. Idle' /\ OffTheWay' /\ Settled' /\ BrokenForAReason'
  BY <1>2 DEF Idle, Restart, OffTheWay, Requests, Settled, Quiet, Replying, BrokenForAReason, Links
<1>5. Connecting' /\ Hearing'
  BY <1>2 DEF Connecting, Idle, OffTheWay, Hearing, Restart
<1>6. Asking'
  BY <1>2, <1>3 DEF Asking, Connecting, Hearing, OffTheWay, Idle, Restart
<1>7. Replying'
  BY <1>2 DEF Replying, Connecting, Hearing, OffTheWay, Restart
<1>8. Requests' /\ ObjectInHand'
  BY <1>2 DEF Requests, ObjectInHand, Idle, Restart, Connecting, Hearing
<1>9. Replies'
  BY <1>2 DEF Replies, Hearing, Replying, Settled, Quiet, Idle, Restart
<1>10. Links'
  BY <1>2, <1>3 DEF Links, Alive, Idle, OffTheWay, ObjectInHand, Restart
<1> QED
  BY <1>1, <1>4, <1>5, <1>6, <1>7, <1>8, <1>9, <1>10 DEF Inv

LEMMA GiveUpStep ==
  ASSUME Inv, NEW s \in Node, NEW o \in Object, GiveUp(s, o)
  PROVE  Inv'
<1> USE Sides, Peers, Order, Ways, GiveUpDoes, ReceivedDoes DEF Inv, Untouched, Typed, Roles
<1>1. TypeOK'
  BY GiveUpType
<1>2. Typed /\ Roles
  BY TypeParts
<1>3. \A t \in Node : Peer(t)' = Peer(t)
  BY DEF Peer
<1>4. Idle' /\ OffTheWay' /\ Settled' /\ BrokenForAReason'
  BY <1>2 DEF Idle, OffTheWay, Requests, Settled, Quiet, Replying, BrokenForAReason, Links
<1>5. Connecting' /\ Hearing'
  BY <1>2 DEF Connecting, Idle, OffTheWay, Hearing
<1>6. Asking'
  BY <1>2, <1>3 DEF Asking, Connecting, Hearing, OffTheWay, Idle
<1>7. Replying'
  BY <1>2 DEF Replying, Connecting, Hearing, OffTheWay
<1>8. Requests' /\ ObjectInHand'
  BY <1>2 DEF Requests, ObjectInHand, Idle, Connecting, Hearing
<1>9. Replies'
  BY <1>2 DEF Replies, Hearing, Replying, Settled, Quiet, Idle
<1>10. Links'
  BY <1>2, <1>3 DEF Links, Alive, Idle, OffTheWay, ObjectInHand
<1> QED
  BY <1>1, <1>4, <1>5, <1>6, <1>7, <1>8, <1>9, <1>10 DEF Inv

LEMMA AnswerStep ==
  ASSUME Inv, NEW s \in Server, NEW o \in Object, NEW r \in Object, Received(s, o), Respond(s, r),
         Answering(asked, r, ran'), ran' = ran \/ ran' = ran + 1, UNCHANGED <<asked, up, told, trouble>>
  PROVE  Inv'
<1> USE Sides, Peers, Order, Ways, Words, ReceivedDoes, RespondDoes DEF Inv, Untouched, Typed, Roles
<1>1. TypeOK'
  BY AnswerType
<1>2. Typed /\ Roles
  BY TypeParts
<1>3. \A t \in Node : Peer(t)' = Peer(t)
  BY DEF Peer
<1>4. \A t \in Server : t # s => op[t] # "write" /\ wire[t] \notin Object
  BY <1>2 DEF Hearing, Replying, Untouched
<1>5. Idle' /\ OffTheWay' /\ Settled' /\ BrokenForAReason'
  BY <1>2, <1>4 DEF Idle, OffTheWay, Requests, Settled, Quiet, Replying, BrokenForAReason, Links
<1>6. Connecting' /\ Hearing'
  BY <1>2, <1>4 DEF Connecting, Idle, OffTheWay, Hearing
<1>7. Asking'
  BY <1>2, <1>4, <1>3 DEF Asking, Connecting, Hearing, OffTheWay, Idle
<1>8. Replying'
  BY <1>2, <1>4 DEF Replying, Connecting, Hearing, OffTheWay
<1>9. Requests' /\ ObjectInHand'
  BY <1>2, <1>4 DEF Requests, ObjectInHand, Idle, Connecting, Hearing
<1>10. Replies'
  BY <1>2, <1>4 DEF Replies, Hearing, Replying, Settled, Quiet, Idle
<1>11. Links'
  BY <1>2, <1>4, <1>3 DEF Links, Alive, Idle, OffTheWay, ObjectInHand
<1> QED
  BY <1>1, <1>5, <1>6, <1>7, <1>8, <1>9, <1>10, <1>11 DEF Inv

LEMMA ForwardStep ==
  ASSUME Inv, NEW s \in Server, NEW c \in Child,
         Father[c] = s, Received(s, "request"), Forward(s, c, "request"),
         UNCHANGED <<asked, up, told, ran, trouble>>
  PROVE  Inv'
<1> USE Sides, Peers, Order, Ways, Words DEF Inv, Untouched, Typed, Roles
<1>1. TypeOK'
  BY ForwardType, Names
<1>2. Typed /\ Roles
  BY TypeParts
<1>3. \A t \in Node : Peer(t)' = Peer(t)
  BY DEF Peer
<1>4. s \in Node /\ c \in Node /\ "request" \in Object
  BY Names
<1>5. op[s] = "body" /\ wire[Peer(s)] = "request"
  BY <1>4, ReceivedDoes
<1>6. \A t \in Node : wire'[t] = IF t = Peer(s) THEN None ELSE wire[t]
  BY <1>4, ReceivedDoes
<1>7. \A t \in Node : op'[t] = IF t = s THEN "none" ELSE IF t = c THEN "connect" ELSE op[t]
  BY <1>4, ForwardDoes
<1>8. \A t \in Node : obj'[t] = IF t = s THEN "request" ELSE obj[t]
  BY <1>4, ForwardDoes
<1>9. asked = "request"
  BY <1>2, <1>4, <1>5 DEF Requests
<1>10. Idle' /\ OffTheWay' /\ Settled' /\ BrokenForAReason'
  BY <1>2, <1>4, <1>5, <1>6, <1>7, <1>8, <1>9
     DEF Idle, OffTheWay, Requests, Settled, Quiet, Replying, BrokenForAReason, Links
<1>11. Connecting'
  BY <1>2, <1>4, <1>5, <1>6, <1>7, <1>8, <1>9 DEF Connecting, Idle, OffTheWay, Hearing
<1>12. Hearing'
  BY <1>2, <1>4, <1>5, <1>6, <1>7, <1>8, <1>9 DEF Hearing, Connecting, OffTheWay, Idle
<1>13. Asking'
  BY <1>2, <1>4, <1>5, <1>6, <1>7, <1>8, <1>9, <1>3 DEF Asking, Connecting, Hearing, OffTheWay, Idle
<1>14. Replying'
  BY <1>2, <1>4, <1>5, <1>6, <1>7, <1>8, <1>9 DEF Replying, Connecting, Hearing, OffTheWay
<1>15. Requests'
  BY <1>2, <1>4, <1>5, <1>6, <1>7, <1>8, <1>9 DEF Requests, ObjectInHand, Idle
<1>16. ObjectInHand'
  BY <1>2, <1>4, <1>5, <1>6, <1>7, <1>8, <1>9 DEF ObjectInHand, Connecting, Hearing
<1>17. Replies'
  BY <1>2, <1>4, <1>5, <1>6, <1>7, <1>8, <1>9 DEF Replies, Hearing, Replying, Settled, Quiet, Idle
<1>18. Links'
  BY <1>2, <1>4, <1>5, <1>6, <1>7, <1>8, <1>9, <1>3 DEF Links, Alive, Idle, OffTheWay, ObjectInHand
<1> QED
  BY <1>1, <1>10, <1>11, <1>12, <1>13, <1>14, <1>15, <1>16, <1>17, <1>18 DEF Inv

LEMMA ChildReceivesStep ==
  ASSUME Inv, NEW c \in Child, NEW o \in Object, Received(c, o), ChildReceives(c)
  PROVE  Inv'
<1> USE Sides, Peers, Order, Ways, Words, ReceivedDoes, ChildReceivesDoes DEF Inv, Untouched, Typed, Roles
<1>1. TypeOK'
  BY ChildReceivesType
<1>2. Typed /\ Roles
  BY TypeParts
<1>3. \A t \in Node : Peer(t)' = Peer(t)
  BY DEF Peer
<1>4. Idle' /\ OffTheWay' /\ Settled' /\ BrokenForAReason'
  BY <1>2 DEF Idle, OffTheWay, Requests, Settled, Quiet, Replying, BrokenForAReason, Links
<1>5. Connecting' /\ Hearing'
  BY <1>2 DEF Connecting, Idle, OffTheWay, Hearing
<1>6. Asking'
  BY <1>2, <1>3 DEF Asking, Connecting, Hearing, OffTheWay, Idle
<1>7. Replying'
  BY <1>2 DEF Replying, Connecting, Hearing, OffTheWay
<1>8. Requests' /\ ObjectInHand'
  BY <1>2 DEF Requests, ObjectInHand, Idle, Connecting, Hearing
<1>9. Replies'
  BY <1>2 DEF Replies, Hearing, Replying, Settled, Quiet, Idle
<1>10. Links'
  BY <1>2, <1>3 DEF Links, Alive, Idle, OffTheWay, ObjectInHand
<1> QED
  BY <1>1, <1>4, <1>5, <1>6, <1>7, <1>8, <1>9, <1>10 DEF Inv

LEMMA CallerReceivesStep ==
  ASSUME Inv, CallerReceives
  PROVE  Inv'
<1> USE Sides, Peers, Order, Ways, Words, ReceivedDoes, CallerReceivesDoes DEF Inv, Untouched, Typed, Roles
<1>1. TypeOK'
  BY CallerReceivesType
<1>2. Typed /\ Roles
  BY TypeParts
<1>3. \A t \in Node : Peer(t)' = Peer(t)
  BY DEF Peer
<1>4. Idle' /\ OffTheWay' /\ Settled' /\ BrokenForAReason'
  BY <1>2 DEF Idle, OffTheWay, Requests, Settled, Quiet, Replying, BrokenForAReason, Links
<1>5. Connecting' /\ Hearing'
  BY <1>2 DEF Connecting, Idle, OffTheWay, Hearing
<1>6. Asking'
  BY <1>2, <1>3 DEF Asking, Connecting, Hearing, OffTheWay, Idle
<1>7. Replying'
  BY <1>2 DEF Replying, Connecting, Hearing, OffTheWay
<1>8. Requests' /\ ObjectInHand'
  BY <1>2 DEF Requests, ObjectInHand, Idle, Connecting, Hearing
<1>9. Replies'
  BY <1>2 DEF Replies, Hearing, Replying, Settled, Quiet, Idle
<1>10. Links'
  BY <1>2, <1>3 DEF Links, Alive, Idle, OffTheWay, ObjectInHand
<1> QED
  BY <1>1, <1>4, <1>5, <1>6, <1>7, <1>8, <1>9, <1>10 DEF Inv

\* A process stops, with the caller of this call or without it.
LEMMA StopStep ==
  ASSUME Inv, NEW p \in Process, Stop(p), TypeOK', trouble',
         told' = told \/ (told' = "broken" /\ asked # None), UNCHANGED <<asked, obj, ran>>
  PROVE  Inv'
<1> USE Sides, Peers, Order, Ways, Words, StopDoes DEF Inv, Untouched, Typed, Roles
<1>1. TypeOK'
  OBVIOUS
<1>2. Typed /\ Roles
  BY TypeParts
<1>3. \A t \in Node : Peer(t)' = Peer(t)
  BY DEF Peer
<1>4. Idle' /\ OffTheWay' /\ Settled' /\ BrokenForAReason'
  BY <1>2 DEF Idle, OffTheWay, Requests, Settled, Quiet, Replying, BrokenForAReason, Links
<1>5. Connecting' /\ Hearing'
  BY <1>2 DEF Connecting, Idle, OffTheWay, Hearing
<1>6. Asking'
  BY <1>2, <1>3 DEF Asking, Connecting, Hearing, OffTheWay, Idle
<1>7. Replying'
  BY <1>2 DEF Replying, Connecting, Hearing, OffTheWay
<1>8. Requests' /\ ObjectInHand'
  BY <1>2 DEF Requests, ObjectInHand, Idle, Connecting, Hearing
<1>9. Replies'
  BY <1>2 DEF Replies, Hearing, Replying, Settled, Quiet, Idle
<1>10. Links'
  BY <1>2, <1>3 DEF Links, Alive, Idle, OffTheWay, ObjectInHand
<1> QED
  BY <1>1, <1>4, <1>5, <1>6, <1>7, <1>8, <1>9, <1>10 DEF Inv

\* What a session waits for cannot come any more.
Gone(s) ==
  \/ op[s] = "connect" /\ ~up[Home[Peer(s)]]
  \/ op[s] = "write" /\ ~Alive(Peer(s))
  \/ op[s] = "header" /\ ~Alive(Peer(s)) /\ wire[Peer(s)] = None
  \/ op[s] = "body" /\ ~Alive(Peer(s)) /\ wire[Peer(s)] \notin Object

LEMMA FailStep ==
  ASSUME Inv, NEW s \in Node, Fail(s), Gone(s)
  PROVE  Inv'
<1> USE Sides, Peers, Order, Ways DEF Inv, Untouched
<1>1. Typed /\ Roles /\ op[s] # "none"
  BY TypeParts DEF Gone
<1>2. TypeOK'
  BY <1>1, FailType
<1>3. s \in Client => trouble
  BY <1>1, HomeOfAll, Words DEF Links, Gone, Typed, Idle, Asking
<1>4. UNCHANGED <<asked, obj, ran, trouble>>
  BY FailDoes
<1>5. \A t \in Node : Peer(t)' = Peer(t)
  BY <1>4 DEF Peer
<1>6. s = "caller" /\ told' # told => asked # None /\ told' \in {"own", "broken", "nullptr"}
  BY <1>1, FailDoes DEF Idle
<1>7. CASE s = "caller" /\ told' = "broken" /\ Stop(Home["caller"])
  <2>1. Home["caller"] \in Process /\ trouble' /\ asked # None
    BY <1>1, <1>3, <1>4, <1>7, HomeOfAll DEF Idle
  <2> QED
    BY <1>2, <1>4, <1>7, <2>1, StopStep
<1>8. CASE /\ UNCHANGED <<wire, up>>
           /\ \A t \in Node : op'[t] = IF t = s THEN "none" ELSE op[t]
           /\ \/ s # "caller" /\ told' = told
              \/ s = "caller" /\ told' = "own" /\ obj["caller"] # None
              \/ s = "caller" /\ told' = "nullptr"
  <2>1. told' = "own" => told = "own" \/ \A t \in Node : t # "caller" => op[t] = "none"
    BY <1>8, <1>1 DEF Gone, Requests, Connecting, Asking, Alive, OffTheWay, Idle
  <2>2. Idle'
    BY <1>8, <1>1, <1>3, <1>4, <1>5, <1>6, <2>1, Words DEF Idle, Typed, Roles
  <2>3. OffTheWay'
    BY <1>8, <1>1, <1>3, <1>4, <1>5, <1>6, <2>1, Words DEF OffTheWay, Idle, Requests, Typed, Roles
  <2>4. Connecting'
    BY <1>8, <1>1, <1>3, <1>4, <1>5, <1>6, <2>1, Words
       DEF Connecting, Idle, OffTheWay, Hearing, Typed, Roles
  <2>5. Asking'
    BY <1>8, <1>1, <1>3, <1>4, <1>5, <1>6, <2>1, Words
       DEF Asking, Connecting, Hearing, OffTheWay, Idle, Typed, Roles
  <2>6. Hearing'
    BY <1>8, <1>1, <1>3, <1>4, <1>5, <1>6, <2>1, Words
       DEF Hearing, Connecting, OffTheWay, Idle, Typed, Roles
  <2>7. Replying'
    BY <1>8, <1>1, <1>3, <1>4, <1>5, <1>6, <2>1, Words
       DEF Replying, Connecting, Hearing, OffTheWay, Typed, Roles
  <2>8. Settled'
    BY <1>8, <1>1, <1>3, <1>4, <1>5, <1>6, <2>1, Words DEF Settled, Quiet, Replying, OffTheWay,
       Idle, Typed, Roles, Gone, Connecting, Asking, Requests
  <2>9. Requests'
    BY <1>8, <1>1, <1>3, <1>4, <1>5, <1>6, <2>1, Words
       DEF Requests, ObjectInHand, Idle, Typed, Roles
  <2>10. Replies'
    BY <1>8, <1>1, <1>3, <1>4, <1>5, <1>6, <2>1, Words
       DEF Replies, Hearing, Replying, Settled, Quiet, Idle, Typed, Roles
  <2>11. Links'
    BY <1>8, <1>1, <1>3, <1>4, <1>5, <1>6, <2>1, Words
       DEF Links, Alive, Idle, OffTheWay, ObjectInHand, Typed, Roles, Gone
  <2>12. ObjectInHand'
    BY <1>8, <1>1, <1>3, <1>4, <1>5, <1>6, <2>1, Words
       DEF ObjectInHand, Connecting, Hearing, Typed, Roles
  <2>13. BrokenForAReason'
    BY <1>8, <1>1, <1>3, <1>4, <1>5, <1>6, <2>1, Words
       DEF BrokenForAReason, Links, Idle, Typed, Roles
  <2> QED
    BY <1>2, <2>2, <2>3, <2>4, <2>5, <2>6, <2>7, <2>8, <2>9, <2>10, <2>11, <2>12, <2>13
<1> QED
  BY <1>7, <1>8, FailDoes

-----------------------------------------------------------------------------
(* The safety invariant holds.                                             *)

LEMMA InvInit == Init => Inv
<1> SUFFICES ASSUME Init PROVE Inv
  OBVIOUS
<1> USE Sides, Names, HomeOfAll, Words
<1>1. TypeOK
  BY DEF Init, TypeOK, Operation
<1>2. asked = None /\ told = None /\ ran = 0 /\ \A t \in Node : op[t] = "none" /\ wire[t] = None
  BY DEF Init
<1>3. Idle /\ OffTheWay /\ Connecting /\ Asking /\ Hearing
  BY <1>2, Peers DEF Idle, Untouched, OffTheWay, Connecting, Asking, Hearing
<1>4. Replying /\ Settled /\ Requests /\ Replies /\ Links
  BY <1>2, Peers DEF Replying, Settled, Quiet, Requests, Replies, Links
<1>5. ObjectInHand /\ BrokenForAReason
  BY <1>2 DEF ObjectInHand, BrokenForAReason
<1> QED
  BY <1>1, <1>3, <1>4, <1>5 DEF Inv

LEMMA InvNext == Inv /\ [Next]_vars => Inv'
<1> SUFFICES ASSUME Inv, [Next]_vars PROVE Inv'
  OBVIOUS
<1>0. TypeOK /\ Typed
  BY TypeParts DEF Inv
<1>1. ASSUME NEW kind \in Kind, Call(kind) PROVE Inv'
  BY <1>1, CallStep
<1>2. CASE Return
  BY <1>2, ReturnStep
<1>3. ASSUME NEW p \in Process, Crash(p) \/ Restart(p) PROVE Inv'
  <2>1. CASE Crash(p)
    <3>1. op["caller"] # "none" => asked # None
      BY Sides DEF Inv, Idle, Untouched
    <3> QED
      BY <1>0, <2>1, <3>1, StopStep, CrashType DEF Crash
  <2> QED
    BY <1>3, <2>1, RestartStep
<1>4. ASSUME NEW s \in Node, Operate(s) PROVE Inv'
  <2>1. CASE Connect(s) \/ Accept(s) \/ Write(s) \/ ReadHeader(s)
    BY <2>1, ConnectStep, AcceptStep, WriteStep, ReadHeaderStep
  <2>2. CASE ConnectFails(s) \/ WriteFails(s) \/ ReadFails(s)
    <3>1. Fail(s) /\ Gone(s)
      BY <2>2 DEF ConnectFails, WriteFails, ReadFails, Gone
    <3> QED
      BY <3>1, FailStep
  <2> QED
    BY <1>4, <2>1, <2>2 DEF Operate
<1>5. ASSUME NEW s \in Server, NEW o \in Object, Received(s, o)
      PROVE  wire[Peer(s)] = o /\ asked = o /\ ran = 0
  <2>1. op[s] = "body" /\ wire[Peer(s)] = o /\ s \in Node /\ Peer(s) \in Client
    BY <1>0, <1>5, ReceivedDoes, Peers, Sides
  <2> QED
    BY <2>1, Words DEF Inv, Hearing, Requests
<1>6. CASE LokiRegister
  <2>1. Received("loki", "register") /\ Respond("loki", "register") /\ ran' = ran + 1
      /\ UNCHANGED <<asked, up, told, trouble>>
    BY <1>6 DEF LokiRegister
  <2>2. asked = "register" /\ ran = 0
    BY <1>5, <2>1, Names
  <2>3. ran' = 1
    BY <2>1, <2>2
  <2>4. Answering(asked, "register", ran')
    BY <2>1, <2>2, <2>3 DEF Answering
  <2> QED
    BY <2>1, <2>4, AnswerStep, Names
<1>7. CASE LokiRequest
  <2>1. Received("loki", "request") /\ UNCHANGED <<asked, up, told, ran, trouble>>
    BY <1>7 DEF LokiRequest
  <2>2. CASE Forward("loki", "tokartos", "request")
    <3>1. Father["tokartos"] = "loki"
      BY DEF Father, Child
    <3> QED
      BY <2>1, <2>2, <3>1, ForwardStep, Names, Sides
  <2>3. CASE Respond("loki", "no service")
    <3>1. Answering(asked, "no service", ran')
      BY <1>5, <2>1, Names DEF Answering
    <3> QED
      BY <2>1, <2>3, <3>1, AnswerStep, Names
  <2> QED
    BY <1>7, <2>2, <2>3 DEF LokiRequest
<1>8. CASE KartosRequest
  <2>1. Father["toservice"] = "kartos"
    BY DEF Father, Child
  <2>2. Received("kartos", "request") /\ Forward("kartos", "toservice", "request")
        /\ UNCHANGED <<asked, up, told, ran, trouble>>
    BY <1>8 DEF KartosRequest
  <2> QED
    BY <2>1, <2>2, ForwardStep, Names, Sides
<1>9. CASE ServiceRequest
  <2>1. Received("service", "request") /\ Respond("service", "reply") /\ ran' = ran + 1
      /\ UNCHANGED <<asked, up, told, trouble>>
    BY <1>9 DEF ServiceRequest
  <2>2. asked = "request" /\ ran = 0
    BY <1>5, <2>1, Names
  <2>3. ran' = 1
    BY <2>1, <2>2
  <2>4. Answering(asked, "reply", ran')
    BY <2>1, <2>2, <2>3 DEF Answering
  <2> QED
    BY <2>1, <2>4, AnswerStep, Names
<1>10. CASE ServiceUnknown
  <2>1. Received("service", "request") /\ Respond("service", "request")
        /\ UNCHANGED <<asked, up, told, ran, trouble>>
    BY <1>10 DEF ServiceUnknown
  <2>2. Answering(asked, "request", ran')
    BY <1>5, <2>1, Names DEF Answering
  <2> QED
    BY <2>1, <2>2, AnswerStep, Names
<1>11. CASE ServiceKeepAlive
  <2>1. Received("service", "keepalive") /\ Respond("service", "keepalive") /\ ran' = ran + 1
      /\ UNCHANGED <<asked, up, told, trouble>>
    BY <1>11 DEF ServiceKeepAlive
  <2>2. asked = "keepalive" /\ ran = 0
    BY <1>5, <2>1, Names
  <2>3. ran' = 1
    BY <2>1, <2>2
  <2>4. Answering(asked, "keepalive", ran')
    BY <2>1, <2>2, <2>3 DEF Answering
  <2> QED
    BY <2>1, <2>4, AnswerStep, Names
<1>12. ASSUME NEW c \in Child, ChildReceives(c) PROVE Inv'
  <2>1. PICK o \in Object : Received(c, o)
    BY <1>12 DEF ChildReceives
  <2> QED
    BY <1>12, <2>1, ChildReceivesStep
<1>13. CASE CallerReceives
  BY <1>13, CallerReceivesStep
<1>14. ASSUME NEW s \in Node, NEW o \in Object, GiveUp(s, o) PROVE Inv'
  BY <1>14, GiveUpStep
<1>15. CASE UNCHANGED vars
  <2>1. UNCHANGED <<asked, op, obj, wire, up, told, ran, trouble>>
    BY <1>15 DEF vars
  <2>2. TypeOK'
    BY <2>1 DEF Inv, TypeOK
  <2>3. Idle' /\ OffTheWay' /\ Connecting' /\ Hearing' /\ Replying'
    BY <2>1 DEF Inv, Idle, Untouched, OffTheWay, Connecting, Hearing, Replying
  <2>4. \A t \in Node : Peer(t)' = Peer(t)
    BY <2>1 DEF Peer
  <2>5. Asking'
    BY <2>1, <2>4, Peers, Sides DEF Inv, Asking, Untouched
  <2>6. Links'
    BY <2>1, <2>4, Peers, Sides DEF Inv, Links, Alive
  <2>7. Settled' /\ Requests' /\ Replies' /\ ObjectInHand' /\ BrokenForAReason'
    BY <2>1 DEF Inv, Settled, Quiet, Requests, Replies, Answering, ObjectInHand, BrokenForAReason
  <2> QED
    BY <2>2, <2>3, <2>5, <2>6, <2>7 DEF Inv
<1>16. ASSUME NEW s \in Node, Receive(s) PROVE Inv'
  BY <1>6, <1>7, <1>8, <1>9, <1>10, <1>11, <1>12, <1>13, <1>14, <1>16 DEF Receive
<1> QED
  BY <1>1, <1>2, <1>3, <1>4, <1>15, <1>16 DEF Next, Environment

\* TypeOK, of every instance: of any number of processes, of which any may be
\* the home of several sessions, and any may stop.
THEOREM Typing == Spec => []TypeOK
<1>1. Inv => TypeOK
  BY DEF Inv
<1> QED
  BY <1>1, InvInit, InvNext, PTL DEF Spec

\* ObjectInHand: no session of any instance uses an object it does not have,
\* and none has two operations at a time.
THEOREM InHand == Spec => []ObjectInHand
<1>1. Inv => ObjectInHand
  BY DEF Inv
<1> QED
  BY <1>1, InvInit, InvNext, PTL DEF Spec

\* BrokenForAReason: a call breaks off only if a process stops or Loki or
\* Kartos gives it up, never because a session is let go too early.
THEOREM ForAReason == Spec => []BrokenForAReason
<1>1. Inv => BrokenForAReason
  BY DEF Inv
<1> QED
  BY <1>1, InvInit, InvNext, PTL DEF Spec

-----------------------------------------------------------------------------
(* The sessions of a call keep its promise.                                *)

\* The outcome of a call, case by case.
LEMMA Judgements ==
  ASSUME NEW kind, NEW result
  PROVE  /\ kind = None => Judge(kind, result) = "none"
         /\ kind # None /\ result = None => Judge(kind, result) = "waiting"
         /\ kind # None /\ result \in {"broken", "nullptr"} => Judge(kind, result) = "broken"
         /\ kind # None /\ result = "own" => Judge(kind, result) = "refused"
         /\ kind # None /\ result \in Object =>
              Judge(kind, result) = IF \/ result = "no service"
                                       \/ kind = "request" /\ result = "request"
                                    THEN "refused" ELSE "answered"
<1>1. kind = None => Judge(kind, result) = "none"
  <2>1. kind = None => kind # "request"
    BY Names, Words
  <2> QED
    BY <2>1 DEF Judge
<1>2. kind # None => Judge(kind, None) = "waiting"
  <2>1. None \notin {"broken", "nullptr"} /\ None \notin {"own", "no service"} /\ None # "request"
    BY Names, Words
  <2> QED
    BY <2>1 DEF Judge
<1>3. kind # None /\ result \in {"broken", "nullptr"} => Judge(kind, result) = "broken"
  BY Words DEF Judge
<1>4. kind # None /\ result = "own" => Judge(kind, result) = "refused"
  BY Words DEF Judge
<1>5. kind # None /\ result \in Object =>
        Judge(kind, result) = IF \/ result = "no service"
                                 \/ kind = "request" /\ result = "request"
                              THEN "refused" ELSE "answered"
  BY Words DEF Judge
<1> QED
  BY <1>1, <1>2, <1>3, <1>4, <1>5

\* A step that leaves the call as it is, as the caller and its partner see it.
LEMMA Unseen ==
  ASSUME UNCHANGED <<asked, told, ran>>
  PROVE  UNCHANGED Promise!vars
  BY DEF Promise!vars

\* What ends the wait of the caller.
LEMMA Ends ==
  ASSUME Inv, Inv', asked # None, told = None, UNCHANGED <<asked, ran>>,
         \/ told' \in Object \/ told' \in {"broken", "nullptr"}
         \/ told' = "own" /\ ran = 0
  PROVE  Promise!Next
<1>1. Judge(asked, told) = "waiting"
  BY Judgements
<1>2. CASE told' \in {"broken", "nullptr"}
  <2>1. Judge(asked', told') = "broken"
    BY <1>2, Judgements
  <2> QED
    BY <1>1, <2>1 DEF Promise!Next, Promise!Break, Promise!End
<1>3. CASE told' = "own" /\ ran = 0
  <2>1. Judge(asked', told') = "refused"
    BY <1>3, Judgements
  <2> QED
    BY <1>1, <1>3, <2>1 DEF Promise!Next, Promise!Refuse, Promise!End
<1>4. CASE told' \in Object
  <2>1. Answering(asked, told', ran)
    BY <1>4 DEF Inv, Replies
  <2>2. CASE \/ told' = "no service"
             \/ asked = "request" /\ told' = "request"
    <3>1. Judge(asked', told') = "refused" /\ ran = 0
      BY <1>4, <2>1, <2>2, Judgements DEF Answering
    <3> QED
      BY <1>1, <3>1 DEF Promise!Next, Promise!Refuse, Promise!End
  <2>3. CASE told' # "no service" /\ ~(asked = "request" /\ told' = "request")
    <3>1. Judge(asked', told') = "answered"
      BY <1>4, <2>3, Judgements
    <3>2. ran = 1
      BY <2>1, <2>3 DEF Answering
    <3> QED
      BY <1>1, <3>1, <3>2 DEF Promise!Next, Promise!Answer, Promise!End
  <2> QED
    BY <2>2, <2>3
<1> QED
  BY <1>2, <1>3, <1>4

\* What the partner does, it does once, and not for a call that is over.
LEMMA Runs ==
  ASSUME Inv, NEW s \in Server, op[s] = "body", ran' = ran + 1, UNCHANGED <<asked, told>>
  PROVE  Promise!Next
<1>1. ran = 0 /\ asked # None
  BY Sides DEF Inv, Hearing, Idle, Untouched
<1>2. told \in {None, "broken", "nullptr"}
  BY Sides, TypeParts DEF Inv, Settled, Quiet, Typed
<1>3. Judge(asked, told) \in {"waiting", "broken"}
  <2>1. told = None => Judge(asked, told) = "waiting"
    BY <1>1, Judgements
  <2>2. told \in {"broken", "nullptr"} => Judge(asked, told) = "broken"
    BY <1>1, Judgements
  <2> QED
    BY <1>2, <2>1, <2>2
<1>4. ran' = 1
  BY <1>1
<1> QED
  BY <1>1, <1>3, <1>4 DEF Promise!Next, Promise!Run

\* The initial state, and every step, maps to one of CallSpec, or to a stutter.
LEMMA InitMaps == Init => Promise!Init
  BY Judgements DEF Init, Promise!Init

LEMMA StepMaps == Inv /\ Inv' /\ [Next]_vars => [Promise!Next]_Promise!vars
<1> SUFFICES ASSUME Inv, Inv', [Next]_vars PROVE Promise!Next \/ UNCHANGED Promise!vars
  OBVIOUS
<1>0. TypeOK /\ Typed /\ Recorded
  BY TypeParts DEF Inv
<1>1. ASSUME NEW kind \in Kind, Call(kind) PROVE Promise!Next
  <2>1. asked = None /\ asked' # None /\ told' = None /\ ran' = ran
    BY <1>1, Words DEF Call, Inv, Idle
  <2>2. Judge(asked, told) = "none"
    BY <2>1, Judgements
  <2>3. Judge(asked', told') = "waiting"
    BY <2>1, Judgements
  <2> QED
    BY <2>1, <2>2, <2>3 DEF Promise!Next, Promise!Ask
<1>2. CASE Return
  <2>1. told # None /\ asked # None
    BY <1>0, <1>2, Sides DEF Return, Quiet, Recorded
  <2>2. Judge(asked, told) \notin {"none", "waiting"}
    BY <1>0, <2>1, Judgements DEF Typed
  <2>3. Judge(asked', told') = "none" /\ ran' = 0
    BY <1>2, Judgements DEF Return
  <2> QED
    BY <2>2, <2>3 DEF Promise!Next, Promise!Return
<1>3. ASSUME NEW p \in Process, Crash(p) PROVE Promise!Next \/ UNCHANGED Promise!vars
  <2>1. CASE Home["caller"] = p /\ op["caller"] # "none"
    BY <1>0, <1>3, <2>1, Ends DEF Crash, Recorded
  <2>2. CASE ~(Home["caller"] = p /\ op["caller"] # "none")
    BY <1>3, <2>2, Unseen DEF Crash
  <2> QED
    BY <2>1, <2>2
<1>4. ASSUME NEW s \in Node, Fail(s), Gone(s) PROVE Promise!Next \/ UNCHANGED Promise!vars
  <2>1. UNCHANGED <<asked, ran>>
    BY <1>0, <1>4, FailDoes
  <2>2. CASE told' = told
    BY <2>1, <2>2, Unseen
  <2>3. CASE told' # told
    <3>1. s = "caller" /\ told' \in {"own", "broken", "nullptr"}
          /\ (told' = "own" => obj["caller"] # None)
      BY <1>0, <1>4, <2>3, FailDoes
    <3>2. told = None /\ asked # None
      BY <1>0, <1>4, <3>1 DEF Recorded, Gone
    <3>3. told' = "own" => ran = 0
      BY <1>4, <3>1, Sides DEF Gone, Inv, Requests, Connecting, Asking
    <3> QED
      BY <2>1, <3>1, <3>2, <3>3, Ends
  <2> QED
    BY <2>2, <2>3
<1>5. ASSUME NEW s \in Node, Operate(s) PROVE Promise!Next \/ UNCHANGED Promise!vars
  <2>1. CASE Connect(s) \/ Accept(s) \/ Write(s) \/ ReadHeader(s)
    BY <2>1, Unseen DEF Connect, Accept, Write, ReadHeader
  <2>2. CASE ConnectFails(s) \/ WriteFails(s) \/ ReadFails(s)
    BY <1>4, <2>2 DEF ConnectFails, WriteFails, ReadFails, Gone
  <2> QED
    BY <1>5, <2>1, <2>2 DEF Operate
<1>6. CASE LokiRegister
  BY <1>6, Runs, Names DEF LokiRegister, Received
<1>7. CASE ServiceRequest \/ ServiceKeepAlive
  BY <1>7, Runs, Names DEF ServiceRequest, ServiceKeepAlive, Received
<1>8. CASE LokiRequest \/ KartosRequest \/ ServiceUnknown
  BY <1>8, Unseen DEF LokiRequest, KartosRequest, ServiceUnknown
<1>9. ASSUME NEW c \in Child, ChildReceives(c) PROVE UNCHANGED Promise!vars
  BY <1>9, Unseen DEF ChildReceives
<1>10. CASE CallerReceives
  <2>1. op["caller"] = "body" /\ told' \in Object /\ UNCHANGED <<asked, ran>>
    BY <1>10 DEF CallerReceives, Received
  <2>2. told = None /\ asked # None
    BY <1>0, <2>1 DEF Recorded
  <2> QED
    BY <2>1, <2>2, Ends
<1>11. ASSUME NEW s \in Node, NEW o \in Object, GiveUp(s, o) PROVE UNCHANGED Promise!vars
  BY <1>11, Unseen DEF GiveUp
<1>12. CASE Return \/ \E p \in Process : Restart(p)
  BY <1>2, <1>12, Unseen DEF Restart
<1>13. CASE UNCHANGED vars
  BY <1>13, Unseen DEF vars
<1>14. ASSUME NEW s \in Node, Receive(s) PROVE Promise!Next \/ UNCHANGED Promise!vars
  BY <1>6, <1>7, <1>8, <1>9, <1>10, <1>11, <1>14 DEF Receive
<1> QED
  BY <1>1, <1>3, <1>5, <1>12, <1>13, <1>14 DEF Next, Environment

\* ImplementsCall: whoever stops at whichever operation of a socket, what the
\* caller asks for is done at most once, was done if it is answered, and was
\* not done and never will be if it is refused.
THEOREM Promised == Spec => ImplementsCall
<1>1. Inv /\ Inv' /\ [Next]_vars => [Promise!Next]_Promise!vars
  BY StepMaps
<1> QED
  BY <1>1, InitMaps, InvInit, InvNext, PTL DEF Spec, ImplementsCall, Promise!Spec
-----------------------------------------------------------------------------
(* A call always has a step to make.                                       *)

\* A party that listens is about to be written to, or has something to read.
Heard ==
  \A s \in Server : op[s] \in {"accept", "header", "body"} =>
    op[Peer(s)] \in {"none", "write"} \/ wire[Peer(s)] # None

\* Half an object comes only from a process that has stopped.
Cut == \A c \in Client : wire[c] = "header" => op[c] = "none"

LEMMA HeardInit == Init => Heard /\ Cut
  BY Sides DEF Init, Heard, Cut

\* No more than one party listens at a time.
LEMMA OneListens ==
  ASSUME Inv, NEW s \in Server, NEW t \in Server, op[s] = "body",
         op[t] \in {"accept", "header", "body"}
  PROVE  s = t
<1>1. s \in Node /\ t \in Node
  BY Sides
<1>2. ~(Place[t] > Place[s])
  BY <1>1 DEF Inv, Hearing, Untouched
<1>3. ~(Place[s] > Place[t])
  BY <1>1 DEF Inv, Hearing, Untouched
<1> QED
  BY <1>1, <1>2, <1>3, Order

LEMMA HeardNext ==
  ASSUME Inv, Inv', Heard, Cut, [Next]_vars
  PROVE  Heard' /\ Cut'
<1> USE Sides, Peers
<1>0. TypeOK /\ Typed /\ Roles
  BY TypeParts DEF Inv
<1>1. ASSUME NEW kind \in Kind, Call(kind) PROVE Heard' /\ Cut'
  BY <1>0, <1>1, CallDoes, Words DEF Inv, Idle, Untouched, Heard, Cut
<1>2. CASE Return
  BY <1>2, ReturnDoes DEF Heard, Cut
<1>3. ASSUME NEW p \in Process, Stop(p), asked' = asked PROVE Heard' /\ Cut'
  <2>1. \A t \in Node : Peer(t)' = Peer(t)
    BY <1>3 DEF Peer
  <2> QED
    BY <1>0, <1>3, <2>1, StopDoes DEF Heard, Cut
<1>4. ASSUME NEW s \in Node, Connect(s) \/ Accept(s) \/ Write(s) \/ ReadHeader(s)
      PROVE  Heard' /\ Cut'
  <2>1. \A t \in Node : Peer(t)' = Peer(t)
    BY <1>4 DEF Peer, Connect, Accept, Write, ReadHeader
  <2>2. CASE Connect(s)
    BY <1>0, <2>1, <2>2, ConnectDoes, Order, Ways DEF Inv, Heard, Cut, Connecting, OffTheWay, Untouched
  <2>3. CASE Accept(s)
    BY <1>0, <2>1, <2>3, AcceptDoes DEF Heard, Cut
  <2>4. CASE Write(s)
    <3>1. Cut'
      BY <1>0, <2>4, WriteDoes, Words DEF Inv, Cut, Requests, Asking, Typed
    <3>2. Heard'
      BY <1>0, <2>1, <2>4, WriteDoes, Order, Ways DEF Inv, Heard, Requests, Alive, Asking, OffTheWay, Idle, Untouched, ObjectInHand
    <3> QED
      BY <3>1, <3>2
  <2>5. CASE ReadHeader(s)
    BY <1>0, <2>1, <2>5, ReadHeaderDoes DEF Heard, Cut
  <2> QED
    BY <1>4, <2>2, <2>3, <2>4, <2>5
<1>5. ASSUME NEW s \in Node, Fail(s) PROVE Heard' /\ Cut'
  <2>1. asked' = asked /\ \A t \in Node : Peer(t)' = Peer(t)
    BY <1>5 DEF Fail, Peer
  <2>2. CASE s = "caller" /\ told' = "broken" /\ Stop(Home["caller"])
    BY <1>3, <2>1, <2>2, HomeOfAll
  <2>3. CASE UNCHANGED wire /\ \A t \in Node : op'[t] = IF t = s THEN "none" ELSE op[t]
    BY <1>0, <2>1, <2>3 DEF Heard, Cut
  <2> QED
    BY <1>0, <1>5, <2>2, <2>3, FailDoes
<1>6. ASSUME NEW s \in Server, NEW o \in Object, NEW r \in Object,
             Received(s, o), Respond(s, r), asked' = asked
      PROVE  Heard' /\ Cut'
  <2>1. \A t \in Node : Peer(t)' = Peer(t)
    BY <1>6 DEF Peer
  <2>2. op[s] = "body" /\ \A t \in Node : wire'[t] = IF t = Peer(s) THEN None ELSE wire[t]
    BY <1>0, <1>6, ReceivedDoes
  <2>3. \A t \in Server : t # s => op[t] \notin {"accept", "header", "body"}
    BY <2>2, OneListens
  <2>4. \A t \in Node : op'[t] = IF t = s THEN "write" ELSE op[t]
    BY <1>0, <1>6, RespondDoes
  <2> QED
    BY <2>1, <2>2, <2>3, <2>4, Words DEF Heard, Cut
<1>7. ASSUME NEW s \in Server, NEW c \in Child, Father[c] = s,
             Received(s, "request"), Forward(s, c, "request"), asked' = asked
      PROVE  Heard' /\ Cut'
  <2>1. \A t \in Node : Peer(t)' = Peer(t)
    BY <1>7 DEF Peer
  <2>2. \A t \in Node : wire'[t] = IF t = Peer(s) THEN None ELSE wire[t]
    <3>1. Received(s, "request") /\ "request" \in Object /\ s \in Node
      BY <1>7, Names DEF Node
    <3> QED
      BY <1>0, <3>1, ReceivedDoes
  <2>3. \A t \in Node : op'[t] = IF t = s THEN "none" ELSE IF t = c THEN "connect" ELSE op[t]
    <3>1. Forward(s, c, "request") /\ "request" \in Object
      BY <1>7, Names
    <3> QED
      BY <1>0, <3>1, ForwardDoes
  <2>4. op[s] = "body"
    BY <1>7 DEF Received
  <2>5. \A t \in Server : t # s => op[t] \notin {"accept", "header", "body"}
    BY <2>4, OneListens
  <2>6. c \in Node /\ Place[c] > Place[s]
    BY <1>7, Order
  <2>7. wire[c] = None
    BY <2>4, <2>6 DEF Inv, Hearing, Untouched
  <2> QED
    BY <2>1, <2>2, <2>3, <2>5, <2>7, Words DEF Heard, Cut
<1>8. ASSUME NEW c \in Child, ChildReceives(c) PROVE Heard' /\ Cut'
  <2>1. PICK o \in Object : Received(c, o)
    BY <1>8 DEF ChildReceives
  <2>2. \A t \in Node : Peer(t)' = Peer(t)
    BY <1>8 DEF Peer, ChildReceives
  <2> QED
    BY <1>0, <1>8, <2>1, <2>2, ReceivedDoes, ChildReceivesDoes DEF Heard, Cut
<1>9. CASE CallerReceives
  <2>1. PICK o \in Object : /\ Received("caller", o)
                            /\ \A t \in Node : op'[t] = IF t = "caller" THEN "none" ELSE op[t]
    BY <1>0, <1>9, CallerReceivesDoes
  <2>2. \A t \in Node : Peer(t)' = Peer(t)
    BY <1>9 DEF Peer, CallerReceives
  <2> QED
    BY <1>0, <2>1, <2>2, ReceivedDoes DEF Heard, Cut
<1>10. ASSUME NEW s \in Node, NEW o \in Object, GiveUp(s, o) PROVE Heard' /\ Cut'
  <2>1. \A t \in Node : Peer(t)' = Peer(t)
    BY <1>10 DEF Peer, GiveUp
  <2>2. /\ s \in Server /\ op[s] = "body"
        /\ \A t \in Node : wire'[t] = IF t = Peer(s) THEN None ELSE wire[t]
        /\ \A t \in Node : op'[t] = IF t = s THEN "none" ELSE op[t]
    BY <1>0, <1>10, GiveUpDoes, ReceivedDoes
  <2>3. \A t \in Server : t # s => op[t] \notin {"accept", "header", "body"}
    BY <2>2, OneListens
  <2> QED
    BY <2>1, <2>2, <2>3, Words DEF Heard, Cut
<1>11. CASE UNCHANGED <<asked, op, wire>>
  <2>1. \A t \in Node : Peer(t)' = Peer(t)
    BY <1>11 DEF Peer
  <2> QED
    BY <1>11, <2>1 DEF Heard, Cut
<1>12. ASSUME NEW p \in Process, Crash(p) \/ Restart(p) PROVE Heard' /\ Cut'
  BY <1>3, <1>11, <1>12 DEF Crash, Restart
<1>13. ASSUME NEW s \in Node, Operate(s) PROVE Heard' /\ Cut'
  BY <1>4, <1>5, <1>13 DEF Operate, ConnectFails, WriteFails, ReadFails
<1>14. ASSUME NEW s \in Node, Receive(s) PROVE Heard' /\ Cut'
  <2>1. CASE LokiRegister \/ ServiceRequest \/ ServiceUnknown \/ ServiceKeepAlive
    BY <1>6, <2>1, Names DEF LokiRegister, ServiceRequest, ServiceUnknown, ServiceKeepAlive
  <2>2. CASE LokiRequest \/ KartosRequest
    <3>1. Father["tokartos"] = "loki" /\ Father["toservice"] = "kartos"
      BY DEF Father, Child
    <3> QED
      BY <1>6, <1>7, <2>2, <3>1, Names DEF LokiRequest, KartosRequest
  <2> QED
    BY <1>8, <1>9, <1>10, <1>14, <2>1, <2>2 DEF Receive
<1> QED
  BY <1>1, <1>2, <1>11, <1>12, <1>13, <1>14 DEF Next, Environment, vars

\* Whoever listens can go on, or the party that it listens to can.
LEMMA ListenerGoesOn ==
  ASSUME Inv, Heard, Cut, NEW s \in Server, op[s] # "none"
  PROVE  \E t \in Node : CanGoOn(t)
<1> USE Sides, Peers
<1>0. TypeOK /\ Typed /\ Roles /\ s \in Node
  BY TypeParts DEF Inv
<1>1. op[s] \in {"accept", "header", "body", "write"}
  BY <1>0 DEF Typed, Roles, Operation
<1>2. CASE op[s] \in {"accept", "write"} \/ op[Peer(s)] = "write"
  BY <1>0, <1>2 DEF CanGoOn
<1>3. CASE op[s] \in {"header", "body"} /\ op[Peer(s)] # "write" /\ wire[Peer(s)] = None
  <2>1. op[Peer(s)] = "none"
    BY <1>3 DEF Heard
  <2>2. ~Alive(Peer(s))
    BY <2>1 DEF Alive
  <2> QED
    BY <1>0, <1>3, <2>2, Words DEF CanGoOn
<1>4. CASE op[s] = "header" /\ wire[Peer(s)] # None
  BY <1>0, <1>4 DEF CanGoOn
<1>5. CASE op[s] = "body" /\ wire[Peer(s)] = "header"
  <2>1. ~Alive(Peer(s))
    BY <1>5 DEF Cut, Alive
  <2> QED
    BY <1>0, <1>5, <2>1, Words DEF CanGoOn
<1>6. CASE op[s] = "body" /\ wire[Peer(s)] \notin {None, "header"}
  <2>1. wire[Peer(s)] = asked /\ asked \in Kind
    BY <1>0, <1>6 DEF Inv, Requests, Typed
  <2>2. <<s, asked>> \in {<<"loki", "register">>, <<"loki", "request">>, <<"loki", "traced">>,
                         <<"kartos", "request">>, <<"service", "request">>, <<"service", "keepalive">>}
    <3>1. asked = "keepalive" => ~(0 < Place[s] /\ Place[s] < 5)
      BY <1>0, <1>6 DEF Inv, OffTheWay, Untouched
    <3>2. asked \in {"register", "traced"} => ~(Place[s] > 1)
      BY <1>0, <1>6 DEF Inv, OffTheWay, Untouched
    <3>3. <<s, Place[s]>> \in {<<"loki", 1>>, <<"kartos", 3>>, <<"service", 5>>}
      BY Names DEF Place, Server
    <3> QED
      BY <2>1, <3>1, <3>2, <3>3 DEF Kind
  <2>3. asked \in Handled(s)
    BY <2>2 DEF Handled
  <2> QED
    BY <1>0, <1>6, <2>1, <2>3 DEF CanGoOn
<1> QED
  BY <1>1, <1>2, <1>3, <1>4, <1>5, <1>6

\* The last session of the chain that is still there can go on, if the one
\* before it cannot.
LEMMA SomebodyGoesOn == Inv /\ Heard /\ Cut => NeverStuck
<1> SUFFICES ASSUME Inv, Heard, Cut, NEW s \in Node, op[s] # "none"
             PROVE  \E t \in Node : CanGoOn(t)
  BY DEF NeverStuck, Quiet
<1> USE Sides, Peers
<1>0. TypeOK /\ Typed /\ Roles
  BY TypeParts DEF Inv
<1>1. CASE \E t \in Server : op[t] # "none"
  BY <1>1, ListenerGoesOn
<1>2. CASE \A t \in Server : op[t] = "none"
  <2>1. ASSUME NEW c \in Client, op[c] # "none", ~Alive(Peer(c)) PROVE CanGoOn(c)
    <3>1. op[c] \in {"connect", "write", "header", "body"}
      BY <1>0, <2>1 DEF Typed, Roles, Operation
    <3>2. Handled(c) = Object
      BY DEF Handled, Client
    <3> QED
      BY <1>0, <2>1, <3>1, <3>2 DEF CanGoOn
  <2>2. CASE op["toservice"] # "none"
    <3>1. Peer("toservice") = "service"
      BY DEF Peer
    <3>2. ~Alive("service")
      BY <1>2, Names DEF Alive, Father, Child
    <3> QED
      BY <2>1, <2>2, <3>1, <3>2, Names
  <2>3. CASE op["toservice"] = "none" /\ op["tokartos"] # "none"
    <3>1. Peer("tokartos") = "kartos"
      BY DEF Peer
    <3>2. ~Alive("kartos")
      BY <1>2, <2>3, Names DEF Alive, Father, Child
    <3> QED
      BY <2>1, <2>3, <3>1, <3>2, Names
  <2>4. CASE op["toservice"] = "none" /\ op["tokartos"] = "none"
    <3>1. s = "caller"
      BY <1>2, <2>4 DEF Node, Client
    <3>2. ~Alive(Peer("caller"))
      BY <1>2, <2>4, Names DEF Alive, Child
    <3> QED
      BY <2>1, <3>1, <3>2
  <2> QED
    BY <2>2, <2>3, <2>4
<1> QED
  BY <1>1, <1>2

\* NeverStuck: whichever processes stop, at whatever operation, and however
\* sessions are spread over processes, a call that is not over has a session
\* that goes on.
THEOREM GoingOn == Spec => []NeverStuck
<1>1. Init => Inv /\ Heard /\ Cut
  BY InvInit, HeardInit
<1>2. Inv /\ Heard /\ Cut /\ [Next]_vars => (Inv /\ Heard /\ Cut)'
  BY InvNext, HeardNext
<1> QED
  BY <1>1, <1>2, SomebodyGoesOn, PTL DEF Spec
-----------------------------------------------------------------------------
(* And only so many of them.                                               *)

Usual(s) == IF s \in Server THEN {"none", "accept", "header", "body", "write"}
            ELSE {"none", "connect", "write", "header", "body"}

\* How far the end is, in numbers.
LEMMA ServerToGo ==
  /\ ToGo("loki", "accept") = 20 /\ ToGo("loki", "header") = 19 /\ ToGo("loki", "body") = 18
  /\ ToGo("kartos", "accept") = 12 /\ ToGo("kartos", "header") = 11 /\ ToGo("kartos", "body") = 10
  /\ ToGo("service", "accept") = 4 /\ ToGo("service", "header") = 3 /\ ToGo("service", "body") = 2
  /\ \A s \in Server : ToGo(s, "write") = 1 /\ ToGo(s, "none") = 0
  BY DEF ToGo, Server

LEMMA ClientToGo ==
  /\ ToGo("caller", "connect") = 24 /\ ToGo("caller", "write") = 3
  /\ ToGo("caller", "header") = 2 /\ ToGo("caller", "body") = 1
  /\ ToGo("tokartos", "connect") = 17 /\ ToGo("toservice", "connect") = 9
  /\ \A c \in Child : ToGo(c, "write") = 4 /\ ToGo(c, "header") = 3 /\ ToGo(c, "body") = 2
  /\ \A c \in Client : ToGo(c, "none") = 0
  BY DEF ToGo, Server, Child, Client

LEMMA SixNodes ==
  /\ Node = {"caller", "loki", "tokartos", "kartos", "toservice", "service"}
  /\ Server = {"loki", "kartos", "service"}
  /\ Client = {"caller", "tokartos", "toservice"} /\ Child = {"tokartos", "toservice"}
  BY DEF Node, Server, Client, Child

LEMMA ToGoIsNat ==
  ASSUME NEW s \in Node, NEW o \in Usual(s)
  PROVE  ToGo(s, o) \in Nat /\ (o # "none" => ToGo(s, o) > 0)
<1>1. CASE s \in Server
  <2>1. o \in {"none", "accept", "header", "body", "write"}
    BY <1>1 DEF Usual
  <2> QED
    BY <1>1, <2>1, ServerToGo, SixNodes
<1>2. CASE s \in Client
  <2>1. o \in {"none", "connect", "write", "header", "body"}
    BY <1>2, Sides DEF Usual
  <2> QED
    BY <1>2, <2>1, ClientToGo, SixNodes
<1> QED
  BY <1>1, <1>2, Sides

LEMMA Usually ==
  ASSUME TypeOK
  PROVE  \A s \in Node : op[s] \in Usual(s)
  BY Sides DEF TypeOK, Operation, Usual

\* Sessions that end, and one that has come nearer to its end.
LEMMA NoneIsLess ==
  ASSUME TypeOK, TypeOK', \A t \in Node : op'[t] = op[t] \/ op'[t] = "none"
  PROVE  Remaining' <= Remaining
<1>1. ASSUME NEW t \in Node
      PROVE  ToGo(t, op[t]) \in Nat /\ ToGo(t, op'[t]) \in Nat /\ ToGo(t, op'[t]) <= ToGo(t, op[t])
  <2>1. op[t] \in Usual(t) /\ "none" \in Usual(t)
    BY Usually DEF Usual
  <2>2. ToGo(t, op[t]) \in Nat /\ ToGo(t, "none") = 0
    BY <2>1, ToGoIsNat DEF ToGo
  <2> QED
    BY <2>2
<1> QED
  BY <1>1, SixNodes DEF Remaining

LEMMA OneIsLess ==
  ASSUME TypeOK, TypeOK', NEW s \in Node, ToGo(s, op'[s]) < ToGo(s, op[s]),
         \A t \in Node : t = s \/ op'[t] = op[t] \/ op'[t] = "none"
  PROVE  Remaining' < Remaining
<1>1. ASSUME NEW t \in Node
      PROVE  /\ ToGo(t, op[t]) \in Nat /\ ToGo(t, op'[t]) \in Nat
             /\ ToGo(t, op'[t]) <= ToGo(t, op[t])
  <2>1. op[t] \in Usual(t) /\ op'[t] \in Usual(t) /\ "none" \in Usual(t)
    BY Usually, Sides DEF TypeOK, Operation, Usual
  <2>2. ToGo(t, op[t]) \in Nat /\ ToGo(t, op'[t]) \in Nat /\ ToGo(t, "none") = 0
    BY <2>1, ToGoIsNat DEF ToGo
  <2>3. t = s \/ op'[t] = op[t] \/ op'[t] = "none"
    OBVIOUS
  <2> QED
    BY <2>2, <2>3
<1> QED
  BY <1>1, SixNodes DEF Remaining

\* A step of s and another session that begins, which costs less than s saves.
LEMMA TwoAreLess ==
  ASSUME TypeOK, TypeOK', NEW s \in Node, NEW n \in Node, s # n, op[n] = "none",
         ToGo(s, op'[s]) + ToGo(n, op'[n]) < ToGo(s, op[s]),
         \A t \in Node : t = s \/ t = n \/ op'[t] = op[t]
  PROVE  Remaining' < Remaining
<1>1. \A t \in Node : ToGo(t, op[t]) \in Nat /\ ToGo(t, op'[t]) \in Nat
  <2>1. \A t \in Node : op[t] \in Usual(t) /\ op'[t] \in Usual(t)
    BY Usually, Sides DEF TypeOK, Operation, Usual
  <2> QED
    BY <2>1, ToGoIsNat
<1>2. ToGo(n, op[n]) = 0
  BY DEF ToGo
<1>3. \A t \in Node : t = s \/ t = n \/ ToGo(t, op'[t]) = ToGo(t, op[t])
  OBVIOUS
<1> QED
  BY <1>1, <1>2, <1>3, SixNodes DEF Remaining

LEMMA OperateIsNearer ==
  ASSUME Inv, TypeOK', NEW s \in Node, Operate(s)
  PROVE  Remaining' < Remaining
<1>0. TypeOK /\ Typed /\ Roles
  BY TypeParts DEF Inv
<1>1. CASE Connect(s)
  <2>1. op[s] = "connect" /\ s \in Client /\ Peer(s) \in Server
    BY <1>0, <1>1, Sides, Peers DEF Connect, Roles
  <2>2. op[Peer(s)] = "none"
    BY <2>1, Sides, Order, Ways DEF Inv, Connecting, Untouched
  <2>3. op'[s] = "write" /\ op'[Peer(s)] = "accept" /\ \A t \in Node : t = s \/ t = Peer(s) \/ op'[t] = op[t]
    BY <1>0, <1>1, <2>1, ConnectDoes, Sides
  <2>4. ToGo(s, "write") + ToGo(Peer(s), "accept") < ToGo(s, "connect")
    BY <2>1, ServerToGo, ClientToGo, SixNodes DEF Peer
  <2> QED
    BY <1>0, <2>1, <2>2, <2>3, <2>4, TwoAreLess, Sides
<1>2. CASE Accept(s)
  <2>1. s \in Server /\ op[s] = "accept" /\ op'[s] = "header" /\ \A t \in Node : t = s \/ op'[t] = op[t]
    BY <1>0, <1>2, AcceptDoes, Sides DEF Roles
  <2>2. ToGo(s, "header") < ToGo(s, "accept")
    BY <2>1, ServerToGo, SixNodes
  <2> QED
    BY <1>0, <2>1, <2>2, OneIsLess
<1>3. CASE Write(s)
  <2>1. /\ op[s] = "write" /\ op'[s] = IF s \in Client THEN "header" ELSE "none"
        /\ \A t \in Node : t = s \/ op'[t] = op[t]
    BY <1>0, <1>3, WriteDoes
  <2>2. ToGo(s, op'[s]) < ToGo(s, "write")
    BY <2>1, ServerToGo, ClientToGo, SixNodes
  <2> QED
    BY <1>0, <2>1, <2>2, OneIsLess
<1>4. CASE ReadHeader(s)
  <2>1. op[s] = "header" /\ op'[s] = "body" /\ \A t \in Node : t = s \/ op'[t] = op[t]
    BY <1>0, <1>4, ReadHeaderDoes
  <2>2. ToGo(s, "body") < ToGo(s, "header")
    BY <2>1, ServerToGo, ClientToGo, SixNodes
  <2> QED
    BY <1>0, <2>1, <2>2, OneIsLess
<1>5. CASE Fail(s) /\ op[s] # "none"
  <2>1. op'[s] = "none" /\ \A t \in Node : op'[t] = op[t] \/ op'[t] = "none"
    <3>1. CASE s = "caller" /\ Stop(Home["caller"])
      BY <1>0, <1>5, <3>1, StopDoes, HomeOfAll, Sides
    <3>2. CASE \A t \in Node : op'[t] = IF t = s THEN "none" ELSE op[t]
      BY <3>2
    <3> QED
      BY <1>0, <1>5, <3>1, <3>2, FailDoes
  <2>2. ToGo(s, "none") < ToGo(s, op[s])
    BY <1>0, <1>5, Usually, ToGoIsNat DEF ToGo
  <2> QED
    BY <1>0, <2>1, <2>2, OneIsLess
<1>6. CASE ConnectFails(s) \/ WriteFails(s) \/ ReadFails(s)
  BY <1>5, <1>6 DEF ConnectFails, WriteFails, ReadFails
<1> QED
  BY <1>1, <1>2, <1>3, <1>4, <1>6 DEF Operate

LEMMA ReceiveIsNearer ==
  ASSUME Inv, TypeOK', NEW s \in Node, Receive(s)
  PROVE  Remaining' < Remaining
<1>0. TypeOK /\ Typed /\ Roles
  BY TypeParts DEF Inv
<1>1. ASSUME NEW n \in Server, NEW o \in Object, NEW r \in Object, Received(n, o), Respond(n, r)
      PROVE  Remaining' < Remaining
  <2>1. /\ n \in Node /\ op[n] = "body" /\ op'[n] = "write"
        /\ \A t \in Node : t = n \/ op'[t] = op[t]
    BY <1>0, <1>1, ReceivedDoes, RespondDoes, Sides
  <2>2. ToGo(n, "write") < ToGo(n, "body")
    BY <2>1, ServerToGo, SixNodes
  <2> QED
    BY <1>0, <2>1, <2>2, OneIsLess
<1>2. ASSUME NEW c \in Child, Received(Father[c], "request"), Forward(Father[c], c, "request")
      PROVE  Remaining' < Remaining
  <2>1. Father[c] \in Server /\ Father[c] \in Node /\ c \in Node /\ c # Father[c]
    BY Sides
  <2>2. /\ op[Father[c]] = "body" /\ op'[Father[c]] = "none" /\ op'[c] = "connect"
        /\ \A t \in Node : t = Father[c] \/ t = c \/ op'[t] = op[t]
    <3>1. Forward(Father[c], c, "request") /\ "request" \in Object
      BY <1>2, Names
    <3>2. op[Father[c]] = "body"
      BY <1>2 DEF Received
    <3>3. \A t \in Node : op'[t] = IF t = Father[c] THEN "none"
                                   ELSE IF t = c THEN "connect" ELSE op[t]
      BY <1>0, <2>1, <3>1, ForwardDoes
    <3> QED BY <2>1, <3>2, <3>3
  <2>3. op[c] = "none"
    BY <2>1, <2>2, Order DEF Inv, Hearing, Untouched
  <2>4. ToGo(Father[c], "none") + ToGo(c, "connect") < ToGo(Father[c], "body")
    BY ServerToGo, ClientToGo, SixNodes DEF Father
  <2> QED
    BY <1>0, <2>1, <2>2, <2>3, <2>4, TwoAreLess
<1>3. ASSUME NEW c \in Child, ChildReceives(c) PROVE Remaining' < Remaining
  <2>1. PICK o \in Object : Received(c, o)
    BY <1>3 DEF ChildReceives
  <2>2. Father[c] \in Server /\ Father[c] \in Node /\ c \in Node /\ c # Father[c]
    BY Sides
  <2>3. /\ op[c] = "body" /\ op'[c] = "none" /\ op'[Father[c]] = "write"
        /\ \A t \in Node : t = c \/ t = Father[c] \/ op'[t] = op[t]
    BY <1>0, <1>3, <2>1, <2>2, ChildReceivesDoes DEF Received
  <2>4. op[Father[c]] = "none"
    BY <2>3 DEF Inv, ObjectInHand
  <2>5. ToGo(c, "none") + ToGo(Father[c], "write") < ToGo(c, "body")
    BY <2>2, ServerToGo, ClientToGo, Sides
  <2> QED
    BY <1>0, <2>2, <2>3, <2>4, <2>5, TwoAreLess
<1>4. CASE CallerReceives
  <2>1. op["caller"] = "body" /\ op'["caller"] = "none" /\ \A t \in Node : t = "caller" \/ op'[t] = op[t]
    BY <1>0, <1>4, CallerReceivesDoes, Sides DEF Received
  <2>2. ToGo("caller", "none") < ToGo("caller", "body")
    BY ClientToGo, Sides
  <2> QED
    BY <1>0, <2>1, <2>2, OneIsLess, Sides
<1>5. ASSUME NEW n \in Node, NEW o \in Object, GiveUp(n, o) PROVE Remaining' < Remaining
  <2>1. /\ n \in Server /\ op[n] = "body" /\ op'[n] = "none"
        /\ \A t \in Node : t = n \/ op'[t] = op[t]
    BY <1>0, <1>5, GiveUpDoes DEF Received
  <2>2. ToGo(n, "none") < ToGo(n, "body")
    BY <2>1, ServerToGo, SixNodes
  <2> QED
    BY <1>0, <2>1, <2>2, OneIsLess
<1>6. CASE LokiRegister \/ ServiceRequest \/ ServiceUnknown \/ ServiceKeepAlive
  BY <1>1, <1>6, Names DEF LokiRegister, ServiceRequest, ServiceUnknown, ServiceKeepAlive
<1>7. CASE LokiRequest \/ KartosRequest
  <2>1. Father["tokartos"] = "loki" /\ Father["toservice"] = "kartos"
    BY DEF Father, Child
  <2> QED
    BY <1>1, <1>2, <1>7, <2>1, Names DEF LokiRequest, KartosRequest
<1> QED
  BY <1>3, <1>4, <1>5, <1>6, <1>7 DEF Receive

\* A step of one of these kinds is nearer to the end; no other one is further.
LEMMA StepIsNearer ==
  ASSUME Inv, Inv', [Next]_vars, asked # None
  PROVE  /\ Remaining' <= Remaining
         /\ (\E s \in Node : Operate(s) \/ Receive(s)) => Remaining' < Remaining
<1>0. TypeOK /\ TypeOK' /\ Remaining \in Nat /\ Remaining' \in Nat
  <2>1. TypeOK /\ TypeOK'
    BY DEF Inv
  <2>2. \A t \in Node : op[t] \in Usual(t) /\ op'[t] \in Usual(t)
    BY <2>1, Usually, Sides DEF TypeOK, Operation, Usual
  <2>3. \A t \in Node : ToGo(t, op[t]) \in Nat /\ ToGo(t, op'[t]) \in Nat
    BY <2>2, ToGoIsNat
  <2> QED
    BY <2>1, <2>3, SixNodes DEF Remaining
<1>1. (\E s \in Node : Operate(s) \/ Receive(s)) => Remaining' < Remaining
  BY <1>0, OperateIsNearer, ReceiveIsNearer
<1>2. CASE Return \/ UNCHANGED vars \/ \E p \in Process : Crash(p) \/ Restart(p)
  <2>1. \A t \in Node : op'[t] = op[t] \/ op'[t] = "none"
    BY <1>0, <1>2, ReturnDoes, StopDoes DEF vars, Crash, Restart
  <2> QED
    BY <1>0, <1>1, <2>1, NoneIsLess
<1>3. ~\E kind \in Kind : Call(kind)
  BY DEF Call
<1>4. CASE \E s \in Node : Operate(s) \/ Receive(s)
  BY <1>0, <1>1, <1>4
<1> QED
  BY <1>1, <1>2, <1>3, <1>4 DEF Next, Environment

\* NearerToTheEnd: no operation of a call is done over again, and no process
\* that stops or starts sets the call back.
THEOREM Nearer == Spec => NearerToTheEnd
<1>1. Inv /\ Inv' /\ [Next]_vars =>
        [asked # None =>
          /\ Remaining' <= Remaining
          /\ (\E s \in Node : Operate(s) \/ Receive(s)) => Remaining' < Remaining]_vars
  BY StepIsNearer
<1> QED
  BY <1>1, InvInit, InvNext, PTL DEF Spec, NearerToTheEnd
=============================================================================
