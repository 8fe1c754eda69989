------------------------------- MODULE Session -------------------------------
(***************************************************************************)
(* The sessions of one call.  The caller blocks in a SyncSession.  Loki    *)
(* and Kartos each accept a BladeSession and open another one, its child,  *)
(* towards the next party; the service accepts the last one:               *)
(*                                                                         *)
(*   caller - loki .. tokartos - kartos .. toservice - service             *)
(*                                                                         *)
(* A session lives as long as an operation of its socket is pending, since *)
(* the handler of the operation holds it, or its child lives, which holds  *)
(* its father.  When nothing keeps a session, its socket is closed, and    *)
(* this is the only way in which an end or a failure travels along the     *)
(* chain.  There is one request and one reply to a connection.             *)
(*                                                                         *)
(* A register goes to Loki and no further, and the keep-alive of the       *)
(* Watchdog from the caller straight to the service.                       *)
(***************************************************************************)
EXTENDS Naturals

CONSTANTS
  Process,
  Home,        \* the process of each session
  Unreliable,  \* the processes that may stop at any time
  None

Client == {"caller", "tokartos", "toservice"}
Child == {"tokartos", "toservice"}
Server == {"loki", "kartos", "service"}
Node == Client \cup Server

Father == [c \in Child |-> IF c = "tokartos" THEN "loki" ELSE "kartos"]

ASSUME HomeOfAll == Home \in [Node -> Process]
ASSUME ChildAtHome == \A c \in Child : Home[c] = Home[Father[c]]

Kind == {"request", "traced", "register", "keepalive"}
Object == Kind \cup {"reply", "no service"}

ASSUME NoneIsNothing == None \notin Object \cup {"header", "own", "broken", "nullptr"}

VARIABLES
  asked,       \* the kind of call that is made
  op,          \* the operation pending for each session
  obj,         \* now_obj_
  wire,        \* what a session has sent and its peer has not taken
  up,          \* is the process there?
  told,        \* what Call returned: an object, or how it failed
  ran,         \* history: how often the party that was called did its part
  trouble      \* history: did a process stop, or Loki or Kartos give up?

vars == <<asked, op, obj, wire, up, told, ran, trouble>>

Peer(s) ==
  CASE s = "caller" -> IF asked = "keepalive" THEN "service" ELSE "loki"
    [] s = "service" -> IF asked = "keepalive" THEN "caller" ELSE "toservice"
    [] s = "loki" -> "caller"
    [] s = "tokartos" -> "kartos"
    [] s = "kartos" -> "tokartos"
    [] s = "toservice" -> "service"

BugNotHeld(s) == op[s] # "none"
Alive(s) == op[s] # "none" \/ \E c \in Child : Father[c] = s /\ op[c] # "none"

Quiet == \A s \in Node : op[s] = "none"

Init ==
  /\ asked = None
  /\ op = [s \in Node |-> "none"]
  /\ obj = [s \in Node |-> None]
  /\ wire = [s \in Node |-> None]
  /\ up = [p \in Process |-> TRUE]
  /\ told = None /\ ran = 0 /\ trouble = FALSE

-----------------------------------------------------------------------------
(* The caller.                                                             *)

Call(kind) ==
  /\ asked = None /\ up[Home["caller"]]
  /\ asked' = kind
  /\ op' = [op EXCEPT !["caller"] = "connect"]
  /\ obj' = [obj EXCEPT !["caller"] = kind]
  /\ trouble' = \E p \in Process : ~up[p]
  /\ UNCHANGED <<wire, up, told, ran>>

\* The next call, as soon as nothing is left of this one (a bound of the model).
Return ==
  /\ asked # None /\ Quiet
  /\ asked' = None /\ told' = None /\ ran' = 0
  /\ obj' = [s \in Node |-> None] /\ wire' = [s \in Node |-> None]
  /\ UNCHANGED <<op, up, trouble>>

\* What ends with a process: all its sessions.  What they have sent may be
\* lost with them, and of what they were sending a part may have arrived.
Stop(p) ==
  LET Lost == {s \in Node : Home[s] = p}
  IN  /\ op' = [s \in Node |-> IF s \in Lost THEN "none" ELSE op[s]]
      /\ up' = [up EXCEPT ![p] = FALSE]
      /\ \E lost \in SUBSET {s \in Lost : Alive(s)}, cut \in SUBSET {s \in Lost : op[s] = "write"} :
           wire' = [s \in Node |-> IF s \in cut THEN "header"
                                   ELSE IF s \in lost THEN None ELSE wire[s]]

\* Call clones now_obj_ whatever Start returns: the request itself until it is
\* written, and null after that.  CallExtNotSure returns null.
CallerFails ==
  /\ told' = IF asked = "keepalive" THEN "nullptr"
             ELSE IF obj["caller"] # None THEN "own" ELSE "broken"
  /\ IF told' = "broken"
     THEN Stop(Home["caller"])
     ELSE op' = [op EXCEPT !["caller"] = "none"] /\ UNCHANGED <<wire, up>>

\* No policy does anything about an error but write to the log.
BugConnectsAgain(s) ==         \* a child tries once more after an error
  /\ IF s = "caller" THEN CallerFails
     ELSE /\ op' = [op EXCEPT ![s] = IF s \in Child THEN "connect" ELSE "none"]
          /\ UNCHANGED <<wire, up, told>>
  /\ UNCHANGED <<asked, obj, ran, trouble>>

Fail(s) ==
  /\ IF s = "caller" THEN CallerFails
     ELSE op' = [op EXCEPT ![s] = "none"] /\ UNCHANGED <<wire, up, told>>
  /\ UNCHANGED <<asked, obj, ran, trouble>>

-----------------------------------------------------------------------------
(* The operations of a session, up to the callback of its policy.          *)

\* DoConnect and OnConnected.  The connection waits to be accepted.
Connect(s) ==
  /\ op[s] = "connect" /\ up[Home[Peer(s)]]
  /\ op' = [op EXCEPT ![s] = "write", ![Peer(s)] = "accept"]
  /\ obj' = [obj EXCEPT ![s] = IF s \in Child THEN obj[Father[s]] ELSE @]
  /\ UNCHANGED <<asked, wire, up, told, ran, trouble>>

ConnectFails(s) ==
  /\ op[s] = "connect" /\ ~up[Home[Peer(s)]]
  /\ Fail(s)

\* DoAccept, and OnStart of the clone of the policy.
Accept(s) ==
  /\ op[s] = "accept"
  /\ op' = [op EXCEPT ![s] = "header"]
  /\ UNCHANGED <<asked, obj, wire, up, told, ran, trouble>>

\* DoWrite and OnWrote.  A write to a socket that the peer has closed may go
\* unnoticed.
Write(s) ==
  /\ op[s] = "write"
  /\ wire' = [wire EXCEPT ![s] = IF Alive(Peer(s)) THEN obj[s] ELSE @]
  /\ obj' = [obj EXCEPT ![s] = None]
  /\ op' = [op EXCEPT ![s] = IF s \in Client THEN "header" ELSE "none"]
  /\ UNCHANGED <<asked, up, told, ran, trouble>>

WriteFails(s) ==
  /\ op[s] = "write" /\ ~Alive(Peer(s))
  /\ Fail(s)

ReadHeader(s) ==
  /\ op[s] = "header" /\ wire[Peer(s)] # None
  /\ op' = [op EXCEPT ![s] = "body"]
  /\ obj' = [obj EXCEPT ![s] = None]
  /\ UNCHANGED <<asked, wire, up, told, ran, trouble>>

BugWaitsOn(s) ==               \* a body that breaks off is waited for
  /\ op[s] = "header" /\ ~Alive(Peer(s)) /\ wire[Peer(s)] = None
  /\ Fail(s)

ReadFails(s) ==
  /\ ~Alive(Peer(s))
  /\ \/ op[s] = "header" /\ wire[Peer(s)] = None
     \/ op[s] = "body" /\ wire[Peer(s)] \notin Object
  /\ Fail(s)

\* A session has the object o in whole, as its policy is told.
Received(s, o) ==
  /\ op[s] = "body" /\ wire[Peer(s)] = o
  /\ wire' = [wire EXCEPT ![Peer(s)] = None]

BugReadsAgain(s, o) ==       \* the policy has the session read, not write
  /\ obj' = [obj EXCEPT ![s] = o]
  /\ op' = [op EXCEPT ![s] = "header"]

Respond(s, o) ==
  /\ obj' = [obj EXCEPT ![s] = o]
  /\ op' = [op EXCEPT ![s] = "write"]

\* A new session to the next party, which holds this one.
BugConnectsItself(s, c, o) ==  \* ExecConnect of the father, not of the child
  /\ obj' = [obj EXCEPT ![s] = o]
  /\ op' = [op EXCEPT ![s] = "connect"]

BugReadsOn(s, c, o) ==         \* the father reads the next request meanwhile
  /\ obj' = [obj EXCEPT ![s] = o]
  /\ op' = [op EXCEPT ![s] = "header", ![c] = "connect"]

Forward(s, c, o) ==
  /\ obj' = [obj EXCEPT ![s] = o]
  /\ op' = [op EXCEPT ![s] = "none", ![c] = "connect"]

-----------------------------------------------------------------------------
(* OnRecvWholeBladeObject of each policy.                                  *)

\* Loki has the name in its table now, whatever comes of its call to ICE.
LokiRegister ==
  /\ Received("loki", "register") /\ Respond("loki", "register")
  /\ ran' = ran + 1
  /\ UNCHANGED <<asked, up, told, trouble>>

\* By the answer of ICE.
LokiRequest ==
  /\ Received("loki", "request")
  /\ Forward("loki", "tokartos", "request") \/ Respond("loki", "no service")
  /\ UNCHANGED <<asked, up, told, ran, trouble>>

\* An exception, if ICE is out of reach or Kartos has no port for the name; no
\* branch at all, if the request has a trace id.
GiveUp(s, o) ==
  /\ <<s, o>> \in {<<"loki", "request">>, <<"loki", "traced">>, <<"kartos", "request">>}
  /\ Received(s, o)
  /\ obj' = [obj EXCEPT ![s] = o]
  /\ op' = [op EXCEPT ![s] = "none"]
  /\ trouble' = TRUE
  /\ UNCHANGED <<asked, up, told, ran>>

KartosRequest ==
  /\ Received("kartos", "request") /\ Forward("kartos", "toservice", "request")
  /\ UNCHANGED <<asked, up, told, ran, trouble>>

\* The handler of the name returns its result.
ServiceRequest ==
  /\ Received("service", "request") /\ Respond("service", "reply")
  /\ ran' = ran + 1
  /\ UNCHANGED <<asked, up, told, trouble>>

\* A name that f_ does not have: the session writes what it has, the request.
ServiceUnknown ==
  /\ Received("service", "request") /\ Respond("service", "request")
  /\ UNCHANGED <<asked, up, told, ran, trouble>>

ServiceKeepAlive ==
  /\ Received("service", "keepalive") /\ Respond("service", "keepalive")
  /\ ran' = ran + 1
  /\ UNCHANGED <<asked, up, told, trouble>>

\* ClientSessionPolicy hands the reply to the father, who writes it in
\* OnChildDie; the child has nothing left to do.
ChildReceives(c) ==
  /\ \E o \in Object :
       /\ Received(c, o)
       /\ obj' = [obj EXCEPT ![c] = o, ![Father[c]] = o]
  /\ op' = [op EXCEPT ![c] = "none", ![Father[c]] = "write"]
  /\ UNCHANGED <<asked, up, told, ran, trouble>>

CallerReceives ==
  /\ \E o \in Object :
       /\ Received("caller", o)
       /\ obj' = [obj EXCEPT !["caller"] = o]
       /\ told' = o
  /\ op' = [op EXCEPT !["caller"] = "none"]
  /\ UNCHANGED <<asked, up, ran, trouble>>

-----------------------------------------------------------------------------
(* Processes stop and come back; the caller's end is the end of its call.  *)

Crash(p) ==
  /\ p \in Unreliable /\ up[p]
  /\ Stop(p)
  /\ told' = IF Home["caller"] = p /\ op["caller"] # "none" THEN "broken" ELSE told
  /\ trouble' = TRUE
  /\ UNCHANGED <<asked, obj, ran>>

Restart(p) ==
  /\ ~up[p]
  /\ up' = [up EXCEPT ![p] = TRUE]
  /\ UNCHANGED <<asked, op, obj, wire, told, ran, trouble>>

-----------------------------------------------------------------------------
Operate(s) == \/ Connect(s) \/ ConnectFails(s) \/ Accept(s)
              \/ Write(s) \/ WriteFails(s) \/ ReadHeader(s) \/ ReadFails(s)

Receive(s) ==
  \/ s = "loki" /\ (LokiRegister \/ LokiRequest)
  \/ s = "kartos" /\ KartosRequest
  \/ s = "service" /\ (ServiceRequest \/ ServiceUnknown \/ ServiceKeepAlive)
  \/ s = "caller" /\ CallerReceives
  \/ s \in Child /\ ChildReceives(s)
  \/ \E o \in Object : GiveUp(s, o)

Environment == \/ \E kind \in Kind : Call(kind)
               \/ Return
               \/ \E p \in Process : Crash(p) \/ Restart(p)

Next == Environment \/ \E s \in Node : Operate(s) \/ Receive(s)

Spec == Init /\ [][Next]_vars

(* The reactors run: what a session waits for is handed to it once it is   *)
(* there.  (Which thread may hold them up for how long is the subject of   *)
(* Routing.)  Nothing must call, stop or start.                            *)
Fairness == \A s \in Node : WF_vars(Operate(s) \/ Receive(s))

FairSpec == Spec /\ Fairness

-----------------------------------------------------------------------------
Operation == {"none", "connect", "accept", "write", "header", "body"}

\* The type invariant, with what ties the call to the record of its outcome.
TypeOK ==
  /\ asked \in Kind \cup {None}
  /\ op \in [Node -> Operation]
  /\ \A s \in Server : op[s] # "connect"
  /\ \A c \in Client : op[c] # "accept"
  /\ obj \in [Node -> Object \cup {None}]
  /\ wire \in [Node -> Object \cup {None, "header"}]
  /\ up \in [Process -> BOOLEAN]
  /\ \A s \in Node : op[s] # "none" => up[Home[s]]
  /\ told \in Object \cup {None, "own", "broken", "nullptr"}
  /\ op["caller"] = "none" <=> asked = None \/ told # None
  /\ ran \in Nat /\ trouble \in BOOLEAN

(* What a session is about to use is there: the object it writes, which    *)
(* DoWrite dereferences, and for a child that connects the request of its  *)
(* father, of which OnConnected makes a clone.  And a session has one      *)
(* operation at a time: a father does not read or write under its child.   *)
ObjectInHand ==
  /\ \A s \in Node : op[s] = "write" => obj[s] # None
  /\ \A c \in Child :
       /\ op[c] # "none" => op[Father[c]] = "none"
       /\ op[c] = "connect" => obj[Father[c]] # None

(* No session lets go of a call for no reason: a caller that gets its own  *)
(* request, or nothing, had a process stop on it, or was given up by Loki  *)
(* or Kartos.  That the child holds its father is what this needs.         *)
BrokenForAReason == told \in {"own", "broken", "nullptr"} => trouble

(* A call leaves nothing behind: whoever stops in the middle, its sessions *)
(* all end, at every party, and the caller is not left waiting.            *)
SessionsEnd == asked # None ~> Quiet /\ (asked = None \/ told # None)

-----------------------------------------------------------------------------
(* What SessionsEnd rests on, without its fairness: a call that is not     *)
(* over has a step to make, and only so many of them.                      *)

\* The objects for which the policy of a session has a branch.
Handled(s) == CASE s = "loki" -> {"register", "request", "traced"}
                [] s = "kartos" -> {"request"}
                [] s = "service" -> {"request", "keepalive"}
                [] s \in Client -> Object

\* The operation of a session completes, or fails.
CanGoOn(s) ==
  \/ op[s] \in {"connect", "accept", "write"}
  \/ op[s] = "header" /\ (wire[Peer(s)] # None \/ ~Alive(Peer(s)))
  \/ op[s] = "body" /\ wire[Peer(s)] \in Handled(s)
  \/ op[s] = "body" /\ wire[Peer(s)] \notin Object /\ ~Alive(Peer(s))

(* Sessions do not wait for each other, neither two that both read nor a   *)
(* whole chain, and none has an object for which its policy has no branch: *)
(* whatever has stopped, some session goes on until none is left.          *)
NeverStuck == Quiet \/ \E s \in Node : CanGoOn(s)

\* How many completions a session with operation o may still bring about, its
\* own and those of the sessions it will have opened or been accepted by.
ToGo(s, o) ==
  IF o = "none" THEN 0
  ELSE IF s \in Server THEN
    LET below == CASE s = "loki" -> 17 [] s = "kartos" -> 9 [] s = "service" -> 1
    IN  CASE o = "accept" -> below + 3 [] o = "header" -> below + 2
          [] o = "body" -> below + 1 [] o = "write" -> 1
  ELSE
    LET back == IF s = "caller" THEN 0 ELSE 1      \* the father's write
    IN  CASE o = "connect" -> (CASE s = "caller" -> 24 [] s = "tokartos" -> 17
                                 [] s = "toservice" -> 9)
          [] o = "write" -> back + 3 [] o = "header" -> back + 2
          [] o = "body" -> back + 1

Remaining ==
  ToGo("caller", op["caller"]) + ToGo("loki", op["loki"])
    + ToGo("tokartos", op["tokartos"]) + ToGo("kartos", op["kartos"])
    + ToGo("toservice", op["toservice"]) + ToGo("service", op["service"])

(* Nothing of a call is done over again: every completion and every        *)
(* failure brings the call nearer to its end, and nothing that happens     *)
(* around it sets it back, so that it is over after 24 steps at most.      *)
NearerToTheEnd ==
  [][asked # None =>
       /\ Remaining' <= Remaining
       /\ (\E s \in Node : Operate(s) \/ Receive(s)) => Remaining' < Remaining]_vars

-----------------------------------------------------------------------------
\* A call as its caller can judge it.
Judge(kind, result) ==
  CASE kind = None -> "none"
    [] kind # None /\ result = None -> "waiting"
    [] kind # None /\ result \in {"broken", "nullptr"} -> "broken"
    [] \/ kind # None /\ result \in {"own", "no service"}
       \/ kind = "request" /\ result = "request" -> "refused"
    [] OTHER -> "answered"

(* Down to single operations of sockets, and whoever stops, the sessions   *)
(* do no more and no less than a call promises.                            *)
Promise == INSTANCE CallSpec WITH outcome <- Judge(asked, told)
ImplementsCall == Promise!Spec
=============================================================================
