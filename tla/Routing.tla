------------------------------- MODULE Routing -------------------------------
(***************************************************************************)
(* The way of a call through one host: from a caller to Loki, which asks   *)
(* ICE where the service is, on to Kartos, which asks the table of Atreus  *)
(* for the port, on to the service, and back.  Every box on the way is one *)
(* thread.  Callers block in SyncSession::Call, and so does a service      *)
(* whose handler calls another service.                                    *)
(*                                                                         *)
(* Beside them the Watchdog runs its Check: it takes the write lock of the *)
(* table that Kartos reads and probes one service after the other, waiting *)
(* for each as long as it takes.                                           *)
(*                                                                         *)
(* All services are registered to begin with, and ICE is in reach; how the *)
(* table and ICE come by their entries is the subject of Discovery.  Since *)
(* the Watchdog tells ICE before it lets go of the lock, the two are one   *)
(* set here.                                                               *)
(***************************************************************************)
EXTENDS Naturals

CONSTANTS
  Service, Client,
  Calls,       \* the pairs <<c, s>>: c, a client or a handler of c, may call s
  Traced,      \* those of them that put a trace id on their requests
  None

ASSUME Distinct == Service \cap Client = {} /\ None \notin Service \cup Client

\* The two threads of the host that somebody may wait for are no services.
ASSUME Threads == "Kartos" \notin Service /\ "Watchdog" \notin Service

Caller == Client \cup Service

ASSUME CallsToServices == Calls \subseteq Caller \X Service /\ Traced \subseteq Calls

VARIABLES
  call,        \* of each caller the call it waits for, and how often it ran
  up,          \* is the process there?
  work,        \* the caller for which each service runs a handler
  asked,       \* has the handler made a call of its own?
  kartos,      \* the caller whose request the Kartos thread looks up
  known,       \* services_ of Atreus, and what ICE has for this host
  wd           \* Watchdog::Check

vars == <<call, up, work, asked, kartos, known, wd>>

NoCall == [at |-> "none", to |-> None, result |-> "ok", ran |-> 0]
WdIdle == [at |-> "idle", left |-> {}, now |-> None, dead |-> {}]

Locked == wd.at # "idle"

Init ==
  /\ call = [c \in Caller |-> NoCall]
  /\ up = [p \in Caller |-> TRUE]
  /\ work = [s \in Service |-> None]
  /\ asked = [s \in Service |-> FALSE]
  /\ kartos = None
  /\ known = Service
  /\ wd = WdIdle

\* The call of c goes on to a stage, has its handler run, or ends with a result.
Move(c, stage) == call' = [call EXCEPT ![c].at = stage]
Run(c) == call' = [call EXCEPT ![c].at = "running", ![c].ran = @ + 1]
End(c, stage, result) ==
  call' = [call EXCEPT ![c].at = stage, ![c].result = result]

-----------------------------------------------------------------------------
(* Callers.                                                                *)

Request(c, s) ==
  [call EXCEPT ![c] = [at |-> "loki", to |-> s, result |-> "ok", ran |-> 0]]

ClientCall(c, s) ==
  /\ up[c] /\ call[c] = NoCall
  /\ call' = Request(c, s)
  /\ UNCHANGED <<up, work, asked, kartos, known, wd>>

BugForgetsQueue(p) ==          \* the calls it has not begun with are not broken off
  /\ up' = [up EXCEPT ![p] = FALSE]
  /\ call' = [c \in Caller |->
                CASE c = p /\ call[c].at = "reply" -> NoCall
                  [] call[c].to = p /\ call[c].at = "running" ->
                       [call[c] EXCEPT !.at = "kback", !.result = "broken"]
                  [] OTHER -> call[c]]
  /\ work' = [s \in Service |-> IF s = p THEN None ELSE work[s]]
  /\ wd' = IF wd.now = p THEN [wd EXCEPT !.now = None, !.dead = @ \cup {p}] ELSE wd

BugEmptyReply(p) ==            \* the calls it has to answer get an empty reply
  /\ up' = [up EXCEPT ![p] = FALSE]
  /\ call' = [c \in Caller |->
                CASE c = p /\ call[c].at = "reply" -> NoCall
                  [] call[c].to = p /\ call[c].at \in {"service", "running"} ->
                       [call[c] EXCEPT !.at = "kback"]
                  [] OTHER -> call[c]]
  /\ work' = [s \in Service |-> IF s = p THEN None ELSE work[s]]
  /\ wd' = IF wd.now = p THEN [wd EXCEPT !.now = None, !.dead = @ \cup {p}] ELSE wd

\* What ends with a process: its socket, and so the calls it has to answer,
\* and a probe of it.  What it had sent itself goes on without it.
Die(p) ==
  /\ up' = [up EXCEPT ![p] = FALSE]
  /\ call' = [c \in Caller |->
                CASE c = p /\ call[c].at = "reply" -> NoCall
                  [] call[c].to = p /\ call[c].at \in {"service", "running"} ->
                       [call[c] EXCEPT !.at = "kback", !.result = "broken"]
                  [] OTHER -> call[c]]
  /\ work' = [s \in Service |-> IF s = p THEN None ELSE work[s]]
  /\ wd' = IF wd.now = p THEN [wd EXCEPT !.now = None, !.dead = @ \cup {p}] ELSE wd

\* SyncSession::Call dereferences the reply, which is null if the connection
\* broke off.
Receive(c) ==
  /\ call[c].at = "reply"
  /\ IF up[c] /\ call[c].result = "broken"
     THEN Die(c)
     ELSE call' = [call EXCEPT ![c] = NoCall] /\ UNCHANGED <<up, work, wd>>
  /\ UNCHANGED <<asked, kartos, known>>

\* A new client, which takes the place of one that is gone.
ClientStart(c) ==
  /\ ~up[c] /\ call[c] = NoCall
  /\ up' = [up EXCEPT ![c] = TRUE]
  /\ UNCHANGED <<call, work, asked, kartos, known, wd>>

-----------------------------------------------------------------------------
(* Loki.                                                                   *)

\* Loki compares the trace id with the type of a request, which is 0, and
\* drops any session that has one.
Routable(c) == <<c, call[c].to>> \notin Traced

BugNoAnswer(c) ==              \* the kNoService reply is never written
  /\ call[c].at = "loki" /\ Routable(c) /\ call[c].to \in known
  /\ Move(c, "kartos")
  /\ UNCHANGED <<up, work, asked, kartos, known, wd>>

LokiRequest(c) ==
  /\ call[c].at = "loki"
  /\ \/ Routable(c) /\ call[c].to \in known /\ Move(c, "kartos")
     \/ Routable(c) /\ call[c].to \notin known /\ End(c, "reply", "no service")
     \/ ~Routable(c) /\ End(c, "reply", "broken")
  /\ UNCHANGED <<up, work, asked, kartos, known, wd>>

\* The child session of the call has the reply, or has lost its peer.
LokiChildDie(c) ==
  /\ call[c].at = "lback"
  /\ Move(c, "reply")
  /\ UNCHANGED <<up, work, asked, kartos, known, wd>>

-----------------------------------------------------------------------------
(* Kartos.                                                                 *)

\* The thread has a request in hand and waits for the lock.
KartosRequest(c) ==
  /\ kartos = None /\ call[c].at = "kartos"
  /\ Move(c, "lookup")
  /\ kartos' = c
  /\ UNCHANGED <<up, work, asked, known, wd>>

\* Without a port the session is dropped.
KartosQuery ==
  /\ kartos # None /\ ~Locked
  /\ IF call[kartos].to \in known THEN Move(kartos, "connect")
     ELSE End(kartos, "lback", "broken")
  /\ kartos' = None
  /\ UNCHANGED <<up, work, asked, known, wd>>

\* The child session, later: connected it writes the request; without anybody
\* at the port it is dropped, and the session that it holds with it.
KartosConnect(c) ==
  /\ kartos = None /\ call[c].at = "connect"
  /\ IF up[call[c].to] THEN Move(c, "service") ELSE End(c, "lback", "broken")
  /\ UNCHANGED <<up, work, asked, kartos, known, wd>>

KartosChildDie(c) ==
  /\ kartos = None /\ call[c].at = "kback"
  /\ Move(c, "lback")
  /\ UNCHANGED <<up, work, asked, kartos, known, wd>>

-----------------------------------------------------------------------------
(* A service: one thread, one handler at a time.                           *)

Begin(s, c) ==
  /\ up[s] /\ work[s] = None
  /\ call[c].at = "service" /\ call[c].to = s
  /\ Run(c)
  /\ work' = [work EXCEPT ![s] = c]
  /\ asked' = [asked EXCEPT ![s] = FALSE]
  /\ UNCHANGED <<up, kartos, known, wd>>

\* (One call per handler, a bound of the model.)
NestedCall(s, t) ==
  /\ work[s] # None /\ ~asked[s]
  /\ call[s] = NoCall
  /\ call' = Request(s, t)
  /\ asked' = [asked EXCEPT ![s] = TRUE]
  /\ UNCHANGED <<up, work, kartos, known, wd>>

BugStaysBusy(s) ==
  /\ work[s] # None /\ call[s] = NoCall
  /\ Move(work[s], "kback")
  /\ UNCHANGED <<up, work, asked, kartos, known, wd>>

Finish(s) ==
  /\ work[s] # None /\ call[s] = NoCall
  /\ Move(work[s], "kback")
  /\ work' = [work EXCEPT ![s] = None]
  /\ UNCHANGED <<up, asked, kartos, known, wd>>

Crash(s) ==
  /\ up[s]
  /\ Die(s)
  /\ UNCHANGED <<asked, kartos, known>>

-----------------------------------------------------------------------------
(* Watchdog::Check.                                                        *)

Check ==
  /\ wd.at = "idle"
  /\ wd' = [WdIdle EXCEPT !.at = "probe", !.left = known]
  /\ UNCHANGED <<call, up, work, asked, kartos, known>>

KeepAlive(s) ==
  /\ wd.at = "probe" /\ wd.now = None /\ s \in wd.left
  /\ wd' = [wd EXCEPT !.left = @ \ {s},
                      !.now = IF up[s] THEN s ELSE None,
                      !.dead = IF up[s] THEN @ ELSE @ \cup {s}]
  /\ UNCHANGED <<call, up, work, asked, kartos, known>>

\* The probe waits its turn like any request; the Watchdog waits for it.
BugImpatient(s) ==             \* a busy service counts as dead
  /\ wd.now = s
  /\ wd' = [wd EXCEPT !.now = None,
                      !.dead = IF work[s] = None THEN @ ELSE @ \cup {s}]
  /\ UNCHANGED <<call, up, work, asked, kartos, known>>

KeptAlive(s) ==
  /\ wd.now = s /\ up[s] /\ work[s] = None
  /\ wd' = [wd EXCEPT !.now = None]
  /\ UNCHANGED <<call, up, work, asked, kartos, known>>

BugKeepsLock ==                \* the lock is not released in the end
  /\ wd.at = "probe" /\ wd.left = {} /\ wd.now = None
  /\ known' = known \ wd.dead
  /\ wd' = [wd EXCEPT !.dead = {}]
  /\ UNCHANGED <<call, up, work, asked, kartos>>

\* need_deregister, under the lock to the end.
Purge ==
  /\ wd.at = "probe" /\ wd.left = {} /\ wd.now = None
  /\ known' = known \ wd.dead
  /\ wd' = WdIdle
  /\ UNCHANGED <<call, up, work, asked, kartos>>

-----------------------------------------------------------------------------
ClientStep(c) == \/ \E s \in Service : <<c, s>> \in Calls /\ ClientCall(c, s)
                 \/ ClientStart(c)
Loki(c) == LokiRequest(c) \/ LokiChildDie(c)
Kartos(c) == KartosRequest(c) \/ KartosConnect(c) \/ KartosChildDie(c)
Serve(s) == \/ \E c \in Caller : Begin(s, c)
            \/ \E t \in Service : <<s, t>> \in Calls /\ NestedCall(s, t)
            \/ Finish(s) \/ Crash(s)
Watchdog == Check \/ (\E s \in Service : KeepAlive(s) \/ KeptAlive(s)) \/ Purge

Next == \/ \E c \in Client : ClientStep(c)
        \/ \E c \in Caller : Loki(c) \/ Kartos(c) \/ Receive(c)
        \/ \E s \in Service : Serve(s)
        \/ KartosQuery \/ Watchdog

Spec == Init /\ [][Next]_vars

(* Every thread goes on when it can and passes over no request for ever; a *)
(* handler ends when its own call, if it makes one, has come back; the     *)
(* timer of the Watchdog keeps firing, but not so fast that Kartos never   *)
(* gets the lock.  Nothing must call, start or crash.                      *)
Proceed(c) ==
  Loki(c) \/ Kartos(c) \/ (\E s \in Service : Begin(s, c)) \/ Receive(c)
CheckStep == Check \/ (\E s \in Service : KeepAlive(s)) \/ Purge

Fairness ==
  /\ \A c \in Caller : SF_vars(Proceed(c))
  /\ SF_vars(KartosQuery)
  /\ \A s \in Service : WF_vars(Finish(s)) /\ SF_vars(KeptAlive(s))
  /\ WF_vars(CheckStep)

FairSpec == Spec /\ Fairness

-----------------------------------------------------------------------------
Stage == {"none", "loki", "kartos", "lookup", "connect", "service", "running",
          "kback", "lback", "reply"}

\* The type invariant, with what ties the records of two parties together.
TypeOK ==
  /\ call \in [Caller -> [at : Stage, to : Service \cup {None},
                          result : {"ok", "no service", "broken"}, ran : Nat]]
  /\ \A c \in Caller : IF call[c].at = "none" THEN call[c] = NoCall
                       ELSE call[c].to # None
  /\ up \in [Caller -> BOOLEAN]
  /\ work \in [Service -> Caller \cup {None}]
  /\ \A s \in Service : work[s] # None => up[s]
  /\ \A s \in Service, c \in Caller :
       work[s] = c <=> call[c].at = "running" /\ call[c].to = s
  /\ asked \in [Service -> BOOLEAN]
  /\ kartos \in Caller \cup {None}
  /\ \A c \in Caller : kartos = c <=> call[c].at = "lookup"
  /\ known \subseteq Service
  /\ wd \in [at : {"idle", "probe"}, left : SUBSET Service,
             now : Service \cup {None}, dead : SUBSET Service]
  /\ wd.at = "idle" => wd = WdIdle

(* Nobody is told that a live service does not exist, and nobody's call is *)
(* broken off while the service it is for lives: however long a handler    *)
(* takes, the Watchdog and Kartos do not give up on it.  Only who puts a     *)
(* trace id on a request is let down by Loki.                              *)
FailureMeansDown ==
  \A c \in Caller : call[c].result # "ok" => ~Routable(c) \/ ~up[call[c].to]

-----------------------------------------------------------------------------
(* What CallSpec says of one call holds of each of the calls that a host   *)
(* has under way, whatever becomes of the others, of the services and of   *)
(* the table: a service does at most once what it is asked for, did it if  *)
(* there is a reply, and never will if Loki says that there is no service. *)
Outcome(r) == CASE r.at = "none" -> "none"
                [] r.at \notin {"none", "reply"} -> "waiting"
                [] r.at = "reply" /\ r.result = "ok" -> "answered"
                [] r.at = "reply" /\ r.result = "no service" -> "refused"
                [] r.at = "reply" /\ r.result = "broken" -> "broken"

Promise(c) == INSTANCE CallSpec WITH outcome <- Outcome(call[c]), ran <- call[c].ran

ImplementsCalls ==
  /\ \A c \in Caller : Promise(c)!Init
  /\ [][\A c \in Caller : Promise(c)!Next \/ UNCHANGED Promise(c)!vars]_vars

-----------------------------------------------------------------------------
(* Who waits for whom: a service for the caller or the thread that has its *)
(* call, Kartos for the lock, the Watchdog for the service that it probes. *)
WaitsFor(p, q) ==
  \/ /\ p \in Service
     /\ \/ q = "Kartos" /\ call[p].at \in {"kartos", "lookup", "connect", "kback"}
        \/ q = call[p].to /\ call[p].at \in {"service", "running"}
  \/ p = "Kartos" /\ q = "Watchdog" /\ kartos # None /\ Locked
  \/ p = "Watchdog" /\ q \in Service /\ wd.now = q /\ work[q] # None

Stuck == \E waiting \in (SUBSET (Service \cup {"Kartos", "Watchdog"})) \ {{}} :
           \A p \in waiting : \E q \in waiting : WaitsFor(p, q)

\* Somebody can take the call of c on.
CallGoesOn(c) ==
  \/ call[c].at \in {"loki", "lback", "reply"}
  \/ call[c].at \in {"kartos", "connect", "kback"} /\ kartos = None
  \/ call[c].at = "lookup" /\ ~Locked
  \/ call[c].at = "service" /\ up[call[c].to] /\ work[call[c].to] = None
  \/ call[c].at = "running" /\ call[call[c].to] = NoCall

\* The Check does not wait, or is answered.
CheckGoesOn == Locked /\ (wd.now = None \/ (up[wd.now] /\ work[wd.now] = None))

(* Nothing comes to a standstill but for a circle: as long as a call or a  *)
(* Check is not over, some thread has a step to make for it, whatever has  *)
(* crashed and whatever was purged, or threads wait for each other.        *)
OnlyCirclesHoldUp ==
  (\E c \in Caller : call[c].at # "none") \/ Locked =>
    Stuck \/ CheckGoesOn \/ \E c \in Caller : CallGoesOn(c)

(* And a circle stays: as nobody in it has a time limit, only the crash of *)
(* a service undoes it, and nothing that the threads outside it may do.    *)
CircleHolds == [][Stuck => Stuck' \/ \E s \in Service : up[s] /\ ~up'[s]]_vars

(* A call comes back, with a reply or broken off, whatever crashes and     *)
(* whenever the Watchdog checks, unless threads wait for each other in a   *)
(* circle, for good.                                                       *)
CallsEnd == \A c \in Caller : call[c].at # "none" ~> call[c].at = "none" \/ []Stuck

(* And so does each Check.                                                 *)
ChecksEnd == wd.at = "probe" ~> wd.at = "idle" \/ []Stuck

(* The keep-alive of the services has a period, "keep-alive duration": one *)
(* Check comes to an end, and another one follows.                         *)
ChecksRecur == []<>(wd.at = "idle") /\ []<>(wd.at = "probe")
=============================================================================
