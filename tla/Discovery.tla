------------------------------ MODULE Discovery ------------------------------
(***************************************************************************)
(* Who is registered where: the part of one Atreus host that keeps two     *)
(* tables in step, its own (name -> port, atreus/util/service_manager) and *)
(* the names ICE has for its address.                                      *)
(*                                                                         *)
(* Four parties act.  Service processes call Delegate for each of their   *)
(* names and only then start to listen; a handler of theirs may make a     *)
(* call of its own.  The Loki thread serves registrations and              *)
(* deregistrations one at a time, and calls ICE synchronously in the       *)
(* middle of each.  The Watchdog thread takes the write lock of the table, *)
(* probes every entry with a call that may wait for as long as the process *)
(* has no time for it, and keeps the lock until the dead ones are gone     *)
(* from both tables.  The Kartos thread looks up the port of a call in two *)
(* looks at the table.  ICE is the set of pairs of IceSpec, seen from one  *)
(* address.                                                                *)
(***************************************************************************)
EXTENDS Naturals, FiniteSets

CONSTANTS
  Name, Port,
  Serves,      \* the pairs <<name, port>>: the process at port serves name
  Retired,     \* the names for which somebody may send Loki a deregistration
  Wanted,      \* the names that callers ask Kartos for
  Calling,     \* the processes whose handlers make calls of their own
  Unreliable,  \* which of "ice" and "atreus" may stop and start again
  None,        \* no name, no port
  Zero         \* port 0, the Port that operator[] makes up

ASSUME ServesPairs == Serves \subseteq Name \X Port
ASSUME NoneIsNothing == None \notin Name \cup Port /\ Zero \notin Port \cup {None}
ASSUME RetiredNames == Retired \subseteq Name
ASSUME WantedNames == Wanted \subseteq Name
ASSUME CallingPorts == Calling \subseteq Port

VARIABLES
  services,    \* services_ of Atreus: the port of each name, or None
  ice,         \* the names that ICE has for this host
  ice_up, atreus_up,
  amnesia,     \* ICE has been down since this Atreus started
  loki,        \* the Loki thread: the request it is serving
  kartos,      \* the Kartos thread: the name whose port it will look up next
  wd,          \* the Watchdog thread: its Check, with need_deregister and
               \* the name that it is at
  svc,         \* the process of each port
  want,        \* the name its unserved registration is about
  delegated,   \* the names for which its Delegate has returned
  orphan,      \* registrations whose sender has died before Loki read them
  shutdowns    \* names with a shutdown counted and not yet reported

process == <<svc, want, delegated, orphan>>
uptime == <<ice_up, atreus_up, amnesia>>
vars == <<services, ice, uptime, loki, kartos, wd, process, shutdowns>>

LokiIdle == [at |-> "idle", name |-> None, from |-> None]
WdIdle == [at |-> "idle", left |-> {}, dead |-> {}, name |-> None]

\* The Watchdog holds the write lock from before the first probe to the end.
Locked == wd.at # "idle"

Known(n) == services[n] # None
\* Its socket takes requests, though its one thread may be waiting itself.
Listening(p) == p \in Port /\ svc[p] \in {"up", "calling"}
NamesOf(p) == {n \in Name : <<n, p>> \in Serves}

Init ==
  /\ services = [n \in Name |-> None]
  /\ ice = {}
  /\ ice_up = TRUE /\ atreus_up = TRUE /\ amnesia = FALSE
  /\ loki = LokiIdle /\ kartos = None /\ wd = WdIdle
  /\ svc = [p \in Port |-> "down"]
  /\ want = [p \in Port |-> None]
  /\ delegated = [p \in Port |-> {}]
  /\ orphan = {}
  /\ shutdowns = {}

-----------------------------------------------------------------------------
(* A service process: start, Delegate every name, then listen.             *)

Start(p) ==
  /\ svc[p] = "down"
  /\ svc' = [svc EXCEPT ![p] = "starting"]
  /\ delegated' = [delegated EXCEPT ![p] = {}]
  /\ UNCHANGED <<services, ice, uptime, loki, kartos, wd, want, orphan, shutdowns>>

\* SyncSession::Call: the process blocks until Loki answers.  With nobody at
\* Loki's port the call returns at once, and Delegate does not look at it.
Delegate(p, n) ==
  /\ svc[p] = "starting" /\ n \in NamesOf(p) \ delegated[p]
  /\ IF atreus_up
     THEN /\ svc' = [svc EXCEPT ![p] = "waiting"]
          /\ want' = [want EXCEPT ![p] = n]
          /\ UNCHANGED delegated
     ELSE /\ delegated' = [delegated EXCEPT ![p] = @ \cup {n}]
          /\ UNCHANGED <<svc, want>>
  /\ UNCHANGED <<services, ice, uptime, loki, kartos, wd, orphan, shutdowns>>

Listen(p) ==
  /\ svc[p] = "starting" /\ delegated[p] = NamesOf(p)
  /\ svc' = [svc EXCEPT ![p] = "up"]
  /\ UNCHANGED <<services, ice, uptime, loki, kartos, wd, want, delegated, orphan, shutdowns>>

\* A handler makes a call of its own, by SyncSession::Call to Loki: nothing
\* else is served until it comes back.  (A handler that makes none is over
\* before anybody can see it; with nobody at Loki's port the call is too.)
HandlerCalls(p) ==
  /\ p \in Calling /\ svc[p] = "up" /\ atreus_up
  /\ svc' = [svc EXCEPT ![p] = "calling"]
  /\ UNCHANGED <<services, ice, uptime, loki, kartos, wd, want, delegated, orphan, shutdowns>>

\* Whether and when depends on Kartos and the services on its way (Routing).
HandlerReturns(p) ==
  /\ svc[p] = "calling"
  /\ svc' = [svc EXCEPT ![p] = "up"]
  /\ UNCHANGED <<services, ice, uptime, loki, kartos, wd, want, delegated, orphan, shutdowns>>

\* What it wrote to Loki, if it had come that far, is still there to be read.
\* (One such request per name and port is kept: a bound of the model.)
BugCrashKeepsWaiting(p) ==     \* the request still has its sender
  /\ svc[p] # "down"
  /\ svc' = [svc EXCEPT ![p] = "down"]
  /\ UNCHANGED <<services, ice, uptime, loki, kartos, wd, want, delegated, orphan, shutdowns>>

BugCrashUnnoticed(p) ==       \* the probe reads on from a closed socket
  /\ svc[p] # "down"
  /\ svc' = [svc EXCEPT ![p] = "down"]
  /\ want' = [want EXCEPT ![p] = None]
  /\ loki' = IF loki.from = p THEN [loki EXCEPT !.from = None] ELSE loki
  /\ UNCHANGED <<services, ice, uptime, kartos, wd, delegated, orphan, shutdowns>>

\* A probe that is waiting for it reads an error, and CallExtNotSure returns
\* null.
ProbeBreaksOff(p) ==
  wd' = IF wd.at = "asked" /\ services[wd.name] = p
        THEN [wd EXCEPT !.at = "probe", !.dead = @ \cup {<<wd.name, p>>}, !.name = None]
        ELSE wd

Crash(p) ==
  /\ svc[p] # "down"
  /\ svc' = [svc EXCEPT ![p] = "down"]
  /\ ProbeBreaksOff(p)
  /\ want' = [want EXCEPT ![p] = None]
  /\ \/ want[p] # None /\ orphan' = orphan \cup {<<want[p], p>>}
     \/ UNCHANGED orphan
  /\ loki' = IF loki.from = p THEN [loki EXCEPT !.from = None] ELSE loki
  /\ UNCHANGED <<services, ice, uptime, kartos, delegated, shutdowns>>

-----------------------------------------------------------------------------
(* Loki, for one request at a time.                                        *)

\* services_.emplace: the port of a name that is there already stays.
Emplace(n, p) ==
  services' = IF Known(n) THEN services ELSE [services EXCEPT ![n] = p]

BugRegisterUnlocked(n, p, from) ==    \* Register_UNSAFE in Loki
  /\ loki.at = "idle"
  /\ Emplace(n, p)
  /\ loki' = [at |-> "reg_ice", name |-> n, from |-> from]

RegisterLocal(n, p, from) ==
  /\ loki.at = "idle" /\ ~Locked
  /\ Emplace(n, p)
  /\ loki' = [at |-> "reg_ice", name |-> n, from |-> from]

TakeRegister(p) ==
  /\ want[p] # None
  /\ RegisterLocal(want[p], p, p)
  /\ want' = [want EXCEPT ![p] = None]
  /\ UNCHANGED <<ice, uptime, kartos, wd, svc, delegated, orphan, shutdowns>>

TakeOrphan(n, p) ==
  /\ <<n, p>> \in orphan
  /\ RegisterLocal(n, p, None)
  /\ orphan' = orphan \ {<<n, p>>}
  /\ UNCHANGED <<ice, uptime, kartos, wd, svc, want, delegated, shutdowns>>

BugSilent == UNCHANGED <<svc, delegated>>    \* ExecWrite is forgotten

\* The sender, if it still lives, is answered whether ICE could be reached
\* or not.
Answer ==
  IF loki.from = None
  THEN UNCHANGED <<svc, delegated>>
  ELSE /\ svc' = [svc EXCEPT ![loki.from] = "starting"]
       /\ delegated' = [delegated EXCEPT ![loki.from] = @ \cup {loki.name}]

RegisterAtIce ==
  /\ loki.at = "reg_ice"
  /\ ice' = IF ice_up THEN ice \cup {loki.name} ELSE ice
  /\ Answer
  /\ loki' = LokiIdle
  /\ UNCHANGED <<services, uptime, kartos, wd, want, orphan, shutdowns>>

\* Contains under the read lock, erase under the write lock.
BugDeregisterUnlocked(n) ==    \* Contains_UNSAFE, then Deregister_UNSAFE
  /\ loki.at = "idle" /\ atreus_up
  /\ services' = [services EXCEPT ![n] = None]
  /\ loki' = [at |-> "dereg_ice", name |-> n, from |-> None]
  /\ UNCHANGED <<ice, uptime, kartos, wd, process, shutdowns>>

TakeDeregister(n) ==
  /\ loki.at = "idle" /\ atreus_up /\ ~Locked
  /\ loki' = [at |-> IF Known(n) THEN "erase" ELSE "dereg_ice",
              name |-> n, from |-> None]
  /\ UNCHANGED <<services, ice, uptime, kartos, wd, process, shutdowns>>

EraseLocal ==
  /\ loki.at = "erase" /\ ~Locked
  /\ services' = [services EXCEPT ![loki.name] = None]
  /\ loki' = [loki EXCEPT !.at = "dereg_ice"]
  /\ UNCHANGED <<ice, uptime, kartos, wd, process, shutdowns>>

DeregisterAtIce ==
  /\ loki.at = "dereg_ice"
  /\ ice' = ice \ {loki.name}
  /\ loki' = LokiIdle
  /\ UNCHANGED <<services, uptime, kartos, wd, process, shutdowns>>

-----------------------------------------------------------------------------
(* Kartos, for one call at a time.                                         *)

\* ServiceManager::Query looks twice and lets go of the lock in between.  A
\* name that is not there is refused.
KartosContains(n) ==
  /\ atreus_up /\ kartos = None /\ ~Locked /\ Known(n)
  /\ kartos' = n
  /\ UNCHANGED <<services, ice, uptime, loki, wd, process, shutdowns>>

\* services_[name], which puts port 0 under a name that is not there.
KartosQuery ==
  /\ kartos # None /\ ~Locked
  /\ Emplace(kartos, Zero)
  /\ kartos' = None
  /\ UNCHANGED <<ice, uptime, loki, wd, process, shutdowns>>

-----------------------------------------------------------------------------
(* Watchdog::Check and, on the same thread, Watchdog::Report.              *)

Check ==
  /\ atreus_up /\ wd.at = "idle"
  /\ wd' = [WdIdle EXCEPT !.at = "probe", !.left = {n \in Name : Known(n)}]
  /\ UNCHANGED <<services, ice, uptime, loki, kartos, process, shutdowns>>

BugProbeForgets(n) ==          \* need_deregister is never filled
  /\ wd.at = "probe" /\ n \in wd.left
  /\ wd' = [wd EXCEPT !.left = @ \ {n}]
  /\ UNCHANGED <<services, ice, uptime, loki, kartos, process, shutdowns>>

\* CallExtNotSure to the port the table has: refused when nobody listens
\* (nobody is at port 0), else a keep-alive is written and the read waits.
Probe(n) ==
  /\ wd.at = "probe" /\ n \in wd.left
  /\ wd' = IF Listening(services[n])
           THEN [wd EXCEPT !.left = @ \ {n}, !.at = "asked", !.name = n]
           ELSE [wd EXCEPT !.left = @ \ {n}, !.dead = @ \cup {<<n, services[n]>>}]
  /\ UNCHANGED <<services, ice, uptime, loki, kartos, process, shutdowns>>

\* Only a process whose thread is free answers.
KeptAlive ==
  /\ wd.at = "asked" /\ svc[services[wd.name]] = "up"
  /\ wd' = [wd EXCEPT !.at = "probe", !.name = None]
  /\ UNCHANGED <<services, ice, uptime, loki, kartos, process, shutdowns>>

PurgeLocal(n, p) ==
  /\ wd.at = "probe" /\ wd.left = {} /\ <<n, p>> \in wd.dead
  /\ services' = [services EXCEPT ![n] = None]
  /\ wd' = [wd EXCEPT !.at = "purge_ice", !.dead = @ \ {<<n, p>>}, !.name = n]
  /\ UNCHANGED <<ice, uptime, loki, kartos, process, shutdowns>>

PurgeAtIce ==
  /\ wd.at = "purge_ice"
  /\ ice' = ice \ {wd.name}
  /\ shutdowns' = shutdowns \cup {wd.name}
  /\ wd' = [wd EXCEPT !.at = "probe", !.name = None]
  /\ UNCHANGED <<services, uptime, loki, kartos, process>>

CheckDone ==
  /\ wd.at = "probe" /\ wd.left = {} /\ wd.dead = {}
  /\ wd' = WdIdle
  /\ UNCHANGED <<services, ice, uptime, loki, kartos, process, shutdowns>>

Report ==
  /\ atreus_up /\ wd.at = "idle"
  /\ shutdowns' = {}
  /\ UNCHANGED <<services, ice, uptime, loki, kartos, wd, process>>

-----------------------------------------------------------------------------
(* ICE and Atreus keep their tables in memory only.                        *)

\* A process whose call to Loki breaks off, be it of Delegate or of a handler,
\* dereferences a null reply.
AtreusDies ==
  /\ atreus_up' = FALSE
  /\ services' = [n \in Name |-> None]
  /\ loki' = LokiIdle /\ kartos' = None /\ wd' = WdIdle
  /\ svc' = [p \in Port |-> IF svc[p] \in {"waiting", "calling"} THEN "down" ELSE svc[p]]
  /\ want' = [p \in Port |-> None]
  /\ orphan' = {} /\ shutdowns' = {}

AtreusStop ==
  /\ "atreus" \in Unreliable /\ atreus_up
  /\ AtreusDies
  /\ UNCHANGED <<ice, ice_up, amnesia, delegated>>

AtreusStart ==
  /\ ~atreus_up
  /\ atreus_up' = TRUE
  /\ amnesia' = ~ice_up
  /\ UNCHANGED <<services, ice, ice_up, loki, kartos, wd, process, shutdowns>>

\* A call to ICE in progress either had not connected yet, and is refused
\* later, or breaks off and takes Atreus with it, as above.
IceStop ==
  /\ "ice" \in Unreliable /\ ice_up
  /\ ice_up' = FALSE /\ ice' = {} /\ amnesia' = TRUE
  /\ \/ UNCHANGED <<services, atreus_up, loki, kartos, wd, svc, want, orphan, shutdowns>>
     \/ /\ loki.at \in {"reg_ice", "dereg_ice"} \/ wd.at = "purge_ice"
        /\ AtreusDies
  /\ UNCHANGED delegated

IceStart ==
  /\ ~ice_up
  /\ ice_up' = TRUE
  /\ UNCHANGED <<services, ice, atreus_up, amnesia, loki, kartos, wd, process, shutdowns>>

-----------------------------------------------------------------------------
Process(p) ==
  \/ Start(p) \/ (\E n \in Name : Delegate(p, n)) \/ Listen(p)
  \/ HandlerCalls(p) \/ HandlerReturns(p) \/ Crash(p)

Loki == \/ \E p \in Port : TakeRegister(p) \/ \E n \in Name : TakeOrphan(n, p)
        \/ RegisterAtIce
        \/ \E n \in Retired : TakeDeregister(n)
        \/ EraseLocal \/ DeregisterAtIce

Kartos == (\E n \in Wanted : KartosContains(n)) \/ KartosQuery

Purge == \E n \in Name, p \in Port \cup {Zero} : PurgeLocal(n, p)
CheckStep ==
  Check \/ (\E n \in Name : Probe(n)) \/ Purge \/ PurgeAtIce \/ CheckDone

Watchdog == CheckStep \/ KeptAlive \/ Report

Failure == AtreusStop \/ AtreusStart \/ IceStop \/ IceStart

Next == (\E p \in Port : Process(p)) \/ Loki \/ Kartos \/ Watchdog \/ Failure

Spec == Init /\ [][Next]_vars

(* The timer of the Watchdog keeps firing and a Check goes on, except that *)
(* a probe waits until the process has time for it: it waits its turn, and *)
(* a process whose handlers keep coming back gets round to it.  Nothing    *)
(* makes a handler's call come back.  A process that started goes on to    *)
(* register and to listen; the Loki thread goes on with a request, and the *)
(* reactor does not pass over one that somebody waits for.  Nothing must   *)
(* start, crash, stop, or send a deregistration.                           *)
LokiStep == RegisterAtIce \/ DeregisterAtIce

Fairness ==
  /\ WF_vars(CheckStep) /\ SF_vars(KeptAlive)
  /\ WF_vars(LokiStep) /\ SF_vars(EraseLocal)
  /\ \A p \in Port :
       /\ SF_vars(TakeRegister(p))
       /\ WF_vars(Listen(p))
       /\ WF_vars(\E n \in NamesOf(p) : Delegate(p, n))

FairSpec == Spec /\ Fairness

-----------------------------------------------------------------------------
\* The type invariant, with what ties the threads' records together.
TypeOK ==
  /\ services \in [Name -> Port \cup {None, Zero}]
  /\ ice \subseteq Name
  /\ ice_up \in BOOLEAN /\ atreus_up \in BOOLEAN /\ amnesia \in BOOLEAN
  /\ loki \in [at : {"idle", "reg_ice", "erase", "dereg_ice"},
               name : Name \cup {None}, from : Port \cup {None}]
  /\ loki.at # "idle" => loki.name # None
  /\ kartos \in Name \cup {None}
  /\ wd \in [at : {"idle", "probe", "asked", "purge_ice"}, left : SUBSET Name,
             dead : SUBSET (Name \X (Port \cup {Zero})), name : Name \cup {None}]
  /\ wd.at \in {"asked", "purge_ice"} => wd.name # None
  /\ svc \in [Port -> {"down", "starting", "waiting", "up", "calling"}]
  /\ want \in [Port -> Name \cup {None}]
  /\ \A p \in Port : want[p] # None \/ loki.from = p => svc[p] = "waiting"
  /\ \A p \in Port : want[p] = None \/ loki.from # p
  /\ delegated \in [Port -> SUBSET Name]
  /\ orphan \subseteq Name \X Port
  /\ shutdowns \subseteq Name

(* What this host would serve, a caller can find: a name that the table of *)
(* Atreus has with a port is registered at ICE, or Loki is just about to   *)
(* register it, unless ICE has lost its memory.  A registration that       *)
(* overtakes the purge of the same name does not undo this, because Check  *)
(* holds the write lock until ICE has been told too.                       *)
LocalIsDiscoverable ==
  \A n \in Name :
    services[n] \in Port /\ ~amnesia => n \in ice \/ (loki.at = "reg_ice" /\ loki.name = n)

(* What Check erases is what it probed: between the probe of an entry and  *)
(* its erasure by name nobody replaces or removes the entry.               *)
VerdictFresh == \A d \in wd.dead : services[d[1]] = d[2]

(* A process that waits for Loki is known to it: its registration is still *)
(* to be read, or Loki has it in hand and knows whom to answer.            *)
WaitingIsKnown ==
  \A p \in Port : svc[p] = "waiting" =>
    atreus_up /\ (want[p] # None \/ (loki.at = "reg_ice" /\ loki.from = p))

(* A probe waits, with the lock in hand, for a process that is there and   *)
(* takes requests, whoever started anew or was purged in the meantime:     *)
(* never for the dead, nor for one that is still in Delegate and so waits  *)
(* for the lock itself.                                                    *)
ProbeHasAPeer == wd.at = "asked" => Listening(services[wd.name])

(* Both ends of what happens under the lock wait without a time limit, the *)
(* service for Loki and the Watchdog for the service.  No death, of a      *)
(* process, of ICE or of Atreus, leaves either waiting for nobody.         *)
NobodyForgotten == WaitingIsKnown /\ ProbeHasAPeer

(* Check holds the lock and waits, in a call without a time limit, for a   *)
(* process whose handler waits for a call of its own.  If that call needs  *)
(* Loki or Kartos to get at the lock, or comes back to this process, it is *)
(* for good: routing_deadlock has the circle.                              *)
Held == wd.at = "asked" /\ svc[services[wd.name]] = "calling"

(* An entry whose process is gone for good does not stay in the table,     *)
(* unless Check is held for good by a process that waits itself.  Whoever  *)
(* dies while it is probed, or answers between two calls of its own, is no *)
(* reason.                                                                 *)
DeadIsPurged ==
  \A p \in Port : \A n \in NamesOf(p) :
    <>[](services[n] = p /\ svc[p] = "down") => <>[]Held

(* A call of Delegate comes back, though Check may hold the lock when the  *)
(* registration arrives, unless Check is held for good by a process that   *)
(* waits itself: nothing else on the host delays a registration for good.  *)
DelegateReturns ==
  \A p \in Port : svc[p] = "waiting" ~> (svc[p] # "waiting" \/ []Held)

-----------------------------------------------------------------------------
(* What Kartos says of a name it does not have, "no addr": the table has    *)
(* no entry without a port.                                                *)
NoPhantom == \A n \in Name : services[n] # Zero

(* What get_service_number counts: a process that has delegated a name and *)
(* keeps listening is not missing from ICE for good.                       *)
ServingIsAvailable ==
  \A p \in Port : \A n \in NamesOf(p) : ~<>[](Listening(p) /\ n \notin ice)
=============================================================================
