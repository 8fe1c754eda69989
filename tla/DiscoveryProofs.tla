--------------------------- MODULE DiscoveryProofs ---------------------------
(***************************************************************************)
(* LocalIsDiscoverable, VerdictFresh, NobodyForgotten and ProbeHasAPeer    *)
(* for any names, ports and threads of control of one Atreus host, with    *)
(* ICE and Atreus free to stop.                                            *)
(*                                                                         *)
(* The argument is about who may touch what.  ICE forgets a name only in   *)
(* DeregisterAtIce and PurgeAtIce, and the table does not hold the name    *)
(* then: Loki erased it and is still busy with that request, or the        *)
(* Watchdog erased it and still holds the lock.  Handover says this.       *)
(***************************************************************************)
EXTENDS Discovery, TLAPS

\* What is known of a name on its way out of the two tables: Kartos may have
\* put it back while Loki talks to ICE, but with no port.
Handover ==
  /\ loki.at = "dereg_ice" => services[loki.name] \notin Port
  /\ wd.at = "purge_ice" => ~Known(wd.name)

\* The records of a Check are empty outside it, and its entries are real.
Snapshot ==
  /\ ~Locked => wd.left = {} /\ wd.dead = {}
  /\ \A n \in wd.left : Known(n)

\* A stopped Atreus has nothing, and nothing is on its way to it.
Stopped ==
  /\ ~ice_up => amnesia
  /\ ~atreus_up => /\ \A n \in Name : ~Known(n)
                   /\ \A p \in Port : want[p] = None
                   /\ orphan = {}
                   /\ loki.at = "idle"
                   /\ kartos = None

IInv == TypeOK /\ LocalIsDiscoverable /\ VerdictFresh
               /\ Handover /\ Snapshot /\ Stopped

-----------------------------------------------------------------------------
\* A service process touches neither table.
LEMMA ProcessKeeps ==
  ASSUME IInv, NEW p \in Port, Process(p)
  PROVE  IInv'
<1> USE DEF IInv, process, uptime
<1>1. CASE Start(p)
  <2>1. TypeOK'
    BY <1>1 DEF Start, TypeOK
  <2> QED BY <1>1, <2>1 DEF Start, TypeOK, LocalIsDiscoverable, VerdictFresh,
        Handover, Snapshot, Stopped, Known, Locked
<1>2. ASSUME NEW n \in Name, Delegate(p, n)
      PROVE  IInv'
  <2>1. TypeOK'
    BY <1>2, NoneIsNothing DEF Delegate, TypeOK
  <2> QED BY <1>2, <2>1 DEF Delegate, TypeOK, LocalIsDiscoverable, VerdictFresh,
        Handover, Snapshot, Stopped, Known, Locked
<1>3. CASE Listen(p)
  <2>1. TypeOK'
    BY <1>3, NoneIsNothing DEF Listen, TypeOK
  <2> QED BY <1>3, <2>1 DEF Listen, LocalIsDiscoverable, VerdictFresh,
        Handover, Snapshot, Stopped, Known, Locked
<1>4. CASE HandlerCalls(p)
  <2>1. TypeOK'
    BY <1>4 DEF HandlerCalls, TypeOK
  <2> QED BY <1>4, <2>1 DEF HandlerCalls, LocalIsDiscoverable, VerdictFresh,
        Handover, Snapshot, Stopped, Known, Locked
<1>5. CASE HandlerReturns(p)
  <2>1. TypeOK'
    BY <1>5 DEF HandlerReturns, TypeOK
  <2> QED BY <1>5, <2>1 DEF HandlerReturns, LocalIsDiscoverable, VerdictFresh,
        Handover, Snapshot, Stopped, Known, Locked
<1>6. CASE Crash(p)
  <2>1. loki'.at = loki.at /\ loki'.name = loki.name
    BY <1>6 DEF Crash, TypeOK
  <2>2. /\ wd' \in [at : {"idle", "probe", "asked", "purge_ice"}, left : SUBSET Name,
                    dead : SUBSET (Name \X (Port \cup {Zero})), name : Name \cup {None}]
        /\ wd'.at \in {"asked", "purge_ice"} => wd'.name # None
        /\ wd'.left = wd.left
        /\ wd'.at = "idle" <=> wd.at = "idle"
        /\ wd'.at = "purge_ice" => wd' = wd
        /\ \A d \in wd'.dead : d \in wd.dead \/ (d[1] \in Name /\ d[2] = services[d[1]])
        /\ wd.at = "idle" => wd' = wd
    <3>1. CASE wd.at = "asked" /\ services[wd.name] = p
      <4>1. wd' = [wd EXCEPT !.at = "probe", !.dead = @ \cup {<<wd.name, p>>}, !.name = None]
        BY <1>6, <3>1 DEF Crash, ProbeBreaksOff
      <4>2. wd.name \in Name
        BY <3>1 DEF TypeOK
      <4>3. wd.dead \cup {<<wd.name, p>>} \in SUBSET (Name \X (Port \cup {Zero}))
        BY <4>2 DEF TypeOK
      <4>4. /\ wd'.at = "probe" /\ wd'.left = wd.left /\ wd'.name = None
            /\ wd'.dead = wd.dead \cup {<<wd.name, p>>}
        BY <4>1 DEF TypeOK
      <4>5. <<wd.name, p>>[1] = wd.name /\ <<wd.name, p>>[2] = p
        OBVIOUS
      <4> QED BY <3>1, <4>1, <4>2, <4>3, <4>4, <4>5 DEF TypeOK
    <3>2. CASE ~(wd.at = "asked" /\ services[wd.name] = p)
      BY <1>6, <3>2 DEF Crash, ProbeBreaksOff, TypeOK
    <3> QED BY <3>1, <3>2
  <2>3. TypeOK'
    BY <1>6, <2>2, NoneIsNothing DEF Crash, TypeOK
  <2>4. VerdictFresh'
    BY <1>6, <2>2 DEF Crash, VerdictFresh
  <2>5. Snapshot' /\ Handover'
    BY <1>6, <2>1, <2>2 DEF Crash, Snapshot, Handover, Known, Locked
  <2>6. LocalIsDiscoverable' /\ Stopped'
    BY <1>6, <2>1 DEF Crash, TypeOK, LocalIsDiscoverable, Stopped, Known
  <2> QED BY <2>3, <2>4, <2>5, <2>6
<1> QED BY <1>1, <1>2, <1>3, <1>4, <1>5, <1>6 DEF Process

\* The one way into the table: under the lock, with ICE to be told next.
LEMMA RegisterLocalKeeps ==
  ASSUME IInv, NEW n \in Name, NEW p \in Port, NEW from \in Port \cup {None},
         RegisterLocal(n, p, from), atreus_up, UNCHANGED <<ice, uptime, wd>>
  PROVE  /\ services' \in [Name -> Port \cup {None, Zero}]
         /\ LocalIsDiscoverable' /\ VerdictFresh' /\ Handover' /\ Snapshot'
<1> USE DEF IInv, uptime
<1>1. /\ services' \in [Name -> Port \cup {None, Zero}]
      /\ \A m \in Name : services'[m] = IF m = n /\ ~Known(n) THEN p ELSE services[m]
  BY DEF RegisterLocal, Emplace, TypeOK
<1>2. /\ loki'.at = "reg_ice" /\ loki'.name = n
      /\ wd.at = "idle" /\ wd' = wd /\ wd.left = {} /\ wd.dead = {}
  BY DEF RegisterLocal, Locked, Snapshot
<1>3. LocalIsDiscoverable'
  BY <1>1, <1>2 DEF LocalIsDiscoverable, Known, RegisterLocal
<1>4. VerdictFresh' /\ Handover' /\ Snapshot'
  BY <1>2 DEF VerdictFresh, Handover, Snapshot, Locked
<1> QED BY <1>1, <1>3, <1>4

LEMMA LokiKeeps ==
  ASSUME IInv, Loki
  PROVE  IInv'
<1> USE DEF IInv, process, uptime
<1>1. ASSUME NEW p \in Port, TakeRegister(p)
      PROVE  IInv'
  <2>1. want[p] \in Name /\ atreus_up /\ svc[p] = "waiting"
    BY <1>1 DEF TakeRegister, Stopped, TypeOK
  <2>2. /\ services' \in [Name -> Port \cup {None, Zero}]
        /\ LocalIsDiscoverable' /\ VerdictFresh' /\ Handover' /\ Snapshot'
    BY <1>1, <2>1, RegisterLocalKeeps DEF TakeRegister
  <2>3. TypeOK'
    BY <1>1, <2>1, <2>2, NoneIsNothing DEF TakeRegister, RegisterLocal, TypeOK
  <2>4. Stopped'
    BY <1>1, <2>1 DEF TakeRegister, Stopped
  <2> QED BY <2>2, <2>3, <2>4
<1>2. ASSUME NEW n \in Name, NEW p \in Port, TakeOrphan(n, p)
      PROVE  IInv'
  <2>1. atreus_up
    BY <1>2 DEF TakeOrphan, Stopped, TypeOK
  <2>2. /\ services' \in [Name -> Port \cup {None, Zero}]
        /\ LocalIsDiscoverable' /\ VerdictFresh' /\ Handover' /\ Snapshot'
    BY <1>2, <2>1, RegisterLocalKeeps DEF TakeOrphan
  <2>3. TypeOK'
    BY <1>2, <2>2, NoneIsNothing DEF TakeOrphan, RegisterLocal, TypeOK
  <2>4. Stopped'
    BY <1>2, <2>1 DEF TakeOrphan, Stopped
  <2> QED BY <2>2, <2>3, <2>4
<1>3. CASE RegisterAtIce
  <2>1. TypeOK'
    BY <1>3, NoneIsNothing DEF RegisterAtIce, Answer, LokiIdle, TypeOK
  <2>2. LocalIsDiscoverable'
    BY <1>3 DEF RegisterAtIce, LokiIdle, LocalIsDiscoverable, Stopped, Known, TypeOK
  <2>3. Handover' /\ Stopped'
    BY <1>3 DEF RegisterAtIce, LokiIdle, Handover, Stopped, Known
  <2>4. VerdictFresh' /\ Snapshot'
    BY <1>3 DEF RegisterAtIce, VerdictFresh, Snapshot, Locked, Known
  <2> QED BY <2>1, <2>2, <2>3, <2>4
<1>4. ASSUME NEW n \in Retired, TakeDeregister(n)
      PROVE  IInv'
  <2>1. TypeOK'
    BY <1>4, RetiredNames, NoneIsNothing DEF TakeDeregister, TypeOK
  <2>2. LocalIsDiscoverable' /\ Handover' /\ Stopped'
    BY <1>4, NoneIsNothing DEF TakeDeregister, LocalIsDiscoverable, Handover, Stopped, Known
  <2>3. VerdictFresh' /\ Snapshot'
    BY <1>4 DEF TakeDeregister, VerdictFresh, Snapshot, Locked, Known
  <2> QED BY <2>1, <2>2, <2>3
<1>5. CASE EraseLocal
  <2>1. /\ loki.name \in Name /\ loki'.name = loki.name /\ loki'.at = "dereg_ice"
        /\ \A m \in Name : services'[m] = IF m = loki.name THEN None ELSE services[m]
        /\ wd.at = "idle" /\ wd' = wd /\ wd.left = {} /\ wd.dead = {}
    BY <1>5 DEF EraseLocal, TypeOK, Locked, Snapshot
  <2>2. TypeOK'
    BY <1>5 DEF EraseLocal, TypeOK
  <2>3. LocalIsDiscoverable'
    BY <1>5, <2>1, NoneIsNothing DEF EraseLocal, LocalIsDiscoverable, Known
  <2>4. VerdictFresh' /\ Snapshot' /\ Handover'
    BY <2>1, NoneIsNothing DEF VerdictFresh, Snapshot, Locked, Handover, Known
  <2>5. Stopped'
    BY <1>5, <2>1 DEF EraseLocal, Stopped, Known
  <2> QED BY <2>2, <2>3, <2>4, <2>5
<1>6. CASE DeregisterAtIce
  <2>1. TypeOK'
    BY <1>6, NoneIsNothing DEF DeregisterAtIce, LokiIdle, TypeOK
  <2>2. LocalIsDiscoverable'
    BY <1>6 DEF DeregisterAtIce, LocalIsDiscoverable, Handover, Known
  <2>3. Handover' /\ Stopped'
    BY <1>6 DEF DeregisterAtIce, LokiIdle, Handover, Stopped, Known
  <2>4. VerdictFresh' /\ Snapshot'
    BY <1>6 DEF DeregisterAtIce, VerdictFresh, Snapshot, Locked, Known
  <2> QED BY <2>1, <2>2, <2>3, <2>4
<1> QED BY <1>1, <1>2, <1>3, <1>4, <1>5, <1>6 DEF Loki

\* All that Kartos puts into the table is port 0.
LEMMA KartosKeeps ==
  ASSUME IInv, Kartos
  PROVE  IInv'
<1> USE DEF IInv, process, uptime
<1>1. ASSUME NEW n \in Wanted, KartosContains(n)
      PROVE  IInv'
  <2>1. TypeOK'
    BY <1>1, WantedNames DEF KartosContains, TypeOK
  <2> QED BY <1>1, <2>1 DEF KartosContains, LocalIsDiscoverable, VerdictFresh,
        Handover, Snapshot, Stopped, Known, Locked
<1>2. CASE KartosQuery
  <2>1. /\ kartos \in Name /\ atreus_up
        /\ \A m \in Name : services'[m] = IF m = kartos /\ ~Known(m) THEN Zero
                                          ELSE services[m]
    BY <1>2 DEF KartosQuery, Emplace, Known, Stopped, TypeOK
  <2>2. TypeOK'
    BY <1>2 DEF KartosQuery, Emplace, TypeOK
  <2>3. LocalIsDiscoverable'
    BY <1>2, <2>1, NoneIsNothing DEF KartosQuery, LocalIsDiscoverable
  <2>4. VerdictFresh' /\ Snapshot'
    BY <1>2 DEF KartosQuery, VerdictFresh, Snapshot, Locked
  <2>5. Handover'
    BY <1>2, <2>1, NoneIsNothing DEF KartosQuery, Handover, Locked, TypeOK
  <2>6. Stopped'
    BY <1>2, <2>1 DEF KartosQuery, Stopped
  <2> QED BY <2>2, <2>3, <2>4, <2>5, <2>6
<1> QED BY <1>1, <1>2 DEF Kartos

\* The Watchdog holds the lock from the first probe on, so its own steps are
\* the only ones that touch the table until CheckDone.
LEMMA WatchdogKeeps ==
  ASSUME IInv, Watchdog
  PROVE  IInv'
<1> USE DEF IInv, process, uptime
<1>1. CASE Check
  <2>1. TypeOK'
    BY <1>1 DEF Check, WdIdle, TypeOK
  <2>2. wd'.at = "probe" /\ wd'.dead = {} /\ \A n \in wd'.left : Known(n)
    BY <1>1 DEF Check, WdIdle
  <2>3. LocalIsDiscoverable' /\ VerdictFresh' /\ Handover' /\ Snapshot' /\ Stopped'
    BY <1>1, <2>2 DEF Check, LocalIsDiscoverable, VerdictFresh, Handover,
       Snapshot, Stopped, Known, Locked
  <2> QED BY <2>1, <2>3
<1>2. ASSUME NEW n \in Name, Probe(n)
      PROVE  IInv'
  <2>1. services[n] \in Port \cup {Zero}
    BY <1>2 DEF Probe, Snapshot, Known, TypeOK
  <2>2. /\ wd' \in [at : {"idle", "probe", "asked", "purge_ice"}, left : SUBSET Name,
                    dead : SUBSET (Name \X (Port \cup {Zero})), name : Name \cup {None}]
        /\ wd'.at \in {"probe", "asked"} /\ wd'.left = wd.left \ {n}
        /\ wd'.at = "asked" => wd'.name = n
        /\ wd'.dead \subseteq wd.dead \cup {<<n, services[n]>>}
    <3>1. CASE Listening(services[n])
      BY <1>2, <3>1 DEF Probe, TypeOK
    <3>2. CASE ~Listening(services[n])
      <4>1. wd.dead \cup {<<n, services[n]>>} \in SUBSET (Name \X (Port \cup {Zero}))
        BY <2>1 DEF TypeOK
      <4>2. wd' = [wd EXCEPT !.left = @ \ {n}, !.dead = @ \cup {<<n, services[n]>>}]
        BY <1>2, <3>2 DEF Probe
      <4>3. wd.at = "probe"
        BY <1>2 DEF Probe
      <4> QED BY <4>1, <4>2, <4>3 DEF TypeOK
    <3> QED BY <3>1, <3>2
  <2>3. TypeOK'
    BY <1>2, <2>2, NoneIsNothing DEF Probe, TypeOK
  <2>4. VerdictFresh'
    <3>1. UNCHANGED services
      BY <1>2 DEF Probe
    <3>2. <<n, services[n]>>[1] = n /\ <<n, services[n]>>[2] = services[n]
      OBVIOUS
    <3> QED BY <2>2, <3>1, <3>2 DEF VerdictFresh
  <2>5. LocalIsDiscoverable' /\ Handover' /\ Snapshot' /\ Stopped'
    BY <1>2, <2>2 DEF Probe, LocalIsDiscoverable, Handover, Snapshot, Stopped,
       Known, Locked
  <2> QED BY <2>3, <2>4, <2>5
<1>3. ASSUME NEW n \in Name, NEW p \in Port \cup {Zero}, PurgeLocal(n, p)
      PROVE  IInv'
  <2>1. TypeOK'
    <3>1. wd' \in [at : {"idle", "probe", "asked", "purge_ice"}, left : SUBSET Name,
                  dead : SUBSET (Name \X (Port \cup {Zero})), name : Name \cup {None}]
      <4>1. wd.dead \ {<<n, p>>} \in SUBSET (Name \X (Port \cup {Zero}))
        BY DEF TypeOK
      <4> QED BY <1>3, <4>1 DEF PurgeLocal, TypeOK
    <3>2. wd'.name = n /\ n # None
      BY <1>3, NoneIsNothing DEF PurgeLocal, TypeOK
    <3>3. services' \in [Name -> Port \cup {None, Zero}]
      BY <1>3 DEF PurgeLocal, TypeOK
    <3> QED BY <1>3, <3>1, <3>2, <3>3 DEF PurgeLocal, TypeOK
  <2>2. /\ wd'.at = "purge_ice" /\ wd'.name = n /\ wd'.left = {}
        /\ wd'.dead = wd.dead \ {<<n, p>>}
        /\ \A m \in Name : services'[m] = IF m = n THEN None ELSE services[m]
    <3>1. wd' = [wd EXCEPT !.at = "purge_ice", !.dead = @ \ {<<n, p>>}, !.name = n]
      BY <1>3 DEF PurgeLocal
    <3> QED BY <1>3, <3>1 DEF PurgeLocal, TypeOK
  <2>3. \A d \in wd'.dead : d[1] \in Name /\ d[1] # n
    <3>1. services[n] = p
      BY <1>3 DEF PurgeLocal, VerdictFresh
    <3>2. ASSUME NEW d \in wd'.dead, d[1] = n
          PROVE  FALSE
      <4>1. d \in Name \X (Port \cup {Zero}) /\ d[2] = p /\ d # <<n, p>>
        BY <2>2, <3>1, <3>2 DEF VerdictFresh, TypeOK
      <4> QED BY <3>2, <4>1
    <3> QED BY <2>2, <3>2 DEF TypeOK
  <2>4. VerdictFresh'
    BY <2>2, <2>3 DEF VerdictFresh
  <2>5. LocalIsDiscoverable' /\ Handover' /\ Snapshot' /\ Stopped'
    BY <1>3, <2>2, NoneIsNothing DEF PurgeLocal, LocalIsDiscoverable, Handover,
       Snapshot, Stopped, Known, Locked, TypeOK
  <2> QED BY <2>1, <2>4, <2>5
<1>4. CASE PurgeAtIce
  <2>1. TypeOK'
    BY <1>4, NoneIsNothing DEF PurgeAtIce, TypeOK
  <2>2. wd'.at = "probe" /\ wd'.left = wd.left /\ wd'.dead = wd.dead
    BY <1>4 DEF PurgeAtIce, TypeOK
  <2>3. LocalIsDiscoverable'
    BY <1>4, NoneIsNothing DEF PurgeAtIce, LocalIsDiscoverable, Handover, Known
  <2>4. VerdictFresh' /\ Handover' /\ Snapshot' /\ Stopped'
    BY <1>4, <2>2 DEF PurgeAtIce, VerdictFresh, Handover, Snapshot, Stopped,
       Known, Locked
  <2> QED BY <2>1, <2>3, <2>4
<1>5. CASE CheckDone
  <2>1. TypeOK'
    BY <1>5 DEF CheckDone, WdIdle, TypeOK
  <2> QED BY <1>5, <2>1 DEF CheckDone, WdIdle, LocalIsDiscoverable,
        VerdictFresh, Handover, Snapshot, Stopped, Known, Locked
<1>6. CASE Report
  <2>1. TypeOK'
    BY <1>6 DEF Report, TypeOK
  <2> QED BY <1>6, <2>1 DEF Report, LocalIsDiscoverable,
        VerdictFresh, Handover, Snapshot, Stopped, Known, Locked
<1>7. CASE KeptAlive
  <2>1. TypeOK'
    BY <1>7, NoneIsNothing DEF KeptAlive, TypeOK
  <2>2. wd'.at = "probe" /\ wd'.left = wd.left /\ wd'.dead = wd.dead
    BY <1>7 DEF KeptAlive, TypeOK
  <2> QED BY <1>7, <2>1, <2>2 DEF KeptAlive, LocalIsDiscoverable,
        VerdictFresh, Handover, Snapshot, Stopped, Known, Locked
<1> QED BY <1>1, <1>2, <1>3, <1>4, <1>5, <1>6, <1>7 DEF Watchdog, CheckStep, Purge

\* An Atreus that is gone has an empty table, which promises nothing.
LEMMA DeadAtreus ==
  ASSUME IInv, AtreusDies, ice' \subseteq Name, ice_up' \in BOOLEAN,
         amnesia' \in BOOLEAN, UNCHANGED delegated, ~ice_up' => amnesia'
  PROVE  IInv'
<1> USE DEF IInv, AtreusDies
<1>1. /\ \A n \in Name : ~Known(n)'
      /\ loki'.at = "idle" /\ wd'.at = "idle" /\ wd'.left = {} /\ wd'.dead = {}
  BY DEF Known, LokiIdle, WdIdle
<1>2. TypeOK'
  BY NoneIsNothing DEF TypeOK, LokiIdle, WdIdle
<1>3. Stopped'
  BY <1>1 DEF Stopped
<1> QED BY <1>1, <1>2, <1>3, NoneIsNothing DEF Known, LocalIsDiscoverable, VerdictFresh, Handover,
      Snapshot, Locked, LokiIdle, WdIdle

LEMMA FailureKeeps ==
  ASSUME IInv, Failure
  PROVE  IInv'
<1> USE DEF IInv, process, uptime
<1>1. CASE AtreusStop
  BY <1>1, DeadAtreus DEF AtreusStop, TypeOK, Stopped
<1>2. CASE AtreusStart
  <2>1. TypeOK'
    BY <1>2 DEF AtreusStart, TypeOK
  <2> QED BY <1>2, <2>1, NoneIsNothing DEF AtreusStart, LocalIsDiscoverable, VerdictFresh,
        Handover, Snapshot, Stopped, Known, Locked
<1>3. CASE IceStop
  <2>1. CASE AtreusDies
    BY <1>3, <2>1, DeadAtreus DEF IceStop
  <2>2. CASE UNCHANGED <<services, atreus_up, loki, kartos, wd, svc, want, orphan, shutdowns>>
    <3>1. TypeOK'
      BY <1>3, <2>2 DEF IceStop, TypeOK
    <3> QED BY <1>3, <2>2, <3>1 DEF IceStop, LocalIsDiscoverable, VerdictFresh,
          Handover, Snapshot, Stopped, Known, Locked
  <2> QED BY <1>3, <2>1, <2>2 DEF IceStop
<1>4. CASE IceStart
  <2>1. TypeOK'
    BY <1>4 DEF IceStart, TypeOK
  <2> QED BY <1>4, <2>1 DEF IceStart, LocalIsDiscoverable, VerdictFresh,
        Handover, Snapshot, Stopped, Known, Locked
<1> QED BY <1>1, <1>2, <1>3, <1>4 DEF Failure

-----------------------------------------------------------------------------
LEMMA IInvInit ==
  ASSUME Init
  PROVE  IInv
<1>1. TypeOK
  BY NoneIsNothing DEF Init, TypeOK, LokiIdle, WdIdle
<1> QED BY <1>1, NoneIsNothing DEF Init, IInv, LocalIsDiscoverable, VerdictFresh, Handover,
      Snapshot, Stopped, Known, Locked, LokiIdle, WdIdle

LEMMA IInvNext ==
  ASSUME IInv, [Next]_vars
  PROVE  IInv'
<1>1. CASE UNCHANGED vars
  BY <1>1 DEF vars, process, uptime, IInv, TypeOK, LocalIsDiscoverable,
     VerdictFresh, Handover, Snapshot, Stopped, Known, Locked
<1> QED BY <1>1, ProcessKeeps, LokiKeeps, KartosKeeps,
       WatchdogKeeps, FailureKeeps DEF Next

(* For any names, ports and processes: a name in the table of Atreus is at *)
(* ICE or about to be, until ICE forgets; and what Check erases is what it *)
(* probed.                                                                 *)
THEOREM Safety == Spec => [](TypeOK /\ LocalIsDiscoverable /\ VerdictFresh)
<1>1. Init => IInv
  BY IInvInit
<1>2. IInv /\ [Next]_vars => IInv'
  BY IInvNext
<1> QED BY <1>1, <1>2, PTL DEF Spec, IInv

(* The parts by themselves, for any names, ports and processes: the        *)
(* records of the threads,                                                 *)
THEOREM Typing == Spec => []TypeOK
BY Safety, PTL

(* and that what Check found dead is still the entry that it will erase.   *)
THEOREM FreshVerdicts == Spec => []VerdictFresh
BY Safety, PTL

-----------------------------------------------------------------------------
\* WaitingIsKnown without the part of Atreus, which Stopped adds.
Remembered ==
  \A p \in Port : svc[p] = "waiting" =>
    want[p] # None \/ (loki.at = "reg_ice" /\ loki.from = p)

LEMMA ProcessRemembered ==
  ASSUME IInv, Remembered, NEW p \in Port, Process(p)
  PROVE  Remembered'
<1> USE DEF IInv, process, uptime
<1>1. CASE Start(p)
  BY <1>1 DEF Start, TypeOK, Remembered
<1>2. ASSUME NEW n \in Name, Delegate(p, n)
      PROVE  Remembered'
  BY <1>2, NoneIsNothing DEF Delegate, TypeOK, Remembered
<1>3. CASE Listen(p)
  BY <1>3 DEF Listen, TypeOK, Remembered
<1>4. CASE HandlerCalls(p) \/ HandlerReturns(p)
  <2>1. /\ UNCHANGED <<want, loki>>
        /\ \A q \in Port : svc'[q] = "waiting" => svc[q] = "waiting"
    BY <1>4 DEF HandlerCalls, HandlerReturns, TypeOK
  <2> QED BY <2>1 DEF Remembered
<1>5. CASE Crash(p)
  <2>1. /\ svc'[p] = "down" /\ loki'.at = loki.at
        /\ \A q \in Port : q # p => svc'[q] = svc[q] /\ want'[q] = want[q]
        /\ loki.from # p => loki' = loki
    BY <1>5 DEF Crash, TypeOK
  <2>2. ASSUME NEW q \in Port, svc'[q] = "waiting"
        PROVE  want'[q] # None \/ (loki'.at = "reg_ice" /\ loki'.from = q)
    <3>1. q # p
      BY <2>1, <2>2
    <3>2. want[q] # None \/ (loki.at = "reg_ice" /\ loki.from = q)
      BY <2>1, <2>2, <3>1 DEF Remembered
    <3> QED BY <2>1, <3>1, <3>2
  <2> QED BY <2>2 DEF Remembered
<1> QED BY <1>1, <1>2, <1>3, <1>4, <1>5 DEF Process

LEMMA LokiRemembered ==
  ASSUME IInv, Remembered, Loki
  PROVE  Remembered'
<1> USE DEF IInv, process, uptime
<1>1. ASSUME NEW p \in Port, TakeRegister(p)
      PROVE  Remembered'
  <2>1. /\ svc' = svc /\ loki.at = "idle"
        /\ \A q \in Port : q # p => want'[q] = want[q]
        /\ loki'.at = "reg_ice" /\ loki'.from = p
    BY <1>1 DEF TakeRegister, RegisterLocal, TypeOK
  <2> QED BY <2>1 DEF Remembered
<1>2. ASSUME NEW n \in Name, NEW p \in Port, TakeOrphan(n, p)
      PROVE  Remembered'
  BY <1>2 DEF TakeOrphan, RegisterLocal, Remembered
<1>3. CASE RegisterAtIce
  <2>1. want' = want
    BY <1>3 DEF RegisterAtIce
  <2>2. ASSUME NEW q \in Port, svc'[q] = "waiting"
        PROVE  want[q] # None
    <3>1. svc[q] = "waiting" /\ loki.from # q
      BY <1>3, <2>2, NoneIsNothing DEF RegisterAtIce, Answer, TypeOK
    <3> QED BY <3>1 DEF Remembered
  <2> QED BY <2>1, <2>2 DEF Remembered
<1>4. ASSUME NEW n \in Retired, TakeDeregister(n)
      PROVE  Remembered'
  BY <1>4 DEF TakeDeregister, Remembered
<1>5. CASE EraseLocal
  BY <1>5 DEF EraseLocal, Remembered
<1>6. CASE DeregisterAtIce
  BY <1>6 DEF DeregisterAtIce, Remembered
<1> QED BY <1>1, <1>2, <1>3, <1>4, <1>5, <1>6 DEF Loki

(* A process that has called Delegate is never left waiting for nobody:    *)
(* for any names and ports, whoever stops.  This is the part of            *)
(* DelegateReturns that needs no fairness.  (That Loki may be held up by a *)
(* Check that is held up itself is the other part.)                        *)
THEOREM Waiters == Spec => []WaitingIsKnown
<1> DEFINE Inv == IInv /\ Remembered
<1>1. Init => Inv
  <2>1. Init => Remembered
    BY DEF Init, Remembered
  <2> QED BY <2>1, IInvInit
<1>2. Inv /\ [Next]_vars => Inv'
  <2> SUFFICES ASSUME IInv, Remembered, [Next]_vars
               PROVE  IInv' /\ Remembered'
    OBVIOUS
  <2>1. IInv'
    BY IInvNext
  <2>2. CASE Kartos \/ Watchdog \/ UNCHANGED vars
    <3>1. UNCHANGED <<svc, want, loki>>
      BY <2>2 DEF Kartos, KartosContains, KartosQuery, Watchdog, CheckStep, Check,
         Probe, KeptAlive, Purge, PurgeLocal, PurgeAtIce, CheckDone, Report, process, vars
    <3> QED BY <2>1, <3>1 DEF Remembered
  <2>3. CASE Failure
    <3>1. CASE AtreusDies
      BY <2>1, <3>1 DEF AtreusDies, Remembered
    <3>2. CASE UNCHANGED <<svc, want, loki>>
      BY <2>1, <3>2 DEF Remembered
    <3>3. AtreusDies \/ UNCHANGED <<svc, want, loki>>
      BY <2>3 DEF Failure, AtreusStop, AtreusStart, IceStop, IceStart, process
    <3> QED BY <2>1, <3>1, <3>2, <3>3
  <2> QED BY <2>1, <2>2, <2>3, ProcessRemembered, LokiRemembered DEF Next
<1>3. Inv => WaitingIsKnown
  BY DEF IInv, Remembered, Stopped, WaitingIsKnown, TypeOK
<1> HIDE DEF Inv
<1> QED BY <1>1, <1>2, <1>3, PTL DEF Spec

-----------------------------------------------------------------------------
\* The entry that is probed stays, as the lock is held, and its process can
\* leave its socket only by a crash, which the probe notices.
LEMMA PeerStays ==
  ASSUME IInv, ProbeHasAPeer, Next
  PROVE  ProbeHasAPeer'
<1> USE DEF process, uptime
<1>1. ASSUME NEW p \in Port, Process(p)
      PROVE  ProbeHasAPeer'
  <2>1. CASE Start(p)
    BY <2>1 DEF Start, ProbeHasAPeer, Listening, IInv, TypeOK
  <2>2. ASSUME NEW n \in Name, Delegate(p, n)
        PROVE  ProbeHasAPeer'
    BY <2>2 DEF Delegate, ProbeHasAPeer, Listening, IInv, TypeOK
  <2>3. CASE Listen(p) \/ HandlerCalls(p) \/ HandlerReturns(p)
    BY <2>3 DEF Listen, HandlerCalls, HandlerReturns, ProbeHasAPeer, Listening,
       IInv, TypeOK
  <2>4. CASE Crash(p)
    <3>1. services' = services /\ \A q \in Port \ {p} : svc'[q] = svc[q]
      BY <2>4 DEF Crash, IInv, TypeOK
    <3>2. CASE wd.at = "asked" /\ services[wd.name] = p
      BY <2>4, <3>2 DEF Crash, ProbeBreaksOff, ProbeHasAPeer, IInv, TypeOK
    <3>3. CASE ~(wd.at = "asked" /\ services[wd.name] = p)
      <4>1. wd' = wd
        BY <2>4, <3>3 DEF Crash, ProbeBreaksOff
      <4> QED BY <3>1, <3>3, <4>1 DEF ProbeHasAPeer, Listening
    <3> QED BY <3>2, <3>3
  <2> QED BY <1>1, <2>1, <2>2, <2>3, <2>4 DEF Process
<1>2. CASE Loki
  <2>1. wd' = wd /\ (wd.at = "asked" => services' = services)
    BY <1>2 DEF Loki, TakeRegister, TakeOrphan, RegisterLocal, RegisterAtIce,
       TakeDeregister, EraseLocal, DeregisterAtIce, Locked
  <2>2. ASSUME NEW q \in Port, Listening(q)
        PROVE  svc'[q] = svc[q]
    <3>1. CASE RegisterAtIce
      BY <2>2, <3>1 DEF RegisterAtIce, Answer, Listening, IInv, TypeOK
    <3>2. CASE svc' = svc
      BY <3>2
    <3> QED BY <1>2, <3>1, <3>2 DEF Loki, TakeRegister, TakeOrphan, TakeDeregister,
          EraseLocal, DeregisterAtIce
  <2> QED BY <2>1, <2>2 DEF ProbeHasAPeer, Listening
<1>3. CASE Kartos
  BY <1>3 DEF Kartos, KartosContains, KartosQuery, ProbeHasAPeer, Listening, Locked
<1>4. CASE Watchdog
  <2>1. ASSUME NEW n \in Name, Probe(n)
        PROVE  ProbeHasAPeer'
    BY <2>1 DEF Probe, ProbeHasAPeer, Listening, IInv, TypeOK
  <2>2. ASSUME NEW n \in Name, NEW p \in Port \cup {Zero}, PurgeLocal(n, p)
        PROVE  ProbeHasAPeer'
    BY <2>2 DEF PurgeLocal, ProbeHasAPeer, IInv, TypeOK
  <2>3. CASE Check \/ CheckDone
    <3>1. Check => wd'.at = "probe"
      BY DEF Check, WdIdle
    <3>2. CheckDone => wd'.at = "idle"
      BY DEF CheckDone, WdIdle
    <3> QED BY <2>3, <3>1, <3>2 DEF ProbeHasAPeer
  <2>4. CASE PurgeAtIce \/ KeptAlive
    BY <2>4 DEF PurgeAtIce, KeptAlive, ProbeHasAPeer, IInv, TypeOK
  <2>5. CASE Report
    BY <2>5 DEF Report, ProbeHasAPeer, Listening
  <2> QED BY <1>4, <2>1, <2>2, <2>3, <2>4, <2>5 DEF Watchdog, CheckStep, Purge
<1>5. CASE Failure
  <2>1. CASE AtreusDies
    BY <2>1 DEF AtreusDies, WdIdle, ProbeHasAPeer
  <2>2. CASE UNCHANGED <<services, svc, wd>>
    BY <2>2 DEF ProbeHasAPeer, Listening
  <2> QED BY <1>5, <2>1, <2>2 DEF Failure, AtreusStop, AtreusStart, IceStop, IceStart
<1> QED BY <1>1, <1>2, <1>3, <1>4, <1>5 DEF Next

(* A Check that holds the lock waits for a process that is there: for any  *)
(* names and ports, whoever stops.  So all that can hold it up is that the *)
(* process has no time, which is what Held says.                           *)
THEOREM Peers == Spec => []ProbeHasAPeer
<1> DEFINE Inv == IInv /\ ProbeHasAPeer
<1>1. Init => Inv
  <2>1. Init => ProbeHasAPeer
    BY DEF Init, WdIdle, ProbeHasAPeer
  <2> QED BY <2>1, IInvInit
<1>2. Inv /\ [Next]_vars => Inv'
  <2> SUFFICES ASSUME IInv, ProbeHasAPeer, [Next]_vars
               PROVE  IInv' /\ ProbeHasAPeer'
    OBVIOUS
  <2>1. CASE UNCHANGED vars
    BY <2>1, IInvNext DEF vars, process, ProbeHasAPeer, Listening
  <2> QED BY <2>1, IInvNext, PeerStays
<1>3. Inv => ProbeHasAPeer
  OBVIOUS
<1> HIDE DEF Inv
<1> QED BY <1>1, <1>2, <1>3, PTL DEF Spec

(* Neither a service that waits for Loki nor the Watchdog that waits for a *)
(* service is left waiting for nobody: for any names and ports, whoever    *)
(* stops.                                                                  *)
THEOREM Remembering == Spec => []NobodyForgotten
<1>1. WaitingIsKnown /\ ProbeHasAPeer => NobodyForgotten
  BY DEF NobodyForgotten
<1> QED BY <1>1, Waiters, Peers, PTL
=============================================================================
