# blademesh in TLA+

blademesh is a small service mesh. On every host runs **Atreus**, a process of
three threads (Loki, Kartos, Watchdog) that knows the services of its host; one
**ICE** knows which host has which service; one **Chaos** collects statistics.
A service and its callers talk only to the Atreus of their own host, through
the library in `blade/`. This directory models how those processes find each
other, call each other, block each other and fail, checks the models with TLC,
and proves the safety part with TLAPS.

## 1. Inventory

| Component | State | Operations | Where |
|---|---|---|---|
| Read/write lock | two counters, a flag, two condition variables | LockRead, LockWrite, UnlockRead, UnlockWrite | `blmesh/rw_lock.h` |
| ICE | `srv_name_to_ip_`, `srv_ip_to_name_` | register, deregister, query, list, count | `ice/` |
| Service table of Atreus | `services_`: name to port, under the lock | Register, Deregister, Query, Iterate | `atreus/util/service_manager.*` |
| Loki | none of its own | registration, deregistration, request | `atreus/policy/loki_session_policy.cc` |
| Kartos | none of its own | request | `atreus/policy/kartos_session_policy.cc` |
| Watchdog | two timers | Check, Report | `atreus/core/watchdog.cc` |
| Statistics | four tables at Atreus, four at Chaos | Do..., ...Report, DoReport | `atreus/util/data_manager.*`, `chaos/` |
| Sessions | buffers, the object in hand, the sessions a session holds | callbacks of the reactor | `blade/blade_session.cc`, the policies |
| Synchronous call | a socket on the caller's stack | Call, CallExt and their ...NotSure variants | `blade/sync_session.cc` |
| Service | `f_`: name to handler | Delegate, OnRecvWholeBladeObject | `blade/service_session_policy.cc` |
| BladeObject | header and typed field tables | getters, setters, encode, decode | `blade/blade_object.cc`, `opr.cc` |
| Ids, log, flags, chaostools | nothing the system depends on | | `blmesh/`, `chaostools/` |

How they interact. A service calls `Delegate` for each name, which blocks on
Loki; Loki enters the name in the table of Atreus and then calls ICE, and only
then answers. A caller blocks in `SyncSession::Call` on Loki, which asks ICE for
a host and opens a session to the Kartos of that host; Kartos looks the port up
in the table and opens a session to the service; the reply comes back along the
same sessions. The Watchdog takes the write lock of the table, probes every
entry with a synchronous call, which waits for as long as the service is busy,
removes the ones that do not answer from the table and from ICE, and lets go of
the lock. On another timer it takes the four
statistics tables and sends them to Chaos.

The three threads of Atreus share the table and the statistics. Every server
loop is one thread, so a handler that blocks blocks its process. There are no
time limits on any call, nothing is persistent, and nothing is retried. What is
hard is therefore order (two tables changed one after the other by two threads),
waiting (who holds the lock or a thread while waiting for whom), and what is
left behind when a process ends in the middle. The hazards are listed with their
lines in `PROJECT.json`.

What makes each part correct:

* lock: a writer is alone, no wake-up is lost, every waiter gets on;
* ICE: the two maps say the same, and answers come from what is registered;
* discovery: what a host offers can be found at ICE; what a Check removes is what
  it found dead; the dead are removed and a registration comes back, unless a
  Check is held for good by a service that waits itself;
* routing: a call fails only for a reason, and every call comes back and every
  Check ends, unless threads wait for each other in a circle;
* statistics: no event is counted twice, or lost between Atreus and Chaos except
  in ways that can be named; every table is reported again and again, unless a
  Check on the same thread is held for good;
* sessions: the service does its part at most once for a call, and once if the
  call is answered; a call breaks off for a reason only, and leaves nothing behind;
* messages: what arrives is what was sent, and no byte is written or read past
  the end of its buffer.

## 2. Modules

| Module | What it is |
|---|---|
| `RWLockSpec`, `RWLock`, `RWLockProofs` | the lock as promised, as coded, and proved |
| `IceSpec`, `IceRegistry`, `IceRegistryProofs` | ICE as a set of pairs, as two maps, and proved |
| `Discovery`, `MCDiscovery`, `DiscoveryProofs` | registration, look-up, keep-alive and purge on one host |
| `CallSpec`, `Session`, `MCSession`, `SessionProofs` | a call as promised; the sessions that carry it, one socket operation at a time; proved |
| `Routing`, `MCRouting`, `RoutingProofs` | many calls on their way through the threads of one host, and the Watchdog in their way |
| `Telemetry`, `TelemetryProofs` | counters, reports, and Chaos |
| `BladeForms`, `MessageSpec`, `BladeObject`, `MCBladeObject`, `BladeObjectProofs` | the kinds and fields of messages; a message as promised; its tables and wire format; proved |

The modules build on each other by assumption: `Discovery` and `Routing` take
the table lock to be what `RWLockSpec` says (a boolean `Locked` where the
Watchdog holds it across steps, one step where it is held within a function),
and `Discovery` takes ICE to be the set of `IceSpec` seen from one address.
Both abstractions are justified by the refinements proved in `RWLockProofs` and
`IceRegistryProofs`. `Discovery`, `Routing` and `Telemetry` take a call as one
request, served at most once, that ends with a reply or breaks off for a reason
and leaves nothing behind: that is what `Session` shows of the sessions. Operators
whose names begin with `Bug` are not part of any
behaviour: each is a plausible mistake in the definition that follows it, and
the property it is listed with must notice it.

### RWLock

The mutex is held from the beginning of an operation to its end or to a wait,
so these stretches are the steps. `pc` says of every thread whether it is idle,
asleep in one of the two waits, woken and about to test the predicate again, or
inside. `TryRead` and `TryWrite` are the predicates of the waits with what
follows them; `notify_one` chooses any sleeper; a wait may return unasked
(`SpuriousWake`). Fairness: woken threads run, and guards are destroyed
(`WriteLockGuard`, `ReadLockGuard` release at the end of a scope).

`rwlock` runs four threads, so that two can sleep while another one holds the
lock and one more arrives: the smallest number in which the choice of
`notify_one` between two sleepers matters while a third thread interferes. It
checks that the counters are exact, exclusion, that no wake-up is lost, progress
of writers (some writer gets in, not a particular one) and of readers (unless
writers keep coming), and the refinement of `RWLockSpec`.

### IceRegistry

The two maps have a key exactly as long as there is something under it; a reply
that depends on the iteration order of an `unordered_set` is a choice.
`Deregister` asks one map and changes both, which is right only because the maps
are inverse to each other (`Inverse`). `ice_registry` has two names and three
hosts: every size of set on either side, and names shared by hosts.
`QueryNothing` is a query without a name: the handler catches the exception of
`GetString`, asks for the name once more to log it, and ICE ends and comes back
empty (`StartAnew` in `IceSpec`). `NewQuery` always puts the name in, so no
program of the repository sends such a query. ICE is one
thread and a handler never waits, so one request is one step and there is
nothing to be fair about.

### Discovery

One Atreus. `services` is its table, `ice` the names ICE has for it, `loki`,
`kartos` and `wd` say how far the three threads are, `svc` and the variables
beside it describe the service processes. A step is what a thread does between
two moments at which another can see it: `RegisterLocal` (under the lock) and
`RegisterAtIce` (after it); `TakeDeregister`, `EraseLocal` and `DeregisterAtIce`;
`Check`, one `Probe` per entry, then `PurgeLocal` and `PurgeAtIce` for each dead
entry, `CheckDone`. Probes go in any order, as the map has none. A `Probe` that
is refused is a verdict; one that is not waits, with the lock in hand and
without a time limit, until the process has time for it (`KeptAlive`) or dies
(`ProbeBreaksOff`, part of `Crash`). A process has no time while its one thread
is in a handler that makes a call of its own, from `HandlerCalls` to
`HandlerReturns`; what becomes of that call is the matter of `Routing`. Registrations
of a process that has died are still in Loki's socket (`orphan`). ICE and Atreus
may stop at any point and come back empty; a call that breaks off ends the
process that made it, because `SyncSession::Call` and `CallExt` dereference a
reply that is not there, while a call that is refused has still its request to
return and goes unnoticed.

`DeadIsPurged` and `DelegateReturns` say that the entry of a process that is gone
goes too, and that a registration is answered, with one exception: a Check that
waits for good for a process whose handler waits for a call of its own (`Held`).
The exception is real. If that call needs Loki or Kartos to get at the lock, or
comes back to the same process, nobody can go on: `routing_deadlock` finds the
circle. Short of it, nothing delays either for good, neither a process that dies
while it is probed, nor one that starts anew at the port, nor one whose handlers
keep calling and coming back. What the two rest on, short of fairness, is an
invariant: no stop of a process, of ICE or of Atreus leaves a process waiting
for a Loki that does not know of it (`WaitingIsKnown`), or the Watchdog waiting,
with the lock in hand, for a process that is not there (`ProbeHasAPeer`);
`NobodyForgotten` is both.

Runs: `discovery_safety` has two processes that share a name (so that `emplace`
keeps the port of the wrong one), one of which has a name of its own: the smallest
case in which a Check purges one entry while Loki is busy with another or with
the other process's registration of the same, with a deregistration and failures
of both ICE and Atreus. `discovery_live` has two processes with a name each, so
that the Check that one of them holds up keeps the other's dead entry in the table
and its registration waiting: without the exception TLC refutes either property
there. The handlers of both make calls (`Calling`); nobody asks Kartos for anything
(`Wanted`), whose two looks are the matter of `discovery_safety` and
`discovery_phantom`. Two more runs show where the code falls short; see section 4.

Fairness: the timer keeps firing and a Check goes on, but a probe goes on only
when its process has time: it waits its turn, and a process whose handlers keep
coming back comes to it (strong fairness of `KeptAlive`). Loki proceeds with what
it has begun; registrations that arrive again and again between two Checks are
taken in the end (strong fairness: the lock is taken away again and again); those
whose sender has died need not be.
Nothing makes the call of a handler come back, and nothing need start, crash or
be deregistered.

### Session

One call and the sessions that carry it: the `SyncSession` of the caller, and for
Loki and Kartos a `BladeSession` and its child. `op[s]` is the operation of a
socket that is pending for session s, `obj[s]` is `now_obj_`, `wire[s]` what s has
sent and its peer not yet taken. A step is the handler of a completed operation
with the callback of the policy that it runs: `Connect`, `Accept`, `Write`,
`ReadHeader` and their failures for the sessions, `Received` with one action per
branch of each policy's `OnRecvWholeBladeObject`. There is no state for "the
session exists": a `shared_ptr` is held by the pending handler and by the child
(`Alive`), and a session that nobody holds closes its socket. That is the only
way in which an end or a failure travels, the error callbacks of the policies do
nothing (`Fail`).

What the code does with failures is kept as it is. `Call` clones `now_obj_`
whatever `Start` returned, so that a caller whose connection or request failed
gets its own request back, and one whose request was written follows a null
pointer (`CallerFails`); `CallExtNotSure` looks at the error and returns null.
(`CallNotSure` has the test the wrong way round; nobody calls it.) A name that a
service does not have is answered with the request itself (`ServiceUnknown`).
A process that stops takes its sessions with it, and what they sent may be lost
or cut (`Stop`). `LokiRegister` stands for a deregistration too, and what ICE
does to a request is the choice between `LokiRequest` and `GiveUp`.

`CallSpec` says what the caller may rely on: what it asks for is done at most
once, has been done if it is answered, has not been done and never will be if it
is refused; if it breaks off the caller cannot know. `Judge` reads the outcome of
`CallSpec` off what `Call` returned, and `ImplementsCall` is the refinement.

`session` makes the four kinds of calls (a request, one with a trace id, a
registration, a keep-alive) between four processes, all of which may stop at any
operation of any socket and come back. One call is made at a time, which is the
bound of the module: sessions of different calls share no state but the tables
and threads of `Discovery` and `Routing`. `Home` may put sessions into one process
in any way that keeps a child with its father; the proofs hold for all of them.

`SessionsEnd` is cut in three, of which two need no fairness. `NeverStuck`: while
the call is not over, the operation of some session can complete or fail.
`NearerToTheEnd`: `Remaining`, a number of at most 24, decreases with every
completion and every failure, and nothing else, no stop and no restart, makes it
grow. What is left to fairness is that an operation that can complete does.

Fairness: the reactors hand out what is ready. There are no time limits anywhere
in the code, so a peer whose host vanishes without closing its sockets is waited
for without end; that case is left out, and `SessionsEnd` is about processes that
stop.

### Routing

All of a call: `call[c]` says in whose hands the call of c is (Loki's socket,
Kartos's socket, the look-up, the service's socket, its handler, and back) and
how it ends. Kartos opens the session to the service after its look-up and
sends the request in a later turn of its thread (`KartosConnect`).
`kartos` is the one request the Kartos thread is at, `work` the
handler that a service runs, `wd` the Check. A process that ends breaks off the
calls it has to answer, each session being held by the next, and the caller of a
call that broke off dies of the missing reply. Loki's test
`GetTraceId() == kBTRequest`, which compares a trace id with a type, is modelled
as it stands (`Routable`): a request made with a trace id is dropped.

Here ICE is always up and says what the table says, because the Watchdog removes
a name from both before it lets go of the lock, and no service registers anew;
`Discovery` is about the rest.

In `routing` a client calls two services whose handlers call each other (`Calls`),
one of them with a trace id (`Traced`), the services and the client may stop and
the Watchdog checks again and again. Two services and three callers are enough
for a queue at every thread, for a call that waits behind another, for one that
arrives after a purge, and for threads that wait for each other in a circle.
`CallsEnd` and `ChecksEnd` say that such a circle (`Stuck`) is the only thing that
can hold up a call or a Check for good; `routing_deadlock`, on
the same instance, shows that the circle is real. `OnlyCirclesHoldUp` is the
invariant behind them: whatever has crashed, while something is under way some
thread has a step to make for it or there is a circle. `CircleHolds` is why
they say "for good": only the crash of a service undoes a circle.

`ImplementsCalls` says of every one of the calls under way what `Session` says of
one, that it is a call of `CallSpec`: neither the queues it waits in, nor other
calls, nor the Watchdog make a service do its part twice, or let a caller have a
reply to something that was not done. Each call counts how often it was begun
(`ran`) for that; nothing reads it.

Fairness: every server loop comes to a request that keeps waiting (strong
fairness, because the thread may be busy in between), handlers end once their own
call is back, and the keep-alive timer keeps firing. The Watchdog's lock does not
starve Kartos: the period between two Checks is seconds. A probe waits its turn
at the service like any request, hence strong fairness of `KeptAlive`.

### Telemetry

`tables` and `chaos` are the four tables at either end, `report` the one under
way. Kartos counts a call and then its payload, with a report possibly between
the two; the reports take turns on the Watchdog thread, which also runs Check, so
`WatchdogDoShutdown` happens only between Reports. Taking a report clears the
table under the statistics lock, so it is one step; sending it is another.
`seen` is a history variable: what was ever counted. `DoReport` calls
`BladeObject::Iterate` with callbacks that return 0, which ends the loop after
its first entry; `Record` is faithful to that. What Chaos is asked changes nothing, so the handlers
of `chaos/handlers.cc` that answer are operators (`DoSrv`, `DoMost`; a maximum over
a hash table may be any of several): `AnswersTrue` says that what they answer is
never more than what happened.

`NeverOverCounted` allows losses; `LossesKnown` lists them. Each number stays what
it is on its way from the table through the report to Chaos, unless the process
that has it stops, Chaos is not there to read the report, or Chaos reads it as
far as another service and no further. The last of them is not meant
(`telemetry_lost`).

`telemetry` has two services, payloads of 1 and 6 bytes (an odd and an even
number to halve) and three events (`MaxEvents`, the only artificial bound): two
of one kind and one of another, so that reports can be lost and merged, and a
table taken between two counts of one service. Atreus and Chaos may stop.
Fairness: a Report goes on, a running Chaos reads its socket. That a Report comes
round at all presumes that every Check before it, on the same thread, has ended:
`EverythingIsTaken` is about what the reports do then, and does not deny that a
Check can be held for good (`routing_deadlock`).

### BladeObject

One object on its way from hand to hand. `obj` is the object in hand (the
sender's while it travels), with `names` for `name_` and `members` for the five
tables; `got` is the one the receiver builds. The operations of the library are
actions while nothing is being sent: the constructors (`Form` says which fields
each puts in), `Add...`, `RemoveField`, the setters. Sending and receiving are one
step per field: `Measure` is `UpdateHeaderField`, `EncodeField` and `TakeField`
are the loops of `Encode` and `DecodeWithHeader`, with the early ends they have (a
field that does not fit, a field longer than what remains). Fields are visited
table by table, within a table in any order, since the order of a hash table is
anything; the three passes over one unchanged object take the same order. `at`,
where a field will start, is kept in `order` for the proofs; nothing reads it.

The bytes are left out, their number is not: it is computed by three definitions
translated from three files (`MeasuredLength` from `blade_object.cc`,
`EncodedLength` from `encoder.h`, `TakenLength` from `decoder.h`), and whether the
fields fit, and when the decoder stops, depends on all of them. That they agree is
`LengthsAgree`; that `name_` and the tables agree is `TablesAgree`; that the
getters return at the receiver what they returned at the sender is `Arrives`, the
refinement of `MessageSpec`. A connection that breaks delivers no object, which
is a matter for `Session`.

`blade_object` makes every kind of message, with one field more, of any kind, that
is added, removed and added again: up to four fields in up to three tables, and
messages without any field. The texts have 0 and 3 characters, so that a message
without payload beyond its lengths is among them; the names have their real
lengths. There is no bound on edits or hops. Nothing need happen, so there is no
fairness.

## 3. Proofs

All theorems hold for any finite or infinite sets of names, hosts, ports,
processes and payloads, under the named assumptions of the modules: the set of
threads is finite (`ThreadFinite`: the counters of the lock are cardinalities),
`None` and `Zero` are not names or ports, clients and services are different
processes, the two threads of Atreus that somebody may wait for are no services
(`Threads`), lengths are numbers.

| Theorem | Says |
|---|---|
| `Typing` of every module of proofs | the type invariant |
| `RWLockProofs!Counting` | the counters and the flag are exact |
| `RWLockProofs!Safety` | types, exact counters, mutual exclusion |
| `RWLockProofs!Wakeups` | no wake-up is lost |
| `RWLockProofs!Refinement` | `RWLock` implements `RWLockSpec` |
| `IceRegistryProofs!Consistency` | the two maps are inverse, without empty sets |
| `IceRegistryProofs!Refinement` | the two maps implement the set of pairs of `IceSpec` |
| `DiscoveryProofs!Safety` | what is offered is at ICE or on its way; what is purged was probed |
| `DiscoveryProofs!FreshVerdicts` | what Check erases is the entry that it probed |
| `DiscoveryProofs!Waiters` | whoever waits for Loki is known to it |
| `DiscoveryProofs!Peers` | a probe waits for a process that takes requests |
| `DiscoveryProofs!Remembering` | neither waits for nobody |
| `TelemetryProofs!Safety` | nothing is counted twice |
| `TelemetryProofs!Averages` | averages are below the longest payload |
| `TelemetryProofs!Answers` | what Chaos answers is true of the services |
| `TelemetryProofs!Losses` | a number gets lost in three ways and no other |
| `SessionProofs!InHand` | no session uses an object that is not there, or has two operations pending |
| `SessionProofs!ForAReason` | a call breaks off only if a process stopped or Loki or Kartos gave it up |
| `SessionProofs!Promised` | `Session` implements `CallSpec` |
| `SessionProofs!GoingOn` | a call that is not over has a session that can go on |
| `SessionProofs!Nearer` | every operation brings the call nearer to its end |
| `RoutingProofs!Safety` | a call fails only if its service is down, or it has a trace id |
| `RoutingProofs!GoingOn` | somebody goes on with what is under way, or threads wait in a circle |
| `RoutingProofs!Standstill` | only the crash of a service undoes a circle |
| `RoutingProofs!Refinement` | every call in `Routing` implements `CallSpec` |
| `BladeObjectProofs!Agreement` | the name table and the field tables agree |
| `BladeObjectProofs!Safety` | the two tables agree, and so do the three lengths |
| `BladeObjectProofs!Refinement` | `BladeObject` implements `MessageSpec` |

Along which argument:

* **RWLock.** Exclusion is not inductive: a thread is let in on account of the
  counters, so they must be exact, and clearing the flag leaves no writer behind
  only if there was one writer. The invariant is types, `CountersExact` and
  `MutualExclusion` together. `NoLostWakeup` follows with that invariant as a
  premise of each step. The refinement maps the woken writers to waiting ones.
* **IceRegistry.** Types (no empty sets) and `Inverse` carry each other.
* **Discovery.** `LocalIsDiscoverable` needs to know who may make ICE forget a
  name: only Loki after it erased the name, with no other registration served in
  between, and the Watchdog while it holds the lock. `Handover` states that;
  `Snapshot` and `Stopped` supply what a Check and a stopped Atreus look like.
  `Waiters` adds only that each of Loki's answers ends the waiting of the one
  process that Loki had in hand (`Remembered`). For `Peers`: the entry that is
  probed stays as it is while the lock is held (`Safety`), and its process gives up
  its socket only by a crash, which the probe notices (`PeerStays`).
* **Routing.** `Truthful`: what is not in the table is down, what the Check has
  found dead is down, what it is waiting for is up. Services that died are not
  started again in this module, so verdicts do not age. For `GoingOn`: if no call
  and no Check can go on, then each thread that waits does so for one that waits,
  and the set of all of them is the circle (`ItIsACircle`); that a request at a
  service's socket means a service that is up (`Served`) excludes waiting for the
  dead. For `Standstill`: no step of anybody ends the waiting of a thread
  in the circle, it only lets a request into a handler that waits itself
  (`Spares`), so the same set is still a circle afterwards. For `Refinement`: `Way` lists what one step of the whole host
  can do to the record of one call, `Fits` how often it ran by its stage and
  result; each entry of `Way` is a step of `CallSpec` or none.
* **Telemetry.** The three places (table, report, Chaos) together are bounded by
  the history; every step moves numbers from one to the next or drops them. For the answers,
  `Reality` adds that an entry is there only if its event happened, and that a
  payload is counted only after its query. `Losses` goes through the same moves
  with equalities for the inequalities (`Accounted`).
* **Session.** An order of the sessions along the way (`Place`) and what each
  may be doing: what lies past the session that has the call is
  untouched on the way down (`Connecting`, `Asking`, `Hearing`, and `ran = 0` with
  them) and done on the way back (`Replying`); `OffTheWay` is for the calls that
  do not go all the way. `Requests` and `Replies` say which object it is that
  travels, and that a reply agrees with what was done; `Links`, that whoever waits
  has somebody to wait for, or there was trouble. `Promised` follows from these
  in one step per action. For `GoingOn`: the peer of a
  server session that listens writes, has written or is gone (`Heard`), and half
  an object comes only from a process that has stopped (`Cut`); so a session that
  waits, waits for one further down, and the last of them for nobody.
  `Nearer` adds up what each pending operation may still bring about (`ToGo`):
  an operation is worth more than those it starts together. `Home` is arbitrary, so it makes no difference which
  sessions share a process.
* **BladeObject.** Sums over a set of fields are beyond the prover, so the
  invariant speaks of places: each field starts where the one before it ends
  (`Laid`), what is written or remains is the place of the next field (`Walked`),
  and every field ends within `size`, so none is cut off. For the refinement,
  `Covered` says that Iterate visits exactly the object's fields, and `Decoded`
  that the receiver's tables hold those already taken. The assumptions are that
  lengths are numbers, `None` is no value, and 0 is a trace id.

Only model-checked, since the prover does not reason about fairness: the progress
of the lock's waiters, `DeadIsPurged`, `DelegateReturns`, `SessionsEnd`,
`CallsEnd`, `ChecksEnd`, `EverythingIsTaken`. Of `SessionsEnd`, `CallsEnd` and
`ChecksEnd` the part that needs none is proved, as said above; of `DelegateReturns`
that whoever waits is known to Loki, and of both it and `DeadIsPurged` that a
Check waits for nobody but a living process.

## 4. Where the code and its words differ

Each of these is a run whose property TLC refutes:

* `discovery_serving`: a service is registered before it listens. A Check in
  between purges it, and it is never registered again, so it serves and is not
  among the available services.
* `discovery_phantom`: `ServiceManager::Query` looks twice and lets go of the
  lock in between; a name purged then is put back with port 0, in a map that is
  only locked for reading.
* `telemetry_lost`: callbacks that return 0 end the loop over a report after its
  first entry, so of a report on two services one is lost.
* `routing_deadlock`: a service whose handler calls another one, the Watchdog
  that probes it under the lock, and Kartos that needs the lock wait for each
  other. From then on nothing on the host is routed, and no Check ends.

Not a run, but visible in the models: a single payload of 6 bytes is reported as
an average of 1, because the running average starts at 0 and is formed at both
ends (`Average`); a query of ICE without a name ends ICE (`QueryNothing`); a request with a trace id is dropped (`Routable`); a caller whose connection is refused is handed its own
request as if it were the reply (`CallerFails`); `ServiceSessionPolicy` looks into
the object before it tests it for null, which does no harm because it is always
there (`ObjectInHand`), and its `Clone` leaves the error handlers behind, so that
they are never called; and because
Loki tells ICE after it has let go of the lock, a purge in between makes ICE
forget a name first and learn it last, so that it lists a name that no Check can
find (`RegisterLocal`, `PurgeAtIce`, `RegisterAtIce`, in this order).

## 5. Not modelled, and why

* `BladeObject::Dsl` and `Opr::Decode`, which nobody calls; `Clone`, which copies;
  message ids, which are never compared.
* Several hosts at once in `Routing`: the Kartos of another host differs from that
  of the caller's host only in whose lock it waits for. `Session` has them apart.
* A second request on a connection: no policy reads again after its reply.
* Hosts that vanish without closing their sockets: the code has no answer to them.
* The 32-bit sums of Chaos: the overflow is beyond any bound worth a run.
* `chaostools`, flags and start-up, ids and the log: output, or state that no
  other part sees.
* `3rdparty/`: asio and glog are modelled by what the code uses of them.

## 6. Plan

1. Done: lock, ICE, discovery, statistics, sessions, routing on one host, messages
   and their wire format, with proofs.
2. Done since: what the progress properties rest on, with proofs; the calls of
   `Routing` as calls of `CallSpec`; the account of what the statistics lose.
3. Worth adding: `Routing` with an Atreus on each host and the circle between two
   hosts; a proof that `Check` of `Discovery` implements a purge in one step as
   seen by Loki; which steps wake a waiter of the lock, as the safety part of its
   progress.
