------------------------------ MODULE Telemetry ------------------------------
(***************************************************************************)
(* What becomes of the numbers that Atreus counts: the four tables of its  *)
(* DataManager, the four reports that Watchdog::Report sends one after the *)
(* other, and the tables of Chaos, which adds the reports up.              *)
(*                                                                         *)
(* The Kartos thread counts a call and then its payload, the Loki thread   *)
(* counts unknown services, the Watchdog thread counts what it purged and  *)
(* reports.  Taking a report empties the table; what happens to the report *)
(* then is nobody's concern, since the result of the call is dropped.      *)
(***************************************************************************)
EXTENDS Naturals, FiniteSets

CONSTANTS
  Name,        \* names of services
  Payload,     \* lengths of payloads
  Unreliable,  \* which of "atreus" and "chaos" may stop and start again
  MaxEvents,   \* a bound of the model: how much is ever counted
  None         \* no such entry

ASSUME LengthsAreNumbers == Payload \subseteq Nat
ASSUME NoneIsNoNumber == None \notin Nat

\* The types of a report, as on the wire.
Query == 1
Error == 2
Shutdown == 3
Bytes == 4
Kind == 1..4
Counter == Kind \ {Bytes}

VARIABLES
  tables,      \* querys_, errors_, shutdowns_, bytes_ of Atreus
  kartos,      \* the call Kartos has counted and not yet measured
  at, turn,    \* Watchdog::Report: how far, and with which report
  report,      \* the report taken or sent; its kind is 0 if there is none
  chaos,       \* the four tables of Chaos
  atreus_up, chaos_up,
  seen         \* history: what was counted; for Bytes, the longest payload

watchdog == <<at, turn>>
uptime == <<atreus_up, chaos_up>>
vars == <<tables, kartos, watchdog, report, chaos, uptime, seen>>

EmptyTable == [n \in Name |-> None]
EmptyTables == [k \in Kind |-> EmptyTable]
NoReport == [kind |-> 0, entries |-> EmptyTable]
NoCall == [name |-> None, bytes |-> 0]

\* operator[] makes an entry of 0 where there is none.
Value(v) == IF v = None THEN 0 ELSE v
Larger(x, y) == IF x < y THEN y ELSE x

Plus(v, times) == Value(v) + times

BugNotHalved(v, bytes) == Value(v) + bytes
Average(v, bytes) == (Value(v) + bytes) \div 2

Init ==
  /\ tables = EmptyTables /\ chaos = EmptyTables
  /\ kartos = NoCall
  /\ at = "ready" /\ turn = Query
  /\ report = NoReport
  /\ atreus_up = TRUE /\ chaos_up = TRUE
  /\ seen = [k \in Kind |-> [n \in Name |-> 0]]

-----------------------------------------------------------------------------
(* Counting.                                                               *)

Counted == {c \in Counter \X Name \X (1..MaxEvents) : c[3] <= seen[c[1]][c[2]]}

Count(k, n) ==
  /\ atreus_up /\ Cardinality(Counted) < MaxEvents
  /\ tables' = [tables EXCEPT ![k][n] = Plus(@, 1)]
  /\ seen' = [seen EXCEPT ![k][n] = @ + 1]

KartosDoQuery(n, bytes) ==
  /\ kartos = NoCall
  /\ Count(Query, n)
  /\ kartos' = [name |-> n, bytes |-> bytes]
  /\ UNCHANGED <<watchdog, report, chaos, uptime>>

KartosDoBytes ==
  /\ kartos # NoCall
  /\ tables' = [tables EXCEPT ![Bytes][kartos.name] = Average(@, kartos.bytes)]
  /\ seen' = [seen EXCEPT ![Bytes][kartos.name] = Larger(@, kartos.bytes)]
  /\ kartos' = NoCall
  /\ UNCHANGED <<watchdog, report, chaos, uptime>>

LokiDoError(n) ==
  /\ Count(Error, n)
  /\ UNCHANGED <<kartos, watchdog, report, chaos, uptime>>

\* In Check, which the timers never run in the middle of a Report.
WatchdogDoShutdown(n) ==
  /\ at = "ready" /\ turn = Query
  /\ Count(Shutdown, n)
  /\ UNCHANGED <<kartos, watchdog, report, chaos, uptime>>

-----------------------------------------------------------------------------
(* Reporting: Query, Error, Shutdown, Bytes, and then from the beginning.  *)

BugKeepsTable ==
  /\ atreus_up /\ at = "ready"
  /\ report' = [kind |-> turn, entries |-> tables[turn]]
  /\ at' = "taken"
  /\ UNCHANGED <<tables, kartos, turn, chaos, uptime, seen>>

TakeReport ==
  /\ atreus_up /\ at = "ready"
  /\ report' = [kind |-> turn, entries |-> tables[turn]]
  /\ tables' = [tables EXCEPT ![turn] = EmptyTable]
  /\ at' = "taken"
  /\ UNCHANGED <<kartos, turn, chaos, uptime, seen>>

BugThreeReports == (turn % 3) + 1
NextTurn == (turn % 4) + 1

\* With nobody at its port the call returns at once, and the report is gone.
Send ==
  /\ at = "taken"
  /\ IF chaos_up
     THEN at' = "sent" /\ UNCHANGED <<turn, report>>
     ELSE at' = "ready" /\ turn' = NextTurn /\ report' = NoReport
  /\ UNCHANGED <<tables, kartos, chaos, uptime, seen>>

BugMakesEntries(k, entries) == \* for services that the report does not name
  IF entries = EmptyTable
  THEN UNCHANGED chaos
  ELSE \E n \in Name :
         chaos' = [chaos EXCEPT ![k][n] =
                     IF k = Bytes THEN Average(@, Value(entries[n]))
                     ELSE Plus(@, Value(entries[n]))]

BugOverwrites(k, entries) ==   \* the sum so far is forgotten
  IF entries = EmptyTable
  THEN UNCHANGED chaos
  ELSE \E n \in Name :
         /\ entries[n] # None
         /\ chaos' = [chaos EXCEPT ![k][n] =
                        IF k = Bytes THEN Average(@, entries[n]) ELSE entries[n]]

\* DoReport hands Iterate a callback that returns 0, which ends the loop
\* after the first entry; the order of an unordered_map is anybody's guess.
Record(k, entries) ==
  IF entries = EmptyTable
  THEN UNCHANGED chaos
  ELSE \E n \in Name :
         /\ entries[n] # None
         /\ chaos' = [chaos EXCEPT ![k][n] =
                        IF k = Bytes THEN Average(@, entries[n])
                        ELSE Plus(@, entries[n])]

\* The sender may have stopped since.
ChaosDoReport ==
  /\ report # NoReport /\ at # "taken" /\ chaos_up
  /\ Record(report.kind, report.entries)
  /\ report' = NoReport
  /\ at' = "ready"
  /\ turn' = IF at = "sent" THEN NextTurn ELSE turn
  /\ UNCHANGED <<tables, kartos, uptime, seen>>

-----------------------------------------------------------------------------
(* Asking.  The one thread of Chaos answers between two reports; a lookup  *)
(* changes nothing.                                                        *)

Refused == [ok |-> FALSE, name |-> None, val |-> 0]
NoAnswer == [ok |-> TRUE, name |-> None, val |-> 0]

\* GetQuery, GetError, GetShutdown, GetBytes.
GetOf(k, n) == chaos[k][n]

\* at() throws for a service without an entry, and the reply goes without its
\* kChaosOk.
DoSrv(k, n) == IF GetOf(k, n) = None THEN Refused
               ELSE [ok |-> TRUE, name |-> n, val |-> GetOf(k, n)]

\* GetMostQuery, GetMostError, GetMostShutdown: what max_element may find in a
\* map whose order is anybody's guess.
GetMost(k) == {n \in Name : /\ GetOf(k, n) # None
                            /\ \A m \in Name : Value(GetOf(k, m)) <= GetOf(k, n)}

DoMost(k) == IF chaos[k] = EmptyTable THEN {NoAnswer}
             ELSE {[ok |-> TRUE, name |-> n, val |-> GetOf(k, n)] : n \in GetMost(k)}

-----------------------------------------------------------------------------
(* All tables are in memory only.                                          *)

BugStopsInTheMiddle ==         \* the next Report does not start anew
  /\ atreus_up' = FALSE
  /\ tables' = EmptyTables
  /\ kartos' = NoCall
  /\ UNCHANGED <<at, turn>>

AtreusDies ==
  /\ atreus_up' = FALSE
  /\ tables' = EmptyTables
  /\ kartos' = NoCall
  /\ at' = "ready" /\ turn' = Query

\* A report that was sent is still there to be read.
AtreusStop ==
  /\ "atreus" \in Unreliable /\ atreus_up
  /\ AtreusDies
  /\ report' = IF at = "sent" THEN report ELSE NoReport
  /\ UNCHANGED <<chaos, chaos_up, seen>>

\* By the first report of the new Atreus, rpd seconds later, it was read.
AtreusStart ==
  /\ ~atreus_up /\ report = NoReport
  /\ atreus_up' = TRUE
  /\ UNCHANGED <<tables, kartos, watchdog, report, chaos, chaos_up, seen>>

\* A call that breaks off makes the Watchdog dereference a null reply.
ChaosStop ==
  /\ "chaos" \in Unreliable /\ chaos_up
  /\ chaos_up' = FALSE
  /\ chaos' = EmptyTables
  /\ report' = IF at = "taken" THEN report ELSE NoReport
  /\ IF at = "sent" THEN AtreusDies
     ELSE UNCHANGED <<tables, kartos, watchdog, atreus_up>>
  /\ UNCHANGED seen

ChaosStart ==
  /\ ~chaos_up
  /\ chaos_up' = TRUE
  /\ UNCHANGED <<tables, kartos, watchdog, report, chaos, atreus_up, seen>>

-----------------------------------------------------------------------------
Kartos == (\E n \in Name, bytes \in Payload : KartosDoQuery(n, bytes)) \/ KartosDoBytes
Loki == \E n \in Name : LokiDoError(n)
Watchdog == (\E n \in Name : WatchdogDoShutdown(n)) \/ TakeReport \/ Send
Failure == AtreusStop \/ AtreusStart \/ ChaosStop \/ ChaosStart

Next == Kartos \/ Loki \/ Watchdog \/ ChaosDoReport \/ Failure

Spec == Init /\ [][Next]_vars

(* The report timer keeps firing, a Report goes on, and a Chaos that runs  *)
(* serves its socket.  For the timer to fire, Check must not be waiting:   *)
(* the Watchdog has one thread for both (see Routing, ChecksEnd).          *)
Fairness == WF_vars(TakeReport) /\ WF_vars(Send) /\ WF_vars(ChaosDoReport)

FairSpec == Spec /\ Fairness

-----------------------------------------------------------------------------
Table == [Name -> Nat \cup {None}]

\* The type invariant, with what ties a report to the Watchdog.
TypeOK ==
  /\ tables \in [Kind -> Table] /\ chaos \in [Kind -> Table]
  /\ kartos \in [name : Name \cup {None}, bytes : Nat]
  /\ kartos # NoCall => kartos.name \in Name /\ atreus_up
  /\ at \in {"ready", "taken", "sent"} /\ turn \in Kind
  /\ report \in [kind : 0..4, entries : Table]
  /\ report = NoReport \/ report.kind \in Kind
  /\ at # "ready" => atreus_up /\ report.kind = turn
  /\ at = "ready" => report = NoReport \/ ~atreus_up
  /\ at = "sent" => chaos_up
  /\ atreus_up \in BOOLEAN /\ chaos_up \in BOOLEAN
  /\ seen \in [Kind -> [Name -> Nat]]

\* What the report under way says of a name.
UnderWay(k, n) == IF report.kind = k THEN Value(report.entries[n]) ELSE 0

\* What Chaos shows, what is on its way there and what Atreus has yet to report.
Total(k, n) == Value(chaos[k][n]) + UnderWay(k, n) + Value(tables[k][n])

(* Nothing is reported twice, or under another heading: all there is comes *)
(* to no more than what was counted, whoever stopped and started in        *)
(* between.                                                                *)
NeverOverCounted == \A k \in Counter, n \in Name : Total(k, n) <= seen[k][n]

\* How a number gets lost: with the process that has it, with a report that
\* nobody reads, and in one that Chaos has read as far as another service.
Stopped == (atreus_up /\ ~atreus_up') \/ (chaos_up /\ ~chaos_up')
Unread == at = "taken" /\ at' = "ready" /\ ~chaos_up
PassedOver(k, n) == /\ report.kind = k /\ at # "taken" /\ report' = NoReport
                    /\ \E m \in Name \ {n} : report.entries[m] # None

(* There is no other way, by any step of the two threads that count, of    *)
(* the Watchdog and of Chaos in whatever order: all else that is counted   *)
(* goes on from place to place, and what is lost does not come back.       *)
LossesKnown ==
  [][\A k \in Counter, n \in Name :
       /\ Total(k, n)' + seen[k][n] <= Total(k, n) + seen'[k][n]
       /\ \/ Total(k, n)' + seen[k][n] = Total(k, n) + seen'[k][n]
          \/ Stopped \/ Unread \/ PassedOver(k, n)]_vars

(* The running averages, formed at both ends, stay below the longest       *)
(* payload that Kartos has passed on for the service.                      *)
AverageBounded ==
  \A n \in Name :
    /\ Value(tables[Bytes][n]) <= seen[Bytes][n]
    /\ UnderWay(Bytes, n) <= seen[Bytes][n]
    /\ Value(chaos[Bytes][n]) <= seen[Bytes][n]

(* What Chaos answers is true of the services: it has a number for one    *)
(* only if something was counted for it, the number is not 0, traffic it   *)
(* shows only of a service that was called, and the one with the most is   *)
(* surpassed by no other one that it has a number for.                     *)
AnswersTrue ==
  /\ \A k \in Counter, n \in Name :
       /\ DoSrv(k, n).ok => DoSrv(k, n).val \in 1..seen[k][n]
       /\ \A most \in DoMost(k) :
            /\ most = NoAnswer \/ most.val \in 1..seen[k][most.name]
            /\ DoSrv(k, n).val <= most.val
  /\ \A n \in Name : DoSrv(Bytes, n).ok => seen[Query][n] > 0

(* What Atreus has counted does not stay with it: every table is taken     *)
(* again and again, whatever becomes of Chaos.  This presumes that Check,  *)
(* which runs on the same thread, returns, which routing_deadlock shows    *)
(* may fail: from then on nothing is reported.                             *)
EverythingIsTaken ==
  \A k \in Kind, n \in Name : tables[k][n] # None ~> tables[k][n] = None

-----------------------------------------------------------------------------
(* What get_service_queries and its like print of a service, "reported ... *)
(* queries", is with the rest still under way what was counted.            *)
NothingLost == \A k \in Counter, n \in Name : Total(k, n) = seen[k][n]
=============================================================================
