--------------------------- MODULE TelemetryProofs ---------------------------
(***************************************************************************)
(* NeverOverCounted and AverageBounded for any services, payloads and      *)
(* number of events, with Atreus and Chaos free to stop; how a number may  *)
(* get lost on its way, and what Chaos answers.                            *)
(*                                                                         *)
(* The first two are inductive with the type invariant.  A step of a       *)
(* report moves numbers from one of the three places to the next and       *)
(* leaves nothing behind; all else that happens to a place empties it.     *)
(***************************************************************************)
EXTENDS Telemetry, TLAPS

IInv == TypeOK /\ NeverOverCounted /\ AverageBounded

Entry == Nat \cup {None}

-----------------------------------------------------------------------------
\* An entry counts as a number, and an empty place as nothing.
LEMMA ValueIsNat ==
  ASSUME NEW v \in Entry
  PROVE  Value(v) \in Nat
BY DEF Value, Entry

LEMMA PlusAdds ==
  ASSUME NEW v \in Entry, NEW times \in Nat
  PROVE  Plus(v, times) \in Nat /\ Value(Plus(v, times)) = Value(v) + times
BY NoneIsNoNumber DEF Plus, Value, Entry

\* Halving the sum of two numbers does not exceed a bound on both.
LEMMA AverageBelow ==
  ASSUME NEW v \in Entry, NEW bytes \in Nat, NEW m \in Nat,
         Value(v) <= m, bytes <= m
  PROVE  /\ Average(v, bytes) \in Nat /\ Value(Average(v, bytes)) <= m
<1>1. ASSUME NEW x \in Nat, NEW y \in Nat, x <= m, y <= m
      PROVE  (x + y) \div 2 \in Nat /\ (x + y) \div 2 <= m
  BY <1>1, Z3
<1>2. Average(v, bytes) \in Nat /\ Average(v, bytes) <= m
  BY <1>1, ValueIsNat DEF Average
<1> QED BY <1>2, NoneIsNoNumber DEF Value

\* What the invariant says of one kind and one name, with numbers for all.
LEMMA Numbers ==
  ASSUME TypeOK, NEW k \in Kind, NEW n \in Name
  PROVE  /\ tables[k][n] \in Entry /\ chaos[k][n] \in Entry
         /\ report.entries[n] \in Entry /\ seen[k][n] \in Nat
         /\ Value(tables[k][n]) \in Nat /\ Value(chaos[k][n]) \in Nat
         /\ UnderWay(k, n) \in Nat
<1>1. /\ tables[k][n] \in Entry /\ chaos[k][n] \in Entry
      /\ report.entries[n] \in Entry /\ seen[k][n] \in Nat
  BY DEF TypeOK, Table, Entry
<1> QED BY <1>1, ValueIsNat DEF UnderWay

\* Empty tables count for nothing.
LEMMA Nothing ==
  /\ EmptyTables \in [Kind -> Table] /\ EmptyTable \in Table
  /\ \A k \in Kind, n \in Name : Value(EmptyTables[k][n]) = 0
  /\ \A n \in Name : Value(EmptyTable[n]) = 0
  /\ NoReport \in [kind : 0..4, entries : Table]
  /\ NoReport.kind = 0 /\ NoReport.entries = EmptyTable
BY DEF EmptyTables, EmptyTable, Table, Value, NoReport

-----------------------------------------------------------------------------
\* One more event in one table of Atreus, and in the history.
LEMMA CountKeeps ==
  ASSUME IInv, NEW k \in Counter, NEW n \in Name, Count(k, n),
         UNCHANGED <<report, chaos>>
  PROVE  /\ tables' \in [Kind -> Table] /\ seen' \in [Kind -> [Name -> Nat]]
         /\ NeverOverCounted' /\ AverageBounded'
<1> USE DEF IInv
<1>1. k \in Kind /\ k # Bytes
  BY DEF Counter
<1>2. tables[k][n] \in Entry /\ seen[k][n] \in Nat
  BY <1>1, Numbers
<1>3. Plus(tables[k][n], 1) \in Nat
      /\ Value(Plus(tables[k][n], 1)) = Value(tables[k][n]) + 1
  BY <1>2, PlusAdds
<1>4. tables' \in [Kind -> Table]
  BY <1>1, <1>3 DEF Count, TypeOK, Table
<1>5. seen' \in [Kind -> [Name -> Nat]]
  BY <1>1, <1>2 DEF Count, TypeOK
<1>6. \A j \in Kind, m \in Name :
        /\ tables'[j][m] = IF j = k /\ m = n THEN Plus(tables[k][n], 1)
                           ELSE tables[j][m]
        /\ seen'[j][m] = IF j = k /\ m = n THEN seen[k][n] + 1 ELSE seen[j][m]
  BY <1>1 DEF Count, TypeOK, Table
<1>7. NeverOverCounted'
  <2> SUFFICES ASSUME NEW j \in Counter, NEW m \in Name
               PROVE  Value(chaos[j][m]) + UnderWay(j, m) + Value(tables'[j][m])
                        <= seen'[j][m]
    BY DEF NeverOverCounted, Total, UnderWay
  <2>1. j \in Kind
    BY DEF Counter
  <2>2. Value(chaos[j][m]) + UnderWay(j, m) + Value(tables[j][m]) <= seen[j][m]
    BY DEF NeverOverCounted, Total
  <2> QED BY <1>3, <1>6, <2>1, <2>2, Numbers
<1>8. AverageBounded'
  BY <1>1, <1>6 DEF AverageBounded, UnderWay, Kind, Bytes
<1> QED BY <1>4, <1>5, <1>7, <1>8

LEMMA KartosKeeps ==
  ASSUME IInv, Kartos
  PROVE  IInv'
<1> USE DEF IInv, watchdog, uptime
<1>1. ASSUME NEW n \in Name, NEW bytes \in Payload, KartosDoQuery(n, bytes)
      PROVE  IInv'
  <2>1. Query \in Counter
    BY DEF Query, Counter, Kind, Bytes
  <2>2. /\ tables' \in [Kind -> Table] /\ seen' \in [Kind -> [Name -> Nat]]
        /\ NeverOverCounted' /\ AverageBounded'
    BY <1>1, <2>1, CountKeeps DEF KartosDoQuery
  <2>3. TypeOK'
    BY <1>1, <2>2, LengthsAreNumbers DEF KartosDoQuery, Count, TypeOK
  <2> QED BY <2>2, <2>3
<1>2. CASE KartosDoBytes
  <2> DEFINE n == kartos.name
             b == kartos.bytes
  <2>1. n \in Name /\ b \in Nat /\ Bytes \in Kind /\ atreus_up
    BY <1>2 DEF KartosDoBytes, TypeOK, Bytes, Kind
  <2>2. /\ tables[Bytes][n] \in Entry /\ seen[Bytes][n] \in Nat
        /\ Value(tables[Bytes][n]) \in Nat
    BY <2>1, Numbers
  <2>3. /\ Larger(seen[Bytes][n], b) \in Nat
        /\ seen[Bytes][n] <= Larger(seen[Bytes][n], b)
        /\ b <= Larger(seen[Bytes][n], b)
    BY <2>1, <2>2 DEF Larger
  <2>4. Value(tables[Bytes][n]) <= Larger(seen[Bytes][n], b)
    BY <2>1, <2>2, <2>3 DEF AverageBounded
  <2>5. /\ Average(tables[Bytes][n], b) \in Nat
        /\ Value(Average(tables[Bytes][n], b)) <= Larger(seen[Bytes][n], b)
    BY <2>1, <2>2, <2>3, <2>4, AverageBelow
  <2>6. tables' \in [Kind -> Table] /\ seen' \in [Kind -> [Name -> Nat]]
    BY <1>2, <2>1, <2>3, <2>5 DEF KartosDoBytes, TypeOK, Table
  <2>7. \A j \in Kind, m \in Name :
          /\ tables'[j][m] = IF j = Bytes /\ m = n THEN Average(tables[Bytes][n], b)
                             ELSE tables[j][m]
          /\ seen'[j][m] = IF j = Bytes /\ m = n THEN Larger(seen[Bytes][n], b)
                           ELSE seen[j][m]
    BY <1>2, <2>1 DEF KartosDoBytes, TypeOK, Table
  <2>8. TypeOK'
    BY <1>2, <2>1, <2>6 DEF KartosDoBytes, TypeOK, NoCall
  <2>9. NeverOverCounted'
    BY <1>2, <2>7 DEF KartosDoBytes, NeverOverCounted, Total, UnderWay, Counter
  <2>10. AverageBounded'
    <3> SUFFICES ASSUME NEW m \in Name
                 PROVE  /\ Value(tables'[Bytes][m]) <= seen'[Bytes][m]
                        /\ UnderWay(Bytes, m) <= seen'[Bytes][m]
                        /\ Value(chaos[Bytes][m]) <= seen'[Bytes][m]
      BY <1>2 DEF AverageBounded, UnderWay, KartosDoBytes
    <3>1. CASE m = n
      BY <3>1, <2>1, <2>2, <2>3, <2>5, <2>7, Numbers DEF AverageBounded
    <3>2. CASE m # n
      BY <3>2, <2>1, <2>7 DEF AverageBounded
    <3> QED BY <3>1, <3>2
  <2> QED BY <2>8, <2>9, <2>10
<1> QED BY <1>1, <1>2 DEF Kartos

LEMMA LokiKeeps ==
  ASSUME IInv, Loki
  PROVE  IInv'
<1>1. PICK n \in Name : LokiDoError(n)
  BY DEF Loki
<1>2. Error \in Counter
  BY DEF Error, Counter, Kind, Bytes
<1>3. /\ tables' \in [Kind -> Table] /\ seen' \in [Kind -> [Name -> Nat]]
      /\ NeverOverCounted' /\ AverageBounded'
  BY <1>1, <1>2, CountKeeps DEF LokiDoError
<1>4. TypeOK'
  BY <1>1, <1>3 DEF LokiDoError, Count, TypeOK, IInv, watchdog, uptime
<1> QED BY <1>3, <1>4 DEF IInv

LEMMA WatchdogKeeps ==
  ASSUME IInv, Watchdog
  PROVE  IInv'
<1> USE DEF IInv, watchdog, uptime
<1>1. ASSUME NEW n \in Name, WatchdogDoShutdown(n)
      PROVE  IInv'
  <2>1. Shutdown \in Counter
    BY DEF Shutdown, Counter, Kind, Bytes
  <2>2. /\ tables' \in [Kind -> Table] /\ seen' \in [Kind -> [Name -> Nat]]
        /\ NeverOverCounted' /\ AverageBounded'
    BY <1>1, <2>1, CountKeeps DEF WatchdogDoShutdown
  <2>3. TypeOK'
    BY <1>1, <2>2 DEF WatchdogDoShutdown, Count, TypeOK
  <2> QED BY <2>2, <2>3
<1>2. CASE TakeReport
  <2>1. /\ turn \in Kind /\ tables[turn] \in Table /\ report = NoReport
        /\ report'.kind = turn /\ report'.entries = tables[turn]
    BY <1>2 DEF TakeReport, TypeOK
  <2>2. TypeOK'
    <3>1. report' \in [kind : 0..4, entries : Table]
      BY <1>2, <2>1 DEF TakeReport, Kind
    <3>2. tables' \in [Kind -> Table]
      BY <1>2, <2>1, Nothing DEF TakeReport, TypeOK
    <3> QED BY <1>2, <2>1, <3>1, <3>2 DEF TakeReport, TypeOK
  <2>3. \A k \in Kind, n \in Name :
          /\ tables'[k][n] = IF k = turn THEN EmptyTable[n] ELSE tables[k][n]
          /\ UnderWay(k, n)' = IF k = turn THEN Value(tables[k][n]) ELSE 0
          /\ UnderWay(k, n) = 0
    BY <1>2, <2>1, Nothing DEF TakeReport, TypeOK, UnderWay, Kind
  <2>4. \A k \in Kind, n \in Name :
          UnderWay(k, n)' + Value(tables'[k][n]) = UnderWay(k, n) + Value(tables[k][n])
    BY <2>3, Nothing, Numbers
  <2>5. NeverOverCounted'
    <3> SUFFICES ASSUME NEW k \in Counter, NEW n \in Name
                 PROVE  Value(chaos[k][n]) + UnderWay(k, n)' + Value(tables'[k][n])
                          <= seen[k][n]
      BY <1>2 DEF TakeReport, NeverOverCounted, Total
    <3>1. k \in Kind
      BY DEF Counter
    <3>2. Value(chaos[k][n]) + UnderWay(k, n) + Value(tables[k][n]) <= seen[k][n]
      BY DEF NeverOverCounted, Total
    <3>3. UnderWay(k, n)' \in Nat /\ Value(tables'[k][n]) \in Nat
      BY <3>1, <2>3, Nothing, Numbers
    <3> QED BY <3>1, <3>2, <3>3, <2>4, Numbers
  <2>6. AverageBounded'
    <3>1. Bytes \in Kind
      BY DEF Bytes, Kind
    <3> QED BY <1>2, <2>3, <3>1, Nothing, Numbers DEF TakeReport, AverageBounded
  <2> QED BY <2>2, <2>5, <2>6
<1>3. CASE Send
  <2>1. TypeOK'
    BY <1>3, Nothing DEF Send, NextTurn, TypeOK, Kind
  <2>2. \A k \in Kind, n \in Name : UnderWay(k, n)' \in {UnderWay(k, n), 0}
    BY <1>3, Nothing DEF Send, UnderWay, Kind
  <2>3. NeverOverCounted' /\ AverageBounded'
    <3>1. \A k \in Counter : k \in Kind
      BY DEF Counter
    <3>2. Bytes \in Kind
      BY DEF Bytes, Kind
    <3> QED BY <1>3, <2>2, <3>1, <3>2, Numbers DEF Send, NeverOverCounted, Total, AverageBounded
  <2> QED BY <2>1, <2>3
<1> QED BY <1>1, <1>2, <1>3 DEF Watchdog

\* Chaos gets at most one entry of the report, and the report is gone.
LEMMA ChaosKeeps ==
  ASSUME IInv, ChaosDoReport
  PROVE  IInv'
<1> USE DEF IInv, uptime
<1> DEFINE k == report.kind
<1>1. /\ k \in Kind /\ report.entries \in Table /\ report' = NoReport
      /\ UNCHANGED <<tables, seen>>
  BY DEF ChaosDoReport, TypeOK
<1>2. /\ chaos' \in [Kind -> Table]
      /\ \A j \in Kind, m \in Name :
           /\ Value(chaos'[j][m]) \in Nat
           /\ j # Bytes => Value(chaos'[j][m]) <= Value(chaos[j][m]) + UnderWay(j, m)
           /\ j = Bytes => Value(chaos'[j][m]) <= seen[j][m]
  <2>1. CASE UNCHANGED chaos
    BY <2>1, Numbers DEF TypeOK, AverageBounded
  <2>2. ASSUME NEW n \in Name, report.entries[n] # None,
               chaos' = [chaos EXCEPT ![k][n] =
                           IF k = Bytes THEN Average(@, report.entries[n])
                           ELSE Plus(@, report.entries[n])]
        PROVE  <1>2!1 /\ <1>2!2
    <3> DEFINE v == IF k = Bytes THEN Average(chaos[k][n], report.entries[n])
                    ELSE Plus(chaos[k][n], report.entries[n])
    <3>1. /\ report.entries[n] \in Nat /\ UnderWay(k, n) = report.entries[n]
          /\ chaos[k][n] \in Entry
      BY <1>1, <2>2, Numbers DEF Entry, UnderWay, Value
    <3>2. k # Bytes => v \in Nat /\ Value(v) = Value(chaos[k][n]) + UnderWay(k, n)
      BY <3>1, PlusAdds
    <3>3. k = Bytes => v \in Nat /\ Value(v) <= seen[k][n]
      BY <1>1, <3>1, AverageBelow, Numbers DEF AverageBounded
    <3>4. v \in Entry
      BY <3>2, <3>3 DEF Entry
    <3>5. chaos' \in [Kind -> Table]
      BY <1>1, <2>2, <3>4 DEF TypeOK, Table, Entry
    <3>6. \A j \in Kind, m \in Name :
            chaos'[j][m] = IF j = k /\ m = n THEN v ELSE chaos[j][m]
      BY <1>1, <2>2 DEF TypeOK, Table
    <3>7. ASSUME NEW j \in Kind, NEW m \in Name
          PROVE  /\ Value(chaos'[j][m]) \in Nat
                 /\ j # Bytes => Value(chaos'[j][m]) <= Value(chaos[j][m]) + UnderWay(j, m)
                 /\ j = Bytes => Value(chaos'[j][m]) <= seen[j][m]
      <4> HIDE DEF v, k
      <4>1. CASE j = k /\ m = n
        BY <4>1, <3>2, <3>3, <3>4, <3>6, ValueIsNat, Numbers
      <4>2. CASE ~(j = k /\ m = n)
        BY <4>2, <3>6, Numbers DEF AverageBounded
      <4> QED BY <4>1, <4>2
    <3> QED BY <3>5, <3>7
  <2> QED BY <2>1, <2>2 DEF ChaosDoReport, Record
<1>3. TypeOK'
  BY <1>1, <1>2, Nothing DEF ChaosDoReport, NextTurn, TypeOK, Kind
<1>4. \A j \in Kind, m \in Name : UnderWay(j, m)' = 0
  BY <1>1, Nothing DEF UnderWay, Kind
<1>5. NeverOverCounted'
  <2> SUFFICES ASSUME NEW j \in Counter, NEW m \in Name
               PROVE  Value(chaos'[j][m]) + UnderWay(j, m)' + Value(tables[j][m])
                        <= seen[j][m]
    BY <1>1 DEF NeverOverCounted, Total
  <2>1. j \in Kind /\ j # Bytes
    BY DEF Counter
  <2>2. Value(chaos[j][m]) + UnderWay(j, m) + Value(tables[j][m]) <= seen[j][m]
    BY DEF NeverOverCounted, Total
  <2> QED BY <1>2, <1>4, <2>1, <2>2, Numbers
<1>6. AverageBounded'
  <2>1. Bytes \in Kind
    BY DEF Bytes, Kind
  <2> QED BY <1>1, <1>2, <1>4, <2>1, Numbers DEF AverageBounded
<1> QED BY <1>3, <1>5, <1>6

-----------------------------------------------------------------------------
\* Whatever is emptied counts for no more than before.
LEMMA Emptied ==
  ASSUME IInv, tables' \in {tables, EmptyTables}, chaos' \in {chaos, EmptyTables},
         report' \in {report, NoReport}, UNCHANGED seen
  PROVE  NeverOverCounted' /\ AverageBounded'
<1> USE DEF IInv
<1>1. ASSUME NEW k \in Kind, NEW n \in Name
      PROVE  /\ Value(tables'[k][n]) \in {Value(tables[k][n]), 0}
             /\ Value(chaos'[k][n]) \in {Value(chaos[k][n]), 0}
             /\ UnderWay(k, n)' \in {UnderWay(k, n), 0}
  BY Nothing DEF UnderWay, Kind
<1>2. \A k \in Counter : k \in Kind
  BY DEF Counter
<1>3. Bytes \in Kind
  BY DEF Bytes, Kind
<1>4. NeverOverCounted'
  <2> SUFFICES ASSUME NEW k \in Counter, NEW n \in Name
               PROVE  Value(chaos'[k][n]) + UnderWay(k, n)' + Value(tables'[k][n])
                        <= seen[k][n]
    BY DEF NeverOverCounted, Total
  <2>1. Value(chaos[k][n]) + UnderWay(k, n) + Value(tables[k][n]) <= seen[k][n]
    BY DEF NeverOverCounted, Total
  <2> QED BY <1>1, <1>2, <2>1, Numbers
<1>5. AverageBounded'
  BY <1>1, <1>3, Numbers DEF AverageBounded
<1> QED BY <1>4, <1>5

\* What a stopped Atreus leaves has the right types.
LEMMA AfterStop ==
  ASSUME AtreusDies
  PROVE  /\ tables' \in [Kind -> Table] /\ at' = "ready" /\ turn' \in Kind
         /\ ~atreus_up' /\ atreus_up' \in BOOLEAN
         /\ kartos' = NoCall /\ kartos' \in [name : Name \cup {None}, bytes : Nat]
<1>1. NoCall \in [name : Name \cup {None}, bytes : Nat]
  BY DEF NoCall
<1>2. Query \in Kind
  BY DEF Query, Kind
<1>3. atreus_up' = FALSE
  BY DEF AtreusDies
<1> QED BY <1>1, <1>2, <1>3, Nothing DEF AtreusDies

LEMMA FailureKeeps ==
  ASSUME IInv, Failure
  PROVE  IInv'
<1> USE DEF IInv, watchdog, uptime
<1>1. CASE AtreusStop
  <2>1. TypeOK'
    BY <1>1, AfterStop, Nothing DEF AtreusStop, TypeOK
  <2> QED BY <1>1, <2>1, Emptied DEF AtreusStop, AtreusDies
<1>2. CASE AtreusStart
  <2>1. TypeOK'
    BY <1>2 DEF AtreusStart, TypeOK
  <2> QED BY <1>2, <2>1, Emptied DEF AtreusStart
<1>3. CASE ChaosStop
  <2>1. TypeOK'
    <3>1. CASE at = "sent"
      BY <1>3, <3>1, AfterStop, Nothing DEF ChaosStop, TypeOK
    <3>2. CASE at # "sent"
      BY <1>3, <3>2, Nothing DEF ChaosStop, TypeOK
    <3> QED BY <3>1, <3>2
  <2> QED BY <1>3, <2>1, Emptied DEF ChaosStop, AtreusDies
<1>4. CASE ChaosStart
  <2>1. TypeOK'
    BY <1>4 DEF ChaosStart, TypeOK
  <2> QED BY <1>4, <2>1, Emptied DEF ChaosStart
<1> QED BY <1>1, <1>2, <1>3, <1>4 DEF Failure

-----------------------------------------------------------------------------
(* For any services, payloads and number of events: Chaos, the report      *)
(* under way and Atreus together never show more than what was counted,    *)
(* and no average exceeds the longest payload.                             *)
THEOREM Safety == Spec => [](TypeOK /\ NeverOverCounted /\ AverageBounded)
<1>1. Init => IInv
  <2> SUFFICES ASSUME Init PROVE IInv
    OBVIOUS
  <2>1. TypeOK
    BY Nothing DEF Init, TypeOK, NoCall, Query, Kind
  <2>2. \A k \in Kind, n \in Name : seen[k][n] = 0 /\ UnderWay(k, n) = 0
    BY Nothing DEF Init, UnderWay, Kind
  <2>3. \A k \in Kind, n \in Name : Value(tables[k][n]) = 0 /\ Value(chaos[k][n]) = 0
    BY Nothing DEF Init
  <2>4. Bytes \in Kind /\ \A k \in Counter : k \in Kind
    BY DEF Bytes, Kind, Counter
  <2> QED BY <2>1, <2>2, <2>3, <2>4 DEF IInv, NeverOverCounted, Total, AverageBounded
<1>2. IInv /\ [Next]_vars => IInv'
  <2> SUFFICES ASSUME IInv, [Next]_vars PROVE IInv'
    OBVIOUS
  <2>1. CASE UNCHANGED vars
    BY <2>1 DEF vars, watchdog, uptime, IInv, TypeOK, NeverOverCounted, Total,
       AverageBounded, UnderWay
  <2> QED BY <2>1, KartosKeeps, LokiKeeps, WatchdogKeeps, ChaosKeeps, FailureKeeps
       DEF Next
<1> QED BY <1>1, <1>2, PTL DEF Spec, IInv

(* The parts by themselves: what a report and the Watchdog have to do with *)
(* each other, for any services, payloads and number of events;            *)
THEOREM Typing == Spec => []TypeOK
BY Safety, PTL

(* and that averages formed at both ends, of halves of halves, stay below  *)
(* the longest payload.                                                    *)
THEOREM Averages == Spec => []AverageBounded
BY Safety, PTL

-----------------------------------------------------------------------------
(* AnswersTrue: an entry, wherever it is, is of a service that something   *)
(* was counted for, and an entry of a counter is not 0.                    *)

Real(k, n, v) == v # None => IF k = Bytes THEN seen[Query][n] >= 1 ELSE v >= 1

Reality ==
  /\ \A k \in Kind, n \in Name :
       /\ Real(k, n, tables[k][n]) /\ Real(k, n, chaos[k][n])
       /\ report.kind = k => Real(k, n, report.entries[n])
  /\ kartos # NoCall => seen[Query][kartos.name] >= 1

\* The counts of the history only grow.
LEMMA SeenGrows ==
  ASSUME IInv, [Next]_vars, NEW n \in Name
  PROVE  seen'[Query][n] >= seen[Query][n]
<1>0. Query \in Kind /\ Query # Bytes /\ seen \in [Kind -> [Name -> Nat]]
  BY DEF Query, Kind, Bytes, IInv, TypeOK
<1>1. ASSUME NEW k \in Counter, NEW m \in Name, Count(k, m)
      PROVE  seen'[Query][n] >= seen[Query][n]
  BY <1>0, <1>1 DEF Count, Counter
<1>2. CASE KartosDoBytes
  BY <1>0, <1>2 DEF KartosDoBytes
<1>3. CASE UNCHANGED seen
  BY <1>0, <1>3
<1>4. Query \in Counter /\ Error \in Counter /\ Shutdown \in Counter
  BY DEF Query, Error, Shutdown, Counter, Kind, Bytes
<1>5. \/ \E k \in Counter, m \in Name : Count(k, m)
      \/ KartosDoBytes \/ UNCHANGED seen
  BY <1>4 DEF Next, vars, Kartos, KartosDoQuery, Loki, LokiDoError, Watchdog,
     WatchdogDoShutdown, TakeReport, Send, ChaosDoReport, Failure, AtreusStop,
     AtreusStart, ChaosStop, ChaosStart
<1> QED BY <1>1, <1>2, <1>3, <1>5

\* What was real stays real, since the history only grows.
RealThen(k, n, v) == v # None => IF k = Bytes THEN seen'[Query][n] >= 1 ELSE v >= 1

LEMMA StaysReal ==
  ASSUME IInv, IInv', [Next]_vars, NEW k \in Kind, NEW n \in Name, NEW v, Real(k, n, v)
  PROVE  RealThen(k, n, v)
<1>1. seen[Query][n] \in Nat /\ seen'[Query][n] >= seen[Query][n]
  BY SeenGrows, Numbers DEF Query, Kind, IInv
<1>2. seen'[Query][n] \in Nat
  BY DEF Query, Kind, IInv, TypeOK
<1> QED BY <1>1, <1>2 DEF Real, RealThen

LEMMA NoneIsReal ==
  ASSUME NEW k, NEW n
  PROVE  RealThen(k, n, None)
BY DEF RealThen

\* Atreus writes no entry without having counted.
LEMMA TablesReal ==
  ASSUME IInv, IInv', Reality, [Next]_vars, NEW k \in Kind, NEW n \in Name
  PROVE  RealThen(k, n, tables'[k][n])
<1>0. tables \in [Kind -> Table] /\ tables[k][n] \in Entry /\ Real(k, n, tables[k][n])
  BY Numbers DEF IInv, TypeOK, Reality
<1>1. ASSUME NEW j \in Counter, NEW m \in Name, Count(j, m)
      PROVE  RealThen(k, n, tables'[k][n])
  <2>1. CASE j = k /\ m = n
    <3>1. tables'[k][n] = Plus(tables[k][n], 1) /\ k # Bytes
      BY <1>0, <1>1, <2>1 DEF Count, Table, Counter
    <3>2. Plus(tables[k][n], 1) >= 1
      BY <1>0, ValueIsNat DEF Plus
    <3> QED BY <3>1, <3>2 DEF RealThen
  <2>2. CASE ~(j = k /\ m = n)
    <3>1. tables'[k][n] = tables[k][n]
      BY <1>0, <1>1, <2>2 DEF Count, Table, Counter
    <3> QED BY <1>0, <3>1, StaysReal
  <2> QED BY <2>1, <2>2
<1>2. CASE KartosDoBytes
  <2>1. CASE k = Bytes /\ n = kartos.name
    <3>1. seen[Query][n] >= 1 /\ seen'[Query] = seen[Query]
      BY <1>2, <2>1 DEF KartosDoBytes, Reality, IInv, TypeOK, Query, Bytes, Kind
    <3> QED BY <2>1, <3>1 DEF RealThen
  <2>2. CASE ~(k = Bytes /\ n = kartos.name)
    <3>1. tables'[k][n] = tables[k][n]
      BY <1>0, <1>2, <2>2 DEF KartosDoBytes, Table
    <3> QED BY <1>0, <3>1, StaysReal
  <2> QED BY <2>1, <2>2
<1>3. CASE TakeReport
  <2>1. tables'[k][n] \in {tables[k][n], None}
    BY <1>0, <1>3 DEF TakeReport, EmptyTable
  <2> QED BY <1>0, <2>1, StaysReal, NoneIsReal
<1>4. CASE tables' \in {tables, EmptyTables}
  <2>1. tables'[k][n] \in {tables[k][n], None}
    BY <1>4 DEF EmptyTables, EmptyTable
  <2> QED BY <1>0, <2>1, StaysReal, NoneIsReal
<1>5. Query \in Counter /\ Error \in Counter /\ Shutdown \in Counter
  BY DEF Query, Error, Shutdown, Counter, Kind, Bytes
<1>6. \/ \E j \in Counter, m \in Name : Count(j, m)
      \/ KartosDoBytes \/ TakeReport \/ tables' \in {tables, EmptyTables}
  BY <1>5 DEF Next, vars, Kartos, KartosDoQuery, Loki, LokiDoError, Watchdog,
     WatchdogDoShutdown, Send, ChaosDoReport, Failure, AtreusStop,
     AtreusStart, ChaosStop, ChaosStart, AtreusDies
<1> QED BY <1>1, <1>2, <1>3, <1>4, <1>6

\* A report takes its entries from the table, ...
LEMMA ReportReal ==
  ASSUME IInv, IInv', Reality, [Next]_vars, NEW k \in Kind, NEW n \in Name,
         report'.kind = k
  PROVE  RealThen(k, n, report'.entries[n])
<1>1. CASE TakeReport
  <2>1. turn = k /\ report'.entries[n] = tables[k][n]
    BY <1>1 DEF TakeReport
  <2> QED BY <2>1, StaysReal DEF Reality
<1>2. CASE report' = NoReport
  BY <1>2, Nothing DEF Kind
<1>3. CASE report' = report
  BY <1>3, StaysReal DEF Reality
<1>4. TakeReport \/ report' = NoReport \/ report' = report
  BY DEF Next, vars, Kartos, KartosDoQuery, KartosDoBytes, Loki, LokiDoError, Watchdog,
     WatchdogDoShutdown, Send, ChaosDoReport, Failure, AtreusStop,
     AtreusStart, ChaosStop, ChaosStart
<1> QED BY <1>1, <1>2, <1>3, <1>4

\* ... and Chaos from the report.
LEMMA ChaosReal ==
  ASSUME IInv, IInv', Reality, [Next]_vars, NEW k \in Kind, NEW n \in Name
  PROVE  RealThen(k, n, chaos'[k][n])
<1>0. /\ chaos \in [Kind -> Table] /\ chaos[k][n] \in Entry
      /\ Real(k, n, chaos[k][n])
  BY Numbers DEF IInv, TypeOK, Reality
<1>1. ASSUME NEW m \in Name, report.entries[m] # None, report.kind \in Kind,
             chaos' = [chaos EXCEPT ![report.kind][m] =
                         IF report.kind = Bytes THEN Average(@, report.entries[m])
                         ELSE Plus(@, report.entries[m])]
      PROVE  RealThen(k, n, chaos'[k][n])
  <2>1. CASE report.kind = k /\ m = n
    <3>1. report.entries[n] \in Nat /\ Real(k, n, report.entries[n])
      BY <1>1, <2>1, Numbers DEF IInv, Entry, Reality
    <3>2. CASE k = Bytes
      <4>1. RealThen(k, n, report.entries[n])
        BY <3>1, StaysReal
      <4> QED BY <1>1, <2>1, <3>2, <4>1 DEF RealThen
    <3>3. CASE k # Bytes
      <4>1. chaos'[k][n] = Plus(chaos[k][n], report.entries[n])
        BY <1>0, <1>1, <2>1, <3>3 DEF Table
      <4>2. report.entries[n] >= 1
        BY <1>1, <2>1, <3>1, <3>3 DEF Real
      <4>3. Plus(chaos[k][n], report.entries[n]) >= 1
        BY <1>0, <3>1, <4>2, ValueIsNat DEF Plus
      <4> QED BY <3>3, <4>1, <4>3 DEF RealThen
    <3> QED BY <3>2, <3>3
  <2>2. CASE ~(report.kind = k /\ m = n)
    <3>1. chaos'[k][n] = chaos[k][n]
      BY <1>0, <1>1, <2>2 DEF Table
    <3> QED BY <1>0, <3>1, StaysReal
  <2> QED BY <2>1, <2>2
<1>2. CASE chaos' \in {chaos, EmptyTables}
  <2>1. chaos'[k][n] \in {chaos[k][n], None}
    BY <1>2 DEF EmptyTables, EmptyTable
  <2> QED BY <1>0, <2>1, StaysReal, NoneIsReal
<1>3. ChaosDoReport \/ chaos' \in {chaos, EmptyTables}
  BY DEF Next, vars, Kartos, KartosDoQuery, KartosDoBytes, Loki, LokiDoError, Watchdog,
     WatchdogDoShutdown, TakeReport, Send, Failure, AtreusStop,
     AtreusStart, ChaosStop, ChaosStart, Count
<1>4. CASE ChaosDoReport
  <2>1. report.kind \in Kind
    BY <1>4 DEF ChaosDoReport, IInv, TypeOK
  <2> QED BY <1>1, <1>2, <1>4, <2>1 DEF ChaosDoReport, Record
<1> QED BY <1>2, <1>3, <1>4

\* Kartos counts a call before it measures it.
LEMMA KartosReal ==
  ASSUME IInv, IInv', Reality, [Next]_vars, kartos' # NoCall
  PROVE  seen'[Query][kartos'.name] >= 1
<1>1. ASSUME NEW n \in Name, NEW bytes \in Payload, KartosDoQuery(n, bytes)
      PROVE  seen'[Query][kartos'.name] >= 1
  <2>1. kartos'.name = n
    BY <1>1 DEF KartosDoQuery
  <2>2. seen[Query][n] \in Nat /\ seen'[Query][n] = seen[Query][n] + 1
    BY <1>1, Numbers DEF KartosDoQuery, Count, IInv, TypeOK, Query, Kind
  <2> QED BY <2>1, <2>2
<1>2. CASE kartos' = kartos
  <2>1. kartos.name \in Name /\ seen[Query][kartos.name] >= 1
    BY <1>2 DEF Reality, IInv, TypeOK
  <2>2. seen[Query][kartos.name] \in Nat /\ seen'[Query][kartos.name] \in Nat
    BY <2>1 DEF IInv, TypeOK, Query, Kind
  <2> QED BY <1>2, <2>1, <2>2, SeenGrows
<1>3. \/ \E n \in Name, bytes \in Payload : KartosDoQuery(n, bytes)
      \/ kartos' = NoCall \/ kartos' = kartos
  BY DEF Next, vars, Kartos, KartosDoBytes, Loki, LokiDoError, Watchdog,
     WatchdogDoShutdown, TakeReport, Send, ChaosDoReport, Failure, AtreusStop,
     AtreusStart, ChaosStop, ChaosStart, AtreusDies
<1> QED BY <1>1, <1>2, <1>3

(* What Chaos has a number for was counted, for any services, payloads and *)
(* number of events: a sum is not 0, traffic is of a service that was      *)
(* called, and the one with the most has had some.                         *)
THEOREM Answers == Spec => []AnswersTrue
<1>1. Init => Reality
  <2>1. Init => kartos = NoCall /\ report.kind = 0
    BY Nothing DEF Init
  <2>2. Init => \A k \in Kind, n \in Name : tables[k][n] = None /\ chaos[k][n] = None
    BY DEF Init, EmptyTables, EmptyTable
  <2> QED BY <2>1, <2>2 DEF Reality, Real, Kind
<1>2. IInv /\ IInv' /\ Reality /\ [Next]_vars => Reality'
  <2> SUFFICES ASSUME IInv, IInv', Reality, [Next]_vars PROVE Reality'
    OBVIOUS
  <2>1. \A k \in Kind, n \in Name :
          /\ RealThen(k, n, tables'[k][n]) /\ RealThen(k, n, chaos'[k][n])
          /\ report'.kind = k => RealThen(k, n, report'.entries[n])
    BY TablesReal, ChaosReal, ReportReal
  <2>2. kartos' # NoCall => seen'[Query][kartos'.name] >= 1
    BY KartosReal
  <2> QED BY <2>1, <2>2 DEF Reality, Real, RealThen, NoCall
<1>3. IInv /\ Reality => AnswersTrue
  <2> SUFFICES ASSUME IInv, Reality PROVE AnswersTrue
    OBVIOUS
  <2>1. ASSUME NEW k \in Counter, NEW n \in Name, chaos[k][n] # None
        PROVE  chaos[k][n] \in 1..seen[k][n]
    <3>1. k \in Kind /\ k # Bytes
      BY DEF Counter
    <3>2. /\ chaos[k][n] \in Nat /\ seen[k][n] \in Nat /\ chaos[k][n] >= 1
          /\ Value(tables[k][n]) \in Nat /\ UnderWay(k, n) \in Nat
      BY <2>1, <3>1, Numbers DEF IInv, Entry, Reality, Real
    <3>3. chaos[k][n] + UnderWay(k, n) + Value(tables[k][n]) <= seen[k][n]
      BY <2>1, <3>2 DEF IInv, NeverOverCounted, Total, Value
    <3> QED BY <3>2, <3>3
  <2>2. ASSUME NEW n \in Name, chaos[Bytes][n] # None
        PROVE  seen[Query][n] > 0
    <3>1. Bytes \in Kind /\ seen[Query][n] \in Nat
      BY DEF Bytes, Query, Kind, IInv, TypeOK
    <3> QED BY <2>2, <3>1 DEF Reality, Real
  <2>3. ASSUME NEW k \in Counter, NEW n \in Name
        PROVE  DoSrv(k, n).ok => DoSrv(k, n).val \in 1..seen[k][n]
    BY <2>1 DEF DoSrv, GetOf, Refused
  <2>4. ASSUME NEW k \in Counter, NEW n \in Name
        PROVE  DoSrv(k, n).val = Value(chaos[k][n])
    BY DEF DoSrv, GetOf, Refused, Value
  <2>5. ASSUME NEW k \in Counter, NEW n \in Name, NEW most \in DoMost(k)
        PROVE  /\ most = NoAnswer \/ most.val \in 1..seen[k][most.name]
               /\ DoSrv(k, n).val <= most.val
    <3>1. CASE chaos[k] = EmptyTable
      BY <2>4, <2>5, <3>1, Nothing DEF DoMost, NoAnswer
    <3>2. CASE chaos[k] # EmptyTable
      <4>1. PICK m \in Name : /\ most = [ok |-> TRUE, name |-> m, val |-> chaos[k][m]]
                              /\ chaos[k][m] # None
                              /\ Value(chaos[k][n]) <= chaos[k][m]
        BY <2>5, <3>2 DEF DoMost, GetMost, GetOf
      <4>2. most.name = m /\ most.val = chaos[k][m]
        BY <4>1
      <4> QED BY <2>1, <2>4, <4>1, <4>2
    <3> QED BY <3>1, <3>2
  <2>6. ASSUME NEW n \in Name
        PROVE  DoSrv(Bytes, n).ok => seen[Query][n] > 0
    BY <2>2 DEF DoSrv, GetOf, Refused
  <2> QED BY <2>3, <2>5, <2>6 DEF AnswersTrue
<1>4. Spec => []IInv
  BY Safety, PTL DEF IInv
<1> QED BY <1>1, <1>2, <1>3, <1>4, PTL DEF Spec

-----------------------------------------------------------------------------
(* LossesKnown: every step by what it does to one number in three places.  *)

Kept(k, n) == Total(k, n)' + seen[k][n] = Total(k, n) + seen'[k][n]

Accounted(k, n) ==
  /\ Total(k, n)' + seen[k][n] <= Total(k, n) + seen'[k][n]
  /\ Kept(k, n) \/ Stopped \/ Unread \/ PassedOver(k, n)

\* The three places of a number and the history, before and after.
LEMMA Places ==
  ASSUME IInv, IInv', NEW k \in Counter, NEW n \in Name
  PROVE  /\ k \in Kind /\ k # Bytes
         /\ Value(tables[k][n]) \in Nat /\ Value(tables'[k][n]) \in Nat
         /\ Value(chaos[k][n]) \in Nat /\ Value(chaos'[k][n]) \in Nat
         /\ UnderWay(k, n) \in Nat /\ UnderWay(k, n)' \in Nat
         /\ seen[k][n] \in Nat /\ seen'[k][n] \in Nat
         /\ Total(k, n) = Value(chaos[k][n]) + UnderWay(k, n) + Value(tables[k][n])
         /\ Total(k, n)' = Value(chaos'[k][n]) + UnderWay(k, n)' + Value(tables'[k][n])
<1>1. k \in Kind /\ k # Bytes
  BY DEF Counter
<1>2. /\ Value(tables[k][n]) \in Nat /\ Value(chaos[k][n]) \in Nat
      /\ UnderWay(k, n) \in Nat /\ seen[k][n] \in Nat
  BY <1>1, Numbers DEF IInv
<1>3. /\ Value(tables'[k][n]) \in Nat /\ Value(chaos'[k][n]) \in Nat
      /\ UnderWay(k, n)' \in Nat /\ seen'[k][n] \in Nat
  <2>1. /\ tables'[k][n] \in Entry /\ chaos'[k][n] \in Entry
        /\ report'.entries[n] \in Entry /\ seen'[k][n] \in Nat
    BY <1>1 DEF IInv, TypeOK, Table, Entry
  <2> QED BY <2>1, ValueIsNat DEF UnderWay
<1> QED BY <1>1, <1>2, <1>3 DEF Total

\* Nothing moves.
LEMMA NothingMoves ==
  ASSUME IInv, IInv', NEW k \in Counter, NEW n \in Name,
         tables'[k][n] = tables[k][n], chaos'[k][n] = chaos[k][n],
         UnderWay(k, n)' = UnderWay(k, n), seen'[k][n] = seen[k][n]
  PROVE  Accounted(k, n)
BY Places DEF Accounted, Kept

LEMMA CountAccounted ==
  ASSUME IInv, IInv', NEW k \in Counter, NEW n \in Name,
         NEW j \in Counter, NEW m \in Name, Count(j, m), UNCHANGED <<report, chaos>>
  PROVE  Accounted(k, n)
<1>1. tables \in [Kind -> Table] /\ seen \in [Kind -> [Name -> Nat]]
  BY DEF IInv, TypeOK
<1>2. j \in Kind /\ k \in Kind
  BY DEF Counter
<1>3. UnderWay(k, n)' = UnderWay(k, n)
  BY DEF UnderWay
<1>4. CASE j = k /\ m = n
  <2>1. tables'[k][n] = Plus(tables[k][n], 1) /\ seen'[k][n] = seen[k][n] + 1
    BY <1>1, <1>2, <1>4 DEF Count, Table
  <2>2. Value(tables'[k][n]) = Value(tables[k][n]) + 1
    BY <1>2, <2>1, PlusAdds, Numbers DEF IInv
  <2>3. chaos'[k][n] = chaos[k][n]
    OBVIOUS
  <2>4. /\ Value(chaos'[k][n]) = Value(chaos[k][n])
        /\ UnderWay(k, n) \in Nat /\ seen[k][n] \in Nat
        /\ Value(chaos[k][n]) \in Nat /\ Value(tables[k][n]) \in Nat
    BY <2>3, Places
  <2>5. Total(k, n)' + seen[k][n] = Total(k, n) + seen'[k][n]
    <3> HIDE DEF IInv
    <3>1. /\ Total(k, n) = Value(chaos[k][n]) + UnderWay(k, n) + Value(tables[k][n])
          /\ Total(k, n)' = Value(chaos'[k][n]) + UnderWay(k, n)' + Value(tables'[k][n])
      BY Places
    <3> QED BY <1>3, <2>1, <2>2, <2>4, <3>1
  <2>6. Total(k, n)' \in Nat /\ Total(k, n) \in Nat /\ seen'[k][n] \in Nat
    BY Places
  <2> QED BY <2>4, <2>5, <2>6 DEF Accounted, Kept
<1>5. CASE ~(j = k /\ m = n)
  <2>1. tables'[k][n] = tables[k][n] /\ seen'[k][n] = seen[k][n]
    BY <1>1, <1>2, <1>5 DEF Count, Table
  <2> QED BY <1>3, <2>1, NothingMoves
<1> QED BY <1>4, <1>5

LEMMA TakenAccounted ==
  ASSUME IInv, IInv', NEW k \in Counter, NEW n \in Name, TakeReport
  PROVE  Accounted(k, n)
<1>1. /\ turn \in Kind /\ report = NoReport /\ k \in Kind
      /\ report'.kind = turn /\ report'.entries = tables[turn]
      /\ tables' = [tables EXCEPT ![turn] = EmptyTable]
      /\ UNCHANGED <<chaos, seen>>
  BY Places DEF TakeReport, IInv, TypeOK
<1>2. UnderWay(k, n) = 0
  BY <1>1, Nothing DEF UnderWay, Kind
<1>3. CASE turn = k
  <2>1. UnderWay(k, n)' = Value(tables[k][n]) /\ Value(tables'[k][n]) = 0
    BY <1>1, <1>3, Nothing DEF UnderWay, IInv, TypeOK
  <2> QED BY <1>1, <1>2, <2>1, Places DEF Accounted, Kept
<1>4. CASE turn # k
  <2>1. UnderWay(k, n)' = 0 /\ tables'[k] = tables[k]
    BY <1>1, <1>4 DEF UnderWay, IInv, TypeOK
  <2> QED BY <1>1, <1>2, <2>1, NothingMoves
<1> QED BY <1>3, <1>4

\* A report that is recorded goes to Chaos, but for what is passed over.
LEMMA RecordAccounted ==
  ASSUME IInv, IInv', NEW k \in Counter, NEW n \in Name, ChaosDoReport
  PROVE  Accounted(k, n)
<1>1. /\ report.kind \in Kind /\ report.entries \in Table /\ report' = NoReport
      /\ at # "taken" /\ UNCHANGED <<tables, seen>> /\ k \in Kind /\ k # Bytes
  BY Places DEF ChaosDoReport, IInv, TypeOK
<1>2. UnderWay(k, n)' = 0
  BY <1>1, Nothing DEF UnderWay, Kind
<1>3. CASE report.kind # k
  <2>1. chaos'[k] = chaos[k]
    BY <1>1, <1>3 DEF ChaosDoReport, Record, IInv, TypeOK
  <2>2. UnderWay(k, n) = 0
    BY <1>3 DEF UnderWay
  <2> QED BY <1>1, <1>2, <2>1, <2>2, NothingMoves
<1>4. CASE report.kind = k /\ report.entries = EmptyTable
  <2>1. UNCHANGED chaos
    BY <1>4 DEF ChaosDoReport, Record
  <2>2. UnderWay(k, n) = 0
    BY <1>4, Nothing DEF UnderWay
  <2> QED BY <1>1, <1>2, <2>1, <2>2, NothingMoves
<1>5. CASE report.kind = k /\ report.entries # EmptyTable
  <2>1. PICK m \in Name :
          /\ report.entries[m] # None
          /\ chaos' = [chaos EXCEPT ![k][m] = Plus(@, report.entries[m])]
    BY <1>1, <1>5 DEF ChaosDoReport, Record
  <2>2. UnderWay(k, n) = Value(report.entries[n])
    BY <1>5 DEF UnderWay
  <2>3. CASE m = n
    <3>1. chaos'[k][n] = Plus(chaos[k][n], report.entries[n])
      BY <1>1, <2>1, <2>3 DEF IInv, TypeOK, Table
    <3>2. chaos[k][n] \in Entry /\ report.entries[n] \in Nat
      BY <1>1, <2>1, <2>3, Numbers DEF IInv, Entry
    <3>3. Value(chaos'[k][n]) = Value(chaos[k][n]) + report.entries[n]
      BY <3>1, <3>2, PlusAdds
    <3>4. Value(report.entries[n]) = report.entries[n]
      BY <2>1, <2>3 DEF Value
    <3> QED BY <1>1, <1>2, <2>2, <3>3, <3>4, Places DEF Accounted, Kept
  <2>4. CASE m # n
    <3>1. chaos'[k][n] = chaos[k][n]
      BY <1>1, <2>1, <2>4 DEF IInv, TypeOK, Table
    <3>2. PassedOver(k, n)
      BY <1>1, <1>5, <2>1, <2>4 DEF PassedOver
    <3>3. Total(k, n)' + seen[k][n] <= Total(k, n) + seen'[k][n]
      BY <1>1, <1>2, <3>1, Places
    <3> QED BY <3>2, <3>3 DEF Accounted
  <2> QED BY <2>3, <2>4
<1> QED BY <1>3, <1>4, <1>5

\* A stop empties whole tables, or takes the report with it.
LEMMA StopAccounted ==
  ASSUME IInv, IInv', NEW k \in Counter, NEW n \in Name,
         tables' \in {tables, EmptyTables}, chaos' \in {chaos, EmptyTables},
         report' \in {report, NoReport}, UNCHANGED seen, Stopped \/ Unread
  PROVE  Accounted(k, n)
<1>1. /\ Value(tables'[k][n]) \in {Value(tables[k][n]), 0}
      /\ Value(chaos'[k][n]) \in {Value(chaos[k][n]), 0}
      /\ UnderWay(k, n)' \in {UnderWay(k, n), 0}
  BY Nothing, Places DEF UnderWay, Kind
<1>2. Total(k, n)' + seen[k][n] <= Total(k, n) + seen'[k][n]
  BY <1>1, Places
<1> QED BY <1>2 DEF Accounted

LEMMA StepAccounted ==
  ASSUME IInv, IInv', [Next]_vars, NEW k \in Counter, NEW n \in Name
  PROVE  Accounted(k, n)
<1> USE DEF watchdog, uptime
<1>1. k \in Kind /\ k # Bytes
  BY Places
<1>2. CASE Kartos
  <2>1. ASSUME NEW m \in Name, NEW bytes \in Payload, KartosDoQuery(m, bytes)
        PROVE  Accounted(k, n)
    <3>1. Query \in Counter
      BY DEF Query, Counter, Kind, Bytes
    <3> QED BY <2>1, <3>1, CountAccounted DEF KartosDoQuery
  <2>2. CASE KartosDoBytes
    <3>1. tables'[k] = tables[k] /\ seen'[k] = seen[k] /\ UNCHANGED <<chaos, report>>
      BY <1>1, <2>2 DEF KartosDoBytes, IInv, TypeOK
    <3>2. UnderWay(k, n)' = UnderWay(k, n)
      BY <3>1 DEF UnderWay
    <3> QED BY <3>1, <3>2, NothingMoves
  <2> QED BY <1>2, <2>1, <2>2 DEF Kartos
<1>3. CASE Loki
  <2>1. Error \in Counter
    BY DEF Error, Counter, Kind, Bytes
  <2> QED BY <1>3, <2>1, CountAccounted DEF Loki, LokiDoError
<1>4. CASE Watchdog
  <2>1. ASSUME NEW m \in Name, WatchdogDoShutdown(m)
        PROVE  Accounted(k, n)
    <3>1. Shutdown \in Counter
      BY DEF Shutdown, Counter, Kind, Bytes
    <3> QED BY <2>1, <3>1, CountAccounted DEF WatchdogDoShutdown
  <2>2. CASE Send
    <3>1. CASE chaos_up
      <4>1. UNCHANGED <<tables, chaos, report, seen>>
        BY <2>2, <3>1 DEF Send
      <4>2. UnderWay(k, n)' = UnderWay(k, n)
        BY <4>1 DEF UnderWay
      <4> QED BY <4>1, <4>2, NothingMoves
    <3>2. CASE ~chaos_up
      <4>1. Unread /\ report' = NoReport /\ UNCHANGED <<tables, chaos, seen>>
        BY <2>2, <3>2 DEF Send, Unread
      <4> QED BY <4>1, StopAccounted
    <3> QED BY <3>1, <3>2
  <2> QED BY <1>4, <2>1, <2>2, TakenAccounted DEF Watchdog
<1>5. CASE Failure
  <2>1. CASE AtreusStop
    <3>1. Stopped /\ tables' = EmptyTables /\ UNCHANGED <<chaos, seen>>
      BY <2>1 DEF AtreusStop, AtreusDies, Stopped
    <3>2. report' \in {report, NoReport}
      BY <2>1 DEF AtreusStop
    <3> QED BY <3>1, <3>2, StopAccounted
  <2>2. CASE ChaosStop
    <3>1. Stopped /\ chaos' = EmptyTables /\ UNCHANGED seen
      BY <2>2 DEF ChaosStop, Stopped
    <3>2. tables' \in {tables, EmptyTables} /\ report' \in {report, NoReport}
      BY <2>2 DEF ChaosStop, AtreusDies
    <3> QED BY <3>1, <3>2, StopAccounted
  <2>3. CASE AtreusStart \/ ChaosStart
    <3>1. UNCHANGED <<tables, chaos, report, seen>>
      BY <2>3 DEF AtreusStart, ChaosStart
    <3>2. UnderWay(k, n)' = UnderWay(k, n)
      BY <3>1 DEF UnderWay
    <3> QED BY <3>1, <3>2, NothingMoves
  <2> QED BY <1>5, <2>1, <2>2, <2>3 DEF Failure
<1>6. CASE UNCHANGED vars
  <2>1. UNCHANGED <<tables, chaos, report, seen>>
    BY <1>6 DEF vars
  <2>2. UnderWay(k, n)' = UnderWay(k, n)
    BY <2>1 DEF UnderWay
  <2> QED BY <2>1, <2>2, NothingMoves
<1> QED BY <1>2, <1>3, <1>4, <1>5, <1>6, RecordAccounted DEF Next

LEMMA Invariant == Spec => []IInv
BY Safety, PTL DEF IInv

(* A number gets lost in no other way than those three, for any services,  *)
(* payloads and number of events, and what is lost does not come back.     *)
THEOREM Losses == Spec => LossesKnown
<1>1. IInv /\ IInv' /\ [Next]_vars => \A k \in Counter, n \in Name : Accounted(k, n)
  BY StepAccounted
<1>2. IInv /\ IInv' /\ [Next]_vars =>
        \A k \in Counter, n \in Name :
          /\ Total(k, n)' + seen[k][n] <= Total(k, n) + seen'[k][n]
          /\ \/ Total(k, n)' + seen[k][n] = Total(k, n) + seen'[k][n]
             \/ Stopped \/ Unread \/ PassedOver(k, n)
  BY <1>1 DEF Accounted, Kept
<1> QED BY <1>2, Invariant, PTL DEF Spec, LossesKnown
=============================================================================
