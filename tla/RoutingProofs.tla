---------------------------- MODULE RoutingProofs ----------------------------
(***************************************************************************)
(* For any services, clients and calls of one service by another: why a    *)
(* call fails, what may hold one up, and that each is a call of CallSpec.  *)
(*                                                                         *)
(* A call fails at Loki because the service is not known, at Kartos        *)
(* because it is not known or not there, and on the way because it died.   *)
(* What is not known was purged, what was purged was found dead, and the   *)
(* dead stay dead; Truthful says so.                                       *)
(*                                                                         *)
(* A thread with nothing to do for any call waits for one that has nothing *)
(* to do either.  All those that wait, taken together, are Stuck.          *)
(*                                                                         *)
(* Of all that happens in a step, Way tells what may become of one call,   *)
(* and that is a step of CallSpec or none.                                 *)
(***************************************************************************)
EXTENDS Routing, TLAPS

Truthful ==
  /\ \A s \in Service \ known : ~up[s]
  /\ \A s \in wd.dead : ~up[s]
  /\ wd.now # None => up[wd.now]

IInv == TypeOK /\ FailureMeansDown /\ Truthful

CallRecord == [at : Stage, to : Service \cup {None},
               result : {"ok", "no service", "broken"}, ran : Nat]

-----------------------------------------------------------------------------
\* The functions of the type invariant by themselves.
LEMMA Records ==
  ASSUME TypeOK
  PROVE  /\ call \in [Caller -> CallRecord]
         /\ up \in [Caller -> BOOLEAN]
         /\ work \in [Service -> Caller \cup {None}]
BY DEF TypeOK, CallRecord

\* One call goes on to another stage; whatever else moves, the records of the
\* two parties stay in step.
LEMMA CallOf ==
  ASSUME TypeOK, NEW c \in Caller
  PROVE  /\ call[c] \in CallRecord
         /\ call[c].at # "none" => call[c].to \in Service
<1>1. call[c] \in CallRecord
  BY Records
<1> QED BY <1>1 DEF TypeOK, CallRecord

\* The record of a call whose handler begins.
LEMMA RunRecord ==
  ASSUME NEW r \in CallRecord
  PROVE  LET new == [r EXCEPT !.at = "running", !.ran = @ + 1]
         IN  /\ new \in CallRecord /\ new.at = "running" /\ new.to = r.to
             /\ new.result = r.result /\ new.ran = r.ran + 1
<1> DEFINE mid == [r EXCEPT !.at = "running"]
           new == [mid EXCEPT !.ran = @ + 1]
<1>1. /\ mid \in CallRecord /\ mid.at = "running" /\ mid.to = r.to
      /\ mid.result = r.result /\ mid.ran = r.ran
  BY DEF CallRecord, Stage
<1> HIDE DEF mid
<1>2. /\ new \in CallRecord /\ new.at = mid.at /\ new.to = mid.to
      /\ new.result = mid.result /\ new.ran = mid.ran + 1
  <2> DEFINE n == mid.ran + 1
  <2>1. n \in Nat
    <3>1. r.ran \in Nat
      BY DEF CallRecord
    <3> QED BY <1>1, <3>1
  <2> HIDE DEF n
  <2>2. /\ [mid EXCEPT !.ran = n] \in CallRecord
        /\ [mid EXCEPT !.ran = n].at = mid.at /\ [mid EXCEPT !.ran = n].to = mid.to
        /\ [mid EXCEPT !.ran = n].result = mid.result /\ [mid EXCEPT !.ran = n].ran = n
    BY <1>1, <2>1 DEF CallRecord
  <2> QED BY <2>2 DEF n
<1>3. new = [r EXCEPT !.at = "running", !.ran = @ + 1]
  BY DEF mid
<1> QED BY <1>1, <1>2, <1>3

LEMMA MoveKeeps ==
  ASSUME IInv, NEW c \in Caller, NEW stage \in Stage, call[c].at # "none",
         stage # "none", UNCHANGED up,
         \/ Move(c, stage)
         \/ stage = "running" /\ Run(c)
         \/ /\ <<c, call[c].to>> \in Traced \/ ~up[call[c].to]
            /\ \E result \in {"no service", "broken"} : End(c, stage, result)
  PROVE  /\ call' \in [Caller -> CallRecord]
         /\ call'[c].at = stage /\ call'[c].to = call[c].to
         /\ \A d \in Caller : d # c => call'[d] = call[d]
         /\ \A d \in Caller : IF call'[d].at = "none" THEN call'[d] = NoCall
                              ELSE call'[d].to # None
         /\ FailureMeansDown'
<1>1. call \in [Caller -> CallRecord]
  BY DEF IInv, TypeOK, CallRecord
<1>2. /\ call' \in [Caller -> CallRecord]
      /\ call'[c].at = stage /\ call'[c].to = call[c].to
      /\ call'[c].result # call[c].result => <<c, call[c].to>> \in Traced \/ ~up[call[c].to]
      /\ \A d \in Caller : d # c => call'[d] = call[d]
  <2>1. CASE Move(c, stage)
    <3>1. /\ call'[c] = [call[c] EXCEPT !.at = stage]
          /\ \A d \in Caller : d # c => call'[d] = call[d]
          /\ call' = [call EXCEPT ![c] = [call[c] EXCEPT !.at = stage]]
      BY <1>1, <2>1 DEF Move
    <3>2. [call[c] EXCEPT !.at = stage] \in CallRecord
      BY <1>1 DEF CallRecord
    <3>3. /\ [call[c] EXCEPT !.at = stage].at = stage
          /\ [call[c] EXCEPT !.at = stage].to = call[c].to
          /\ [call[c] EXCEPT !.at = stage].result = call[c].result
      BY <1>1 DEF CallRecord
    <3> QED BY <1>1, <3>1, <3>2, <3>3
  <2>2. CASE /\ <<c, call[c].to>> \in Traced \/ ~up[call[c].to]
             /\ \E result \in {"no service", "broken"} : End(c, stage, result)
    <3> PICK result \in {"no service", "broken"} : End(c, stage, result)
      BY <2>2
    <3> DEFINE new == [call[c] EXCEPT !.at = stage, !.result = result]
    <3>1. /\ call'[c] = new
          /\ \A d \in Caller : d # c => call'[d] = call[d]
          /\ call' = [call EXCEPT ![c] = new]
      BY <1>1 DEF End
    <3>2. new \in CallRecord
      BY <1>1 DEF CallRecord
    <3>3. new.at = stage /\ new.to = call[c].to
      BY <1>1 DEF CallRecord
    <3> HIDE DEF new
    <3> QED BY <1>1, <2>2, <3>1, <3>2, <3>3
  <2>3. CASE stage = "running" /\ Run(c)
    <3> DEFINE new == [call[c] EXCEPT !.at = "running", !.ran = @ + 1]
    <3>1. /\ call'[c] = new
          /\ \A d \in Caller : d # c => call'[d] = call[d]
          /\ call' = [call EXCEPT ![c] = new]
      BY <1>1, <2>3 DEF Run
    <3>2. /\ new \in CallRecord /\ new.at = "running"
          /\ new.to = call[c].to /\ new.result = call[c].result
      BY <1>1, RunRecord
    <3> HIDE DEF new
    <3> QED BY <1>1, <2>3, <3>1, <3>2
  <2> QED BY <2>1, <2>2, <2>3
<1>4. \A d \in Caller : IF call'[d].at = "none" THEN call'[d] = NoCall
                        ELSE call'[d].to # None
  <2>1. \A d \in Caller : IF call[d].at = "none" THEN call[d] = NoCall
                          ELSE call[d].to # None
    BY DEF IInv, TypeOK
  <2> SUFFICES ASSUME NEW d \in Caller
               PROVE  IF call'[d].at = "none" THEN call'[d] = NoCall
                      ELSE call'[d].to # None
    OBVIOUS
  <2>2. CASE d = c
    BY <1>2, <2>1, <2>2
  <2>3. CASE d # c
    <3>1. call'[d] = call[d]
      BY <1>2, <2>3
    <3> QED BY <2>1, <3>1
  <2> QED BY <2>2, <2>3
<1>5. FailureMeansDown'
  BY <1>2 DEF IInv, FailureMeansDown, Routable
<1> QED BY <1>2, <1>4, <1>5

\* The two links between call and the threads, work and kartos.
WorkLink == \A s \in Service, c \in Caller :
              work[s] = c <=> call[c].at = "running" /\ call[c].to = s
KartosLink == \A c \in Caller : kartos = c <=> call[c].at = "lookup"

\* A move between stages that no thread keeps a record of.
LEMMA PlainMove ==
  ASSUME IInv, NEW c \in Caller, NEW stage \in Stage,
         call[c].at \notin {"none", "running", "lookup"},
         stage \notin {"none", "running", "lookup"},
         UNCHANGED <<up, work, asked, kartos, known, wd>>,
         \/ Move(c, stage)
         \/ /\ <<c, call[c].to>> \in Traced \/ ~up[call[c].to]
            /\ \E result \in {"no service", "broken"} : End(c, stage, result)
  PROVE  IInv'
<1>1. /\ call' \in [Caller -> CallRecord]
      /\ call'[c].at = stage /\ call'[c].to = call[c].to
      /\ \A d \in Caller : d # c => call'[d] = call[d]
      /\ \A d \in Caller : IF call'[d].at = "none" THEN call'[d] = NoCall
                           ELSE call'[d].to # None
      /\ FailureMeansDown'
  BY MoveKeeps
<1>2. WorkLink' /\ KartosLink'
  <2>1. WorkLink /\ KartosLink
    BY DEF IInv, TypeOK, WorkLink, KartosLink
  <2>2. ASSUME NEW d \in Caller
        PROVE  /\ call'[d].at = "running" <=> call[d].at = "running"
               /\ call'[d].at = "lookup" <=> call[d].at = "lookup"
               /\ call'[d].to = call[d].to
    <3>1. CASE d = c
      BY <1>1, <3>1
    <3>2. CASE d # c
      BY <1>1, <3>2
    <3> QED BY <3>1, <3>2
  <2>3. UNCHANGED <<work, kartos>>
    OBVIOUS
  <2>4. ASSUME NEW q \in Service, NEW d \in Caller
        PROVE  work'[q] = d <=> call'[d].at = "running" /\ call'[d].to = q
    <3>1. work[q] = d <=> call[d].at = "running" /\ call[d].to = q
      BY <2>1 DEF WorkLink
    <3>2. work'[q] = work[q]
      BY <2>3
    <3> QED BY <2>2, <3>1, <3>2
  <2>5. ASSUME NEW d \in Caller
        PROVE  kartos' = d <=> call'[d].at = "lookup"
    BY <2>1, <2>2, <2>3 DEF KartosLink
  <2> QED BY <2>4, <2>5 DEF WorkLink, KartosLink
<1>3. TypeOK'
  BY <1>1, <1>2 DEF IInv, TypeOK, CallRecord, WorkLink, KartosLink
<1> QED BY <1>1, <1>3 DEF IInv, Truthful

\* What is not known, and what is there no more, is down.
LEMMA Lost ==
  ASSUME IInv, NEW s \in Service, s \notin known \/ ~up[s]
  PROVE  ~up[s]
BY DEF IInv, Truthful

LEMMA LokiKeeps ==
  ASSUME IInv, NEW c \in Caller, Loki(c)
  PROVE  IInv'
<1>1. CASE LokiRequest(c)
  <2>1. call[c].to \in Service
    BY <1>1, CallOf DEF LokiRequest, IInv
  <2>2. \/ Move(c, "kartos")
        \/ ~up[call[c].to] /\ End(c, "reply", "no service")
        \/ <<c, call[c].to>> \in Traced /\ End(c, "reply", "broken")
    BY <1>1, <2>1, Lost DEF LokiRequest, Routable
  <2>3. CASE Move(c, "kartos")
    BY <1>1, <2>3, PlainMove DEF LokiRequest, Stage
  <2>4. CASE ~up[call[c].to] /\ End(c, "reply", "no service")
    BY <1>1, <2>4, PlainMove DEF LokiRequest, Stage
  <2>5. CASE <<c, call[c].to>> \in Traced /\ End(c, "reply", "broken")
    BY <1>1, <2>5, PlainMove DEF LokiRequest, Stage
  <2> QED BY <2>2, <2>3, <2>4, <2>5
<1>2. CASE LokiChildDie(c)
  BY <1>2, PlainMove DEF LokiChildDie, Stage
<1> QED BY <1>1, <1>2 DEF Loki

LEMMA KartosKeeps ==
  ASSUME IInv, NEW c \in Caller, Kartos(c)
  PROVE  IInv'
<1>1. CASE KartosRequest(c)
  <2>1. /\ call' \in [Caller -> CallRecord]
        /\ call'[c].at = "lookup" /\ call'[c].to = call[c].to
        /\ \A d \in Caller : d # c => call'[d] = call[d]
        /\ \A d \in Caller : IF call'[d].at = "none" THEN call'[d] = NoCall
                             ELSE call'[d].to # None
        /\ FailureMeansDown'
    BY <1>1, MoveKeeps DEF KartosRequest, Stage
  <2>2. WorkLink' /\ KartosLink'
    <3>1. WorkLink /\ KartosLink
      BY DEF IInv, TypeOK, WorkLink, KartosLink
    <3>2. \A d \in Caller : call[d].at # "lookup"
      BY <1>1, <3>1, Distinct DEF KartosRequest, KartosLink, Caller
    <3> QED BY <1>1, <2>1, <3>1, <3>2 DEF KartosRequest, WorkLink, KartosLink
  <2>3. TypeOK'
    BY <1>1, <2>1, <2>2 DEF KartosRequest, IInv, TypeOK, CallRecord, WorkLink, KartosLink
  <2> QED BY <1>1, <2>1, <2>3 DEF KartosRequest, IInv, Truthful
<1>2. CASE KartosConnect(c)
  <2>1. \/ Move(c, "service")
        \/ ~up[call[c].to] /\ End(c, "lback", "broken")
    BY <1>2 DEF KartosConnect
  <2>2. call[c].at = "connect" /\ UNCHANGED <<up, work, asked, kartos, known, wd>>
    BY <1>2 DEF KartosConnect
  <2>3. CASE Move(c, "service")
    BY <2>2, <2>3, PlainMove DEF Stage
  <2>4. CASE ~up[call[c].to] /\ End(c, "lback", "broken")
    BY <2>2, <2>4, PlainMove DEF Stage
  <2> QED BY <2>1, <2>3, <2>4
<1>3. CASE KartosChildDie(c)
  BY <1>3, PlainMove DEF KartosChildDie, Stage
<1> QED BY <1>1, <1>2, <1>3 DEF Kartos

LEMMA KartosQueryKeeps ==
  ASSUME IInv, KartosQuery
  PROVE  IInv'
<1> DEFINE c == kartos
<1>1. c \in Caller /\ call[c].at = "lookup" /\ call[c].to \in Service
  <2>1. c \in Caller /\ call[c].at = "lookup"
    BY DEF KartosQuery, IInv, TypeOK
  <2> QED BY <2>1, CallOf DEF IInv
<1>2. \/ Move(c, "connect")
      \/ ~up[call[c].to] /\ End(c, "lback", "broken")
  BY <1>1, Lost DEF KartosQuery
<1>3. PICK stage \in {"connect", "lback"} :
        /\ call' \in [Caller -> CallRecord]
        /\ call'[c].at = stage /\ call'[c].to = call[c].to
        /\ \A d \in Caller : d # c => call'[d] = call[d]
        /\ \A d \in Caller : IF call'[d].at = "none" THEN call'[d] = NoCall
                             ELSE call'[d].to # None
        /\ FailureMeansDown'
  BY <1>1, <1>2, MoveKeeps DEF KartosQuery, Stage
<1>4. WorkLink' /\ KartosLink'
  <2>1. WorkLink /\ KartosLink
    BY DEF IInv, TypeOK, WorkLink, KartosLink
  <2>2. None \notin Caller /\ kartos' = None
    BY Distinct DEF KartosQuery, Caller
  <2> QED BY <1>1, <1>3, <2>1, <2>2 DEF KartosQuery, WorkLink, KartosLink
<1>5. TypeOK'
  BY <1>3, <1>4 DEF KartosQuery, IInv, TypeOK, CallRecord, WorkLink, KartosLink
<1> QED BY <1>3, <1>5 DEF KartosQuery, IInv, Truthful

-----------------------------------------------------------------------------
\* A new call, of a caller that waits for none.
LEMMA RequestKeeps ==
  ASSUME IInv, NEW c \in Caller, NEW s \in Service, call[c] = NoCall,
         call' = Request(c, s), UNCHANGED <<up, work, kartos, known, wd>>,
         asked' \in [Service -> BOOLEAN]
  PROVE  IInv'
<1> DEFINE new == [at |-> "loki", to |-> s, result |-> "ok", ran |-> 0]
<1>1. call \in [Caller -> CallRecord] /\ new \in CallRecord
  BY DEF IInv, TypeOK, CallRecord, Stage
<1>2. /\ call' \in [Caller -> CallRecord] /\ call'[c] = new
      /\ \A d \in Caller : d # c => call'[d] = call[d]
  BY <1>1 DEF Request
<1>3. ASSUME NEW d \in Caller
      PROVE  /\ IF call'[d].at = "none" THEN call'[d] = NoCall ELSE call'[d].to # None
             /\ call'[d].at = "running" <=> call[d].at = "running"
             /\ call'[d].at = "lookup" <=> call[d].at = "lookup"
             /\ call'[d].to = call[d].to \/ call'[d].at = "loki"
             /\ call'[d].result # "ok" => <<d, call'[d].to>> \in Traced \/ ~up[call'[d].to]
  <2>1. CASE d = c
    BY <1>2, <2>1, Distinct DEF NoCall
  <2>2. CASE d # c
    <3>1. call'[d] = call[d]
      BY <1>2, <2>2
    <3>2. /\ IF call[d].at = "none" THEN call[d] = NoCall ELSE call[d].to # None
          /\ call[d].result # "ok" => <<d, call[d].to>> \in Traced \/ ~up[call[d].to]
      BY DEF IInv, TypeOK, FailureMeansDown, Routable
    <3> QED BY <3>1, <3>2
  <2> QED BY <2>1, <2>2
<1>4. WorkLink' /\ KartosLink'
  <2>1. WorkLink /\ KartosLink
    BY DEF IInv, TypeOK, WorkLink, KartosLink
  <2>2. ASSUME NEW q \in Service, NEW d \in Caller
        PROVE  work'[q] = d <=> call'[d].at = "running" /\ call'[d].to = q
    <3>1. /\ call'[d].at = "running" <=> call[d].at = "running"
          /\ call'[d].to = call[d].to \/ call'[d].at = "loki"
      BY <1>3
    <3>2. work'[q] = d <=> call[d].at = "running" /\ call[d].to = q
      BY <2>1 DEF WorkLink
    <3> QED BY <3>1, <3>2
  <2>3. ASSUME NEW d \in Caller
        PROVE  kartos' = d <=> call'[d].at = "lookup"
    BY <1>3, <2>1 DEF KartosLink
  <2> QED BY <2>2, <2>3 DEF WorkLink, KartosLink
<1>5. TypeOK'
  <2>1. \A d \in Caller : IF call'[d].at = "none" THEN call'[d] = NoCall
                          ELSE call'[d].to # None
    BY <1>3
  <2> QED BY <1>2, <1>4, <2>1 DEF IInv, TypeOK, CallRecord, WorkLink, KartosLink
<1>6. FailureMeansDown'
  BY <1>3 DEF FailureMeansDown, Routable
<1> QED BY <1>5, <1>6 DEF IInv, Truthful

\* The end of a process breaks off the calls it had to answer.
LEMMA DieKeeps ==
  ASSUME IInv, NEW p \in Caller, Die(p), UNCHANGED <<asked, kartos, known>>
  PROVE  IInv'
<1>1. /\ up' \in [Caller -> BOOLEAN] /\ ~up'[p]
      /\ \A q \in Caller : q # p => up'[q] = up[q]
  BY Records DEF Die, IInv
<1>2. ASSUME NEW d \in Caller
      PROVE  /\ call'[d] \in CallRecord
             /\ IF call'[d].at = "none" THEN call'[d] = NoCall ELSE call'[d].to # None
             /\ call'[d].at = "lookup" <=> call[d].at = "lookup"
             /\ call'[d].at = "running" <=> call[d].at = "running" /\ call[d].to # p
             /\ call'[d].at = "running" => call'[d].to = call[d].to
             /\ call'[d].result # "ok" => <<d, call'[d].to>> \in Traced \/ ~up'[call'[d].to]
  <2>1. call[d] \in CallRecord /\ (call[d].result # "ok" => <<d, call[d].to>> \in Traced \/ ~up[call[d].to])
    BY CallOf DEF IInv, FailureMeansDown, Routable
  <2>2. IF call[d].at = "none" THEN call[d] = NoCall ELSE call[d].to # None
    BY DEF IInv, TypeOK
  <2>3. CASE d = p /\ call[d].at = "reply"
    <3>1. call'[d] = NoCall
      BY <2>3 DEF Die
    <3> QED BY <3>1, <2>3 DEF NoCall, CallRecord, Stage
  <2>4. CASE call[d].to = p /\ call[d].at \in {"service", "running"}
    <3>1. call'[d] = [call[d] EXCEPT !.at = "kback", !.result = "broken"]
      BY <2>4 DEF Die
    <3> QED BY <1>1, <2>1, <2>2, <2>4, <3>1 DEF CallRecord, Stage
  <2>5. CASE /\ ~(d = p /\ call[d].at = "reply")
             /\ ~(call[d].to = p /\ call[d].at \in {"service", "running"})
    <3>1. call'[d] = call[d]
      BY <2>5 DEF Die
    <3>2. call[d].result # "ok" => <<d, call[d].to>> \in Traced \/ ~up'[call[d].to]
      <4>1. CASE call[d].to = p
        BY <1>1, <4>1
      <4>2. CASE call[d].to # p /\ call[d].at # "none"
        BY <1>1, <2>1, <4>2, CallOf DEF IInv, Caller
      <4>3. CASE call[d].at = "none"
        BY <2>2, <4>3 DEF NoCall
      <4> QED BY <4>1, <4>2, <4>3
    <3> QED BY <2>1, <2>2, <2>5, <3>1, <3>2
  <2> QED BY <2>3, <2>4, <2>5
<1>3. call' \in [Caller -> CallRecord]
  <2>1. call' = [d \in Caller |-> call'[d]]
    BY DEF Die
  <2> QED BY <1>2, <2>1
<1>4. /\ work' \in [Service -> Caller \cup {None}]
      /\ \A s \in Service : work'[s] = IF s = p THEN None ELSE work[s]
  BY DEF Die, IInv, TypeOK
<1>5. WorkLink' /\ KartosLink'
  <2>1. WorkLink /\ KartosLink
    BY DEF IInv, TypeOK, WorkLink, KartosLink
  <2>2. None \notin Caller
    BY Distinct DEF Caller
  <2>3. KartosLink'
    BY <1>2, <2>1 DEF KartosLink
  <2>4. ASSUME NEW s \in Service, NEW d \in Caller
        PROVE  work'[s] = d <=> call'[d].at = "running" /\ call'[d].to = s
    <3>1. CASE s = p
      BY <1>2, <1>4, <2>2, <3>1
    <3>2. CASE s # p
      <4>1. /\ call'[d].at = "running" <=> call[d].at = "running" /\ call[d].to # p
            /\ call'[d].at = "running" => call'[d].to = call[d].to
        BY <1>2
      <4>2. work'[s] = d <=> call[d].at = "running" /\ call[d].to = s
        BY <1>4, <2>1, <3>2 DEF WorkLink
      <4> QED BY <3>2, <4>1, <4>2
    <3> QED BY <3>1, <3>2
  <2> QED BY <2>3, <2>4 DEF WorkLink
<1>6. /\ wd' \in [at : {"idle", "probe"}, left : SUBSET Service,
                  now : Service \cup {None}, dead : SUBSET Service]
      /\ wd'.at = "idle" => wd' = WdIdle
      /\ \A s \in wd'.dead : ~up'[s]
      /\ wd'.now # None => up'[wd'.now]
  <2>1. CASE wd.now = p
    <3>1. wd' = [wd EXCEPT !.now = None, !.dead = wd.dead \cup {p}]
      BY <2>1 DEF Die
    <3>2. p \in Service /\ wd.at = "probe" /\ wd.dead \cup {p} \in SUBSET Service
      <4>1. p # None
        BY Distinct DEF Caller
      <4>2. p \in Service
        BY <2>1, <4>1 DEF IInv, TypeOK
      <4>3. wd.at = "idle" => wd.now = None
        <5>1. wd.at = "idle" => wd = WdIdle
          BY DEF IInv, TypeOK
        <5> QED BY <5>1 DEF WdIdle
      <4>4. wd.at \in {"idle", "probe"} /\ wd.dead \in SUBSET Service
        BY DEF IInv, TypeOK
      <4>5. wd.dead \cup {p} \in SUBSET Service
        BY <4>2, <4>4
      <4> QED BY <2>1, <4>1, <4>2, <4>3, <4>4, <4>5
    <3>3. /\ wd'.at = "probe" /\ wd'.now = None /\ wd'.dead = wd.dead \cup {p}
          /\ wd'.left = wd.left
      BY <3>1, <3>2 DEF IInv, TypeOK
    <3>4. wd' \in [at : {"idle", "probe"}, left : SUBSET Service,
                   now : Service \cup {None}, dead : SUBSET Service]
      BY <3>1, <3>2 DEF IInv, TypeOK
    <3>5. \A s \in wd'.dead : ~up'[s]
      <4>1. \A s \in wd.dead : ~up[s] /\ s \in Caller
        BY DEF IInv, Truthful, TypeOK, Caller
      <4> QED BY <1>1, <3>2, <3>3, <4>1
    <3> QED BY <3>3, <3>4, <3>5
  <2>2. CASE wd.now # p
    <3>1. wd' = wd
      BY <2>2 DEF Die
    <3>2. \A s \in wd.dead : ~up'[s]
      BY <1>1 DEF IInv, Truthful, TypeOK, Caller
    <3>3. wd.now # None => up'[wd.now]
      <4>1. wd.now \in Service \cup {None} /\ (wd.now # None => up[wd.now])
        BY DEF IInv, Truthful, TypeOK
      <4> QED BY <1>1, <2>2, <4>1 DEF Caller
    <3>4. /\ wd \in [at : {"idle", "probe"}, left : SUBSET Service,
                     now : Service \cup {None}, dead : SUBSET Service]
          /\ wd.at = "idle" => wd = WdIdle
      BY DEF IInv, TypeOK
    <3> QED BY <3>1, <3>2, <3>3, <3>4
  <2> QED BY <2>1, <2>2
<1>7. TypeOK'
  <2>1. \A s \in Service : work'[s] # None => up'[s]
    <3> SUFFICES ASSUME NEW s \in Service, work'[s] # None PROVE up'[s]
      OBVIOUS
    <3>1. s # p /\ work[s] # None
      BY <1>4
    <3>2. up[s] /\ s \in Caller
      BY <3>1 DEF IInv, TypeOK, Caller
    <3> QED BY <1>1, <3>1, <3>2
  <2>2. \A d \in Caller : IF call'[d].at = "none" THEN call'[d] = NoCall
                          ELSE call'[d].to # None
    BY <1>2
  <2>3. /\ asked \in [Service -> BOOLEAN]
        /\ kartos \in Caller \cup {None} /\ known \subseteq Service
        /\ UNCHANGED <<asked, kartos, known>>
    BY DEF IInv, TypeOK
  <2> QED BY <1>1, <1>3, <1>4, <1>5, <1>6, <2>1, <2>2, <2>3
      DEF TypeOK, CallRecord, WorkLink, KartosLink
<1>8. FailureMeansDown'
  BY <1>2 DEF FailureMeansDown, Routable
<1>9. Truthful'
  <2>1. \A s \in Service \ known : ~up'[s]
    BY <1>1 DEF IInv, Truthful, Caller
  <2> QED BY <1>6, <2>1 DEF Truthful
<1> QED BY <1>7, <1>8, <1>9 DEF IInv

-----------------------------------------------------------------------------
\* A step that leaves the calls and the threads alone.
LEMMA SameCalls ==
  ASSUME IInv, UNCHANGED <<call, work, asked, kartos>>,
         up' \in [Caller -> BOOLEAN],
         \A s \in Service : up'[s] = up[s],
         known' \subseteq Service,
         wd' \in [at : {"idle", "probe"}, left : SUBSET Service,
                  now : Service \cup {None}, dead : SUBSET Service],
         wd'.at = "idle" => wd' = WdIdle
  PROVE  TypeOK' /\ FailureMeansDown'
<1>1. WorkLink' /\ KartosLink'
  <2>1. WorkLink /\ KartosLink
    BY DEF IInv, TypeOK, WorkLink, KartosLink
  <2> QED BY <2>1 DEF WorkLink, KartosLink
<1>2. TypeOK'
  <2>1. \A s \in Service : work[s] # None => up[s]
    BY DEF IInv, TypeOK
  <2>2. \A s \in Service : work'[s] # None => up'[s]
    BY <2>1
  <2>3. \A c \in Caller : IF call[c].at = "none" THEN call[c] = NoCall
                          ELSE call[c].to # None
    BY DEF IInv, TypeOK
  <2>4. /\ call \in [Caller -> CallRecord]
        /\ work \in [Service -> Caller \cup {None}]
        /\ asked \in [Service -> BOOLEAN] /\ kartos \in Caller \cup {None}
    BY DEF IInv, TypeOK, CallRecord
  <2> QED BY <1>1, <2>2, <2>3, <2>4 DEF TypeOK, CallRecord, WorkLink, KartosLink
<1>3. FailureMeansDown'
  <2> SUFFICES ASSUME NEW c \in Caller, call'[c].result # "ok"
               PROVE  <<c, call'[c].to>> \in Traced \/ ~up'[call'[c].to]
    BY DEF FailureMeansDown, Routable
  <2>1. call'[c] = call[c] /\ call[c].at # "none"
    <3>1. call'[c] = call[c]
      OBVIOUS
    <3>2. call[c].at = "none" => call[c] = NoCall
      BY DEF IInv, TypeOK
    <3> QED BY <3>1, <3>2 DEF NoCall
  <2>2. call[c].to \in Service /\ (<<c, call[c].to>> \in Traced \/ ~up[call[c].to])
    BY <2>1, CallOf DEF IInv, FailureMeansDown, Routable
  <2> QED BY <2>1, <2>2
<1> QED BY <1>2, <1>3

LEMMA ClientKeeps ==
  ASSUME IInv, NEW c \in Client, ClientStep(c)
  PROVE  IInv'
<1>1. CASE \E s \in Service : <<c, s>> \in Calls /\ ClientCall(c, s)
  <2>1. PICK s \in Service : ClientCall(c, s)
    BY <1>1
  <2>2. asked' \in [Service -> BOOLEAN]
    BY <2>1 DEF ClientCall, IInv, TypeOK
  <2> QED BY <2>1, <2>2, RequestKeeps DEF ClientCall, Caller
<1>2. CASE ClientStart(c)
  <2>1. /\ up' \in [Caller -> BOOLEAN]
        /\ \A s \in Service : up'[s] = up[s]
    <3>1. up \in [Caller -> BOOLEAN]
      BY DEF IInv, TypeOK
    <3> QED BY <1>2, <3>1, Distinct DEF ClientStart, Caller
  <2>2. /\ known' \subseteq Service
        /\ wd' \in [at : {"idle", "probe"}, left : SUBSET Service,
                    now : Service \cup {None}, dead : SUBSET Service]
        /\ wd'.at = "idle" => wd' = WdIdle
    BY <1>2 DEF ClientStart, IInv, TypeOK
  <2>3. TypeOK' /\ FailureMeansDown'
    BY <1>2, <2>1, <2>2, SameCalls DEF ClientStart
  <2>4. Truthful'
    <3>1. wd' = wd /\ known' = known
      BY <1>2 DEF ClientStart
    <3>2. wd.dead \subseteq Service /\ wd.now \in Service \cup {None}
      BY DEF IInv, TypeOK
    <3> QED BY <2>1, <3>1, <3>2 DEF IInv, Truthful
  <2> QED BY <2>3, <2>4 DEF IInv
<1> QED BY <1>1, <1>2 DEF ClientStep

\* A caller takes its reply.
LEMMA ReceiveKeeps ==
  ASSUME IInv, NEW c \in Caller, Receive(c)
  PROVE  IInv'
<1>1. CASE up[c] /\ call[c].result = "broken"
  BY <1>1, DieKeeps DEF Receive
<1>2. CASE ~(up[c] /\ call[c].result = "broken")
  <2>1. /\ call' = [call EXCEPT ![c] = NoCall]
        /\ UNCHANGED <<up, work, asked, kartos, known, wd>>
        /\ call[c].at = "reply"
    BY <1>2 DEF Receive
  <2>2. call \in [Caller -> CallRecord] /\ NoCall \in CallRecord
    BY DEF IInv, TypeOK, CallRecord, NoCall, Stage
  <2>3. /\ call' \in [Caller -> CallRecord] /\ call'[c] = NoCall
        /\ \A d \in Caller : d # c => call'[d] = call[d]
    BY <2>1, <2>2
  <2>4. ASSUME NEW d \in Caller
        PROVE  /\ IF call'[d].at = "none" THEN call'[d] = NoCall ELSE call'[d].to # None
               /\ call'[d].at = "running" <=> call[d].at = "running"
               /\ call'[d].at = "lookup" <=> call[d].at = "lookup"
               /\ call'[d].to = call[d].to \/ call'[d].at = "none"
               /\ call'[d].result # "ok" => <<d, call'[d].to>> \in Traced \/ ~up[call'[d].to]
    <3>1. CASE d = c
      BY <2>1, <2>3, <3>1 DEF NoCall
    <3>2. CASE d # c
      <4>1. call'[d] = call[d]
        BY <2>3, <3>2
      <4>2. /\ IF call[d].at = "none" THEN call[d] = NoCall ELSE call[d].to # None
            /\ call[d].result # "ok" => <<d, call[d].to>> \in Traced \/ ~up[call[d].to]
        BY DEF IInv, TypeOK, FailureMeansDown, Routable
      <4> QED BY <4>1, <4>2
    <3> QED BY <3>1, <3>2
  <2>5. WorkLink' /\ KartosLink'
    <3>1. WorkLink /\ KartosLink
      BY DEF IInv, TypeOK, WorkLink, KartosLink
    <3>2. ASSUME NEW q \in Service, NEW d \in Caller
          PROVE  work'[q] = d <=> call'[d].at = "running" /\ call'[d].to = q
      <4>1. /\ call'[d].at = "running" <=> call[d].at = "running"
            /\ call'[d].to = call[d].to \/ call'[d].at = "none"
        BY <2>4
      <4>2. work'[q] = d <=> call[d].at = "running" /\ call[d].to = q
        BY <2>1, <3>1 DEF WorkLink
      <4> QED BY <4>1, <4>2
    <3>3. ASSUME NEW d \in Caller
          PROVE  kartos' = d <=> call'[d].at = "lookup"
      BY <2>1, <2>4, <3>1 DEF KartosLink
    <3> QED BY <3>2, <3>3 DEF WorkLink, KartosLink
  <2>6. TypeOK'
    <3>1. \A d \in Caller : IF call'[d].at = "none" THEN call'[d] = NoCall
                            ELSE call'[d].to # None
      BY <2>4
    <3> QED BY <2>1, <2>3, <2>5, <3>1
          DEF IInv, TypeOK, CallRecord, WorkLink, KartosLink
  <2>7. FailureMeansDown'
    BY <2>1, <2>4 DEF FailureMeansDown, Routable
  <2> QED BY <2>1, <2>6, <2>7 DEF IInv, Truthful
<1> QED BY <1>1, <1>2

\* The handler of s takes up a request, or answers it: work follows the call.
LEMMA HandlerKeeps ==
  ASSUME IInv, NEW s \in Service, up[s], NEW c \in Caller, call[c].to = s,
         NEW stage \in Stage, stage \notin {"none", "lookup"},
         call[c].at \notin {"none", "lookup"},
         Move(c, stage) \/ (stage = "running" /\ Run(c)),
         call[c].at = "running" \/ work[s] = None,
         work' = [work EXCEPT ![s] = IF stage = "running" THEN c ELSE None],
         asked' \in [Service -> BOOLEAN],
         UNCHANGED <<up, kartos, known, wd>>
  PROVE  IInv'
<1>1. /\ call' \in [Caller -> CallRecord]
      /\ call'[c].at = stage /\ call'[c].to = call[c].to
      /\ \A d \in Caller : d # c => call'[d] = call[d]
      /\ \A d \in Caller : IF call'[d].at = "none" THEN call'[d] = NoCall
                           ELSE call'[d].to # None
      /\ FailureMeansDown'
  BY MoveKeeps
<1>2. /\ work' \in [Service -> Caller \cup {None}]
      /\ work'[s] = IF stage = "running" THEN c ELSE None
      /\ \A q \in Service : q # s => work'[q] = work[q]
  <2>1. work \in [Service -> Caller \cup {None}]
    BY DEF IInv, TypeOK
  <2> QED BY <2>1
<1>3. WorkLink /\ KartosLink
  BY DEF IInv, TypeOK, WorkLink, KartosLink
<1>4. ASSUME NEW q \in Service, NEW d \in Caller
      PROVE  work'[q] = d <=> call'[d].at = "running" /\ call'[d].to = q
  <2>1. work[q] = d <=> call[d].at = "running" /\ call[d].to = q
    BY <1>3 DEF WorkLink
  <2>2. work[s] = c <=> call[c].at = "running"
    BY <1>3 DEF WorkLink
  <2>3. d # None /\ c # None
    BY Distinct DEF Caller
  <2>4. CASE d = c
    BY <1>1, <1>2, <2>1, <2>3, <2>4
  <2>5. CASE d # c
    <3>1. call'[d] = call[d]
      BY <1>1, <2>5
    <3>2. work'[q] = d <=> work[q] = d
      BY <1>2, <2>2, <2>3, <2>5
    <3> QED BY <2>1, <3>1, <3>2
  <2> QED BY <2>4, <2>5
<1>5. ASSUME NEW d \in Caller
      PROVE  kartos' = d <=> call'[d].at = "lookup"
  BY <1>1, <1>3 DEF KartosLink
<1>6. TypeOK'
  <2>1. WorkLink' /\ KartosLink'
    BY <1>4, <1>5 DEF WorkLink, KartosLink
  <2>2. \A q \in Service : work'[q] # None => up'[q]
    <3>1. \A q \in Service : work[q] # None => up[q]
      BY DEF IInv, TypeOK
    <3> QED BY <1>2, <3>1
  <2> QED BY <1>1, <1>2, <2>1, <2>2
        DEF IInv, TypeOK, CallRecord, WorkLink, KartosLink
<1> QED BY <1>1, <1>6 DEF IInv, Truthful

LEMMA ServeKeeps ==
  ASSUME IInv, NEW s \in Service, Serve(s)
  PROVE  IInv'
<1>1. ASSUME NEW c \in Caller, Begin(s, c)
      PROVE  IInv'
  <2>1. asked' \in [Service -> BOOLEAN]
    BY <1>1 DEF Begin, IInv, TypeOK
  <2>2. work' = [work EXCEPT ![s] = c]
    BY <1>1 DEF Begin
  <2> QED BY <1>1, <2>1, <2>2, HandlerKeeps DEF Begin, Stage
<1>2. ASSUME NEW t \in Service, NestedCall(s, t)
      PROVE  IInv'
  <2>1. asked' \in [Service -> BOOLEAN]
    BY <1>2 DEF NestedCall, IInv, TypeOK
  <2> QED BY <1>2, <2>1, RequestKeeps DEF NestedCall, Caller
<1>3. CASE Finish(s)
  <2>1. /\ work[s] \in Caller /\ up[s]
        /\ call[work[s]].at = "running" /\ call[work[s]].to = s
    <3>1. work[s] \in Caller \cup {None} /\ (work[s] # None => up[s])
      BY DEF IInv, TypeOK
    <3>2. WorkLink
      BY DEF IInv, TypeOK, WorkLink
    <3> QED BY <1>3, <3>1, <3>2 DEF Finish, WorkLink
  <2>2. asked' \in [Service -> BOOLEAN]
    BY <1>3 DEF Finish, IInv, TypeOK
  <2> QED BY <1>3, <2>1, <2>2, HandlerKeeps DEF Finish, Stage
<1>4. CASE Crash(s)
  BY <1>4, DieKeeps DEF Crash, Caller
<1> QED BY <1>1, <1>2, <1>3, <1>4 DEF Serve

LEMMA WatchdogKeeps ==
  ASSUME IInv, Watchdog
  PROVE  IInv'
<1> DEFINE WdType == [at : {"idle", "probe"}, left : SUBSET Service,
                      now : Service \cup {None}, dead : SUBSET Service]
<1>1. /\ wd \in WdType /\ known \subseteq Service /\ up \in [Caller -> BOOLEAN]
      /\ UNCHANGED <<call, up, work, asked, kartos>>
  BY DEF IInv, TypeOK, Watchdog, Check, KeepAlive, KeptAlive, Purge
<1>2. None \notin Service
  BY Distinct
<1>3. /\ \A s \in Service \ known : ~up[s]
      /\ \A s \in wd.dead : ~up[s]
      /\ wd.now # None => up[wd.now]
  BY DEF IInv, Truthful
<1>4. /\ known' \subseteq Service /\ wd' \in WdType
      /\ wd'.at = "idle" => wd' = WdIdle
      /\ \A s \in Service \ known' : ~up[s]
      /\ \A s \in wd'.dead : ~up[s]
      /\ wd'.now # None => up[wd'.now]
  <2>1. CASE Check
    <3>1. wd' = [at |-> "probe", left |-> known, now |-> None, dead |-> {}]
      BY <2>1 DEF Check, WdIdle
    <3>2. wd' \in WdType
      BY <1>1, <3>1
    <3>3. wd'.at = "probe" /\ wd'.now = None /\ wd'.dead = {}
      BY <3>1
    <3>4. known' = known
      BY <2>1 DEF Check
    <3> QED BY <1>1, <1>3, <3>2, <3>3, <3>4
  <2>2. ASSUME NEW s \in Service, KeepAlive(s)
        PROVE  <1>4
    <3>1. /\ wd' \in WdType /\ wd'.at = "probe"
          /\ wd'.now = IF up[s] THEN s ELSE None
          /\ wd'.dead = IF up[s] THEN wd.dead ELSE wd.dead \cup {s}
          /\ known' = known
      BY <1>1, <2>2 DEF KeepAlive
    <3> QED BY <1>1, <1>3, <3>1
  <2>3. ASSUME NEW s \in Service, KeptAlive(s)
        PROVE  <1>4
    <3>1. wd.now = s /\ wd.at = "probe"
      <4>1. wd.at = "idle" => wd.now = None
        <5>1. wd.at = "idle" => wd = WdIdle
          BY DEF IInv, TypeOK
        <5> QED BY <5>1 DEF WdIdle
      <4> QED BY <1>1, <1>2, <2>3, <4>1 DEF KeptAlive
    <3>2. /\ wd' \in WdType /\ wd'.at = "probe" /\ wd'.now = None
          /\ wd'.dead = wd.dead /\ known' = known
      BY <1>1, <2>3, <3>1 DEF KeptAlive
    <3> QED BY <1>1, <1>3, <3>2
  <2>4. CASE Purge
    <3>1. wd' = WdIdle /\ known' = known \ wd.dead
      BY <2>4 DEF Purge
    <3>2. wd' \in WdType /\ wd'.dead = {} /\ wd'.now = None
      BY <3>1 DEF WdIdle
    <3> QED BY <1>1, <1>3, <3>1, <3>2
  <2> QED BY <2>1, <2>2, <2>3, <2>4 DEF Watchdog
<1>5. TypeOK' /\ FailureMeansDown'
  BY <1>1, <1>4, SameCalls
<1>6. Truthful'
  BY <1>1, <1>4 DEF Truthful
<1> QED BY <1>5, <1>6 DEF IInv

-----------------------------------------------------------------------------
LEMMA IInvInit ==
  ASSUME Init
  PROVE  IInv
<1>1. TypeOK
  BY Distinct DEF Init, TypeOK, NoCall, WdIdle, Stage, Caller
<1>2. \A c \in Caller : call[c].result = "ok"
  BY DEF Init, NoCall
<1>3. Truthful
  BY Distinct DEF Init, Truthful, WdIdle, Caller
<1> QED BY <1>1, <1>2, <1>3 DEF IInv, FailureMeansDown

LEMMA IInvNext ==
  ASSUME IInv, [Next]_vars
  PROVE  IInv'
<1>1. CASE UNCHANGED vars
  <2>1. up \in [Caller -> BOOLEAN] /\ known \subseteq Service
    BY DEF IInv, TypeOK
  <2>2. /\ wd \in [at : {"idle", "probe"}, left : SUBSET Service,
                  now : Service \cup {None}, dead : SUBSET Service]
        /\ wd.at = "idle" => wd = WdIdle
    BY DEF IInv, TypeOK
  <2>3. TypeOK' /\ FailureMeansDown'
    BY <1>1, <2>1, <2>2, SameCalls DEF vars
  <2> QED BY <1>1, <2>3 DEF vars, IInv, Truthful
<1>2. CASE Next
  BY <1>2, ClientKeeps, LokiKeeps, KartosKeeps, ReceiveKeeps, ServeKeeps,
     KartosQueryKeeps, WatchdogKeeps DEF Next
<1> QED BY <1>1, <1>2

(* A call fails only if the service it was for is down, and every call is  *)
(* on record with the one thread that works on it: for any services, any   *)
(* clients, and any calls of services by services.                         *)
THEOREM Safety == Spec => [](TypeOK /\ FailureMeansDown)
<1>1. Init => IInv
  BY IInvInit
<1>2. IInv /\ [Next]_vars => IInv'
  BY IInvNext
<1> QED BY <1>1, <1>2, PTL DEF Spec, IInv

(* By itself: the records of a call, of the service that runs it, of the   *)
(* Kartos thread and of the Watchdog agree, whoever dies in between.       *)
THEOREM Typing == Spec => []TypeOK
BY Safety, PTL

-----------------------------------------------------------------------------
(* Only circles of threads hold the host up, and circles stay.             *)
(*                                                                         *)
(* A request in the queue of a service has somebody to take it up: this is *)
(* what FailureMeansDown does not need and the rest does.                  *)
Served == \A c \in Caller : call[c].at = "service" => up[call[c].to]

HInv == IInv /\ Served

\* What a step of one call is to the others.
LEMMA OneCall ==
  ASSUME IInv, NEW c \in Caller, NEW stage \in Stage,
         \/ Move(c, stage)
         \/ stage = "running" /\ Run(c)
         \/ \E result \in {"no service", "broken"} : End(c, stage, result)
  PROVE  /\ call'[c].at = stage /\ call'[c].to = call[c].to
         /\ \A d \in Caller : d # c => call'[d] = call[d]
<1>1. call \in [Caller -> CallRecord]
  BY Records DEF IInv
<1>2. CASE Move(c, stage)
  <2>1. /\ call'[c] = [call[c] EXCEPT !.at = stage]
        /\ \A d \in Caller : d # c => call'[d] = call[d]
    BY <1>1, <1>2 DEF Move
  <2>2. call[c] \in CallRecord
    BY <1>1
  <2> QED BY <2>1, <2>2 DEF CallRecord
<1>3. ASSUME NEW result \in {"no service", "broken"}, End(c, stage, result)
      PROVE  /\ call'[c].at = stage /\ call'[c].to = call[c].to
             /\ \A d \in Caller : d # c => call'[d] = call[d]
  <2>1. /\ call'[c] = [call[c] EXCEPT !.at = stage, !.result = result]
        /\ \A d \in Caller : d # c => call'[d] = call[d]
    BY <1>1, <1>3 DEF End
  <2>2. LET new == [call[c] EXCEPT !.at = stage, !.result = result]
        IN  new.at = stage /\ new.to = call[c].to
    BY <1>1 DEF CallRecord
  <2> QED BY <2>1, <2>2
<1>4. CASE stage = "running" /\ Run(c)
  <2>1. /\ call'[c] = [call[c] EXCEPT !.at = "running", !.ran = @ + 1]
        /\ \A d \in Caller : d # c => call'[d] = call[d]
    BY <1>1, <1>4 DEF Run
  <2> QED BY <1>1, <1>4, <2>1, RunRecord
<1> QED BY <1>2, <1>3, <1>4

\* A death leaves the calls alone that are not for the dead, but for a reply
\* that it had not taken.
LEMMA CallsAfterDeath ==
  ASSUME IInv, NEW p \in Caller, Die(p), NEW d \in Caller
  PROVE  /\ d # p /\ ~(call[d].to = p /\ call[d].at \in {"service", "running"})
              => call'[d] = call[d]
         /\ call[d].at \in {"loki", "kartos", "lookup", "connect", "kback", "lback"}
              => call'[d] = call[d]
         /\ call'[d].at = "service" => call'[d] = call[d] /\ call[d].to # p
<1>1. CASE d = p /\ call[d].at = "reply"
  BY <1>1 DEF Die, NoCall
<1>2. CASE call[d].to = p /\ call[d].at \in {"service", "running"}
  <2>1. call'[d] = [call[d] EXCEPT !.at = "kback", !.result = "broken"]
    BY <1>2 DEF Die
  <2>2. call[d] \in CallRecord
    BY CallOf DEF IInv
  <2>3. call'[d].at = "kback"
    BY <2>1, <2>2 DEF CallRecord
  <2> QED BY <1>2, <2>3
<1>3. CASE /\ ~(d = p /\ call[d].at = "reply")
           /\ ~(call[d].to = p /\ call[d].at \in {"service", "running"})
  BY <1>3 DEF Die
<1> QED BY <1>1, <1>2, <1>3

LEMMA ServedNext ==
  ASSUME HInv, [Next]_vars
  PROVE  Served'
<1> USE DEF HInv
<1>1. \A c \in Caller : call[c].at = "service" => call[c].to \in Service /\ up[call[c].to]
  BY CallOf DEF Served, IInv
<1>2. ASSUME NEW c \in Caller, NEW stage \in Stage, UNCHANGED up,
             \/ Move(c, stage)
             \/ stage = "running" /\ Run(c)
             \/ \E result \in {"no service", "broken"} : End(c, stage, result),
             stage = "service" => up[call[c].to]
      PROVE  Served'
  <2>1. /\ call'[c].at = stage /\ call'[c].to = call[c].to
        /\ \A d \in Caller : d # c => call'[d] = call[d]
    BY <1>2, OneCall
  <2> QED BY <1>1, <1>2, <2>1 DEF Served
<1>3. ASSUME NEW c \in Caller, NEW s \in Service, UNCHANGED up,
             call' = Request(c, s)
      PROVE  Served'
  <2>1. /\ call'[c].at = "loki"
        /\ \A d \in Caller : d # c => call'[d] = call[d]
    BY <1>3, Records DEF Request, IInv
  <2> QED BY <1>1, <1>3, <2>1 DEF Served
<1>4. ASSUME NEW p \in Caller, Die(p)
      PROVE  Served'
  <2>1. \A q \in Caller : q # p => up'[q] = up[q]
    BY <1>4, Records DEF Die, IInv
  <2>2. ASSUME NEW d \in Caller, call'[d].at = "service"
        PROVE  up'[call'[d].to]
    <3>1. call'[d] = call[d] /\ call[d].to # p
      BY <1>4, <2>2, CallsAfterDeath
    <3> QED BY <1>1, <2>1, <2>2, <3>1 DEF Caller
  <2> QED BY <2>2 DEF Served
<1>5. ASSUME NEW c \in Client, ClientStep(c)
      PROVE  Served'
  <2>1. c \in Caller
    BY DEF Caller
  <2>2. CASE \E s \in Service : <<c, s>> \in Calls /\ ClientCall(c, s)
    BY <1>3, <2>1, <2>2 DEF ClientCall
  <2>3. CASE ClientStart(c)
    <3>1. call' = call /\ \A s \in Service : up'[s] = up[s]
      <4>1. up \in [Caller -> BOOLEAN]
        BY DEF IInv, TypeOK
      <4> QED BY <2>3, <4>1, Distinct DEF ClientStart, Caller
    <3> QED BY <1>1, <3>1 DEF Served
  <2> QED BY <1>5, <2>2, <2>3 DEF ClientStep
<1>6. ASSUME NEW c \in Caller, Loki(c) \/ Kartos(c)
      PROVE  Served'
  <2>1. CASE LokiRequest(c)
    BY <1>2, <2>1 DEF LokiRequest, Stage
  <2>2. CASE LokiChildDie(c)
    BY <1>2, <2>2 DEF LokiChildDie, Stage
  <2>3. CASE KartosRequest(c)
    BY <1>2, <2>3 DEF KartosRequest, Stage
  <2>4. CASE KartosConnect(c)
    <3>1. \/ Move(c, "service") /\ up[call[c].to]
          \/ End(c, "lback", "broken")
      BY <2>4 DEF KartosConnect
    <3>2. UNCHANGED up
      BY <2>4 DEF KartosConnect
    <3> QED BY <1>2, <3>1, <3>2 DEF Stage
  <2>5. CASE KartosChildDie(c)
    BY <1>2, <2>5 DEF KartosChildDie, Stage
  <2> QED BY <1>6, <2>1, <2>2, <2>3, <2>4, <2>5 DEF Loki, Kartos
<1>7. ASSUME NEW c \in Caller, Receive(c)
      PROVE  Served'
  <2>1. CASE up[c] /\ call[c].result = "broken"
    BY <1>4, <1>7, <2>1 DEF Receive
  <2>2. CASE ~(up[c] /\ call[c].result = "broken")
    <3>1. call' = [call EXCEPT ![c] = NoCall] /\ UNCHANGED up
      BY <1>7, <2>2 DEF Receive
    <3>2. /\ call'[c].at = "none"
          /\ \A d \in Caller : d # c => call'[d] = call[d]
      BY <3>1, Records DEF NoCall, IInv
    <3> QED BY <1>1, <3>1, <3>2 DEF Served
  <2> QED BY <2>1, <2>2
<1>8. ASSUME NEW s \in Service, Serve(s)
      PROVE  Served'
  <2>1. ASSUME NEW c \in Caller, Begin(s, c)
        PROVE  Served'
    BY <1>2, <2>1 DEF Begin, Stage
  <2>2. ASSUME NEW t \in Service, NestedCall(s, t)
        PROVE  Served'
    BY <1>3, <2>2 DEF NestedCall, Caller
  <2>3. CASE Finish(s)
    <3>1. work[s] \in Caller
      BY <2>3 DEF Finish, IInv, TypeOK
    <3> QED BY <1>2, <2>3, <3>1 DEF Finish, Stage
  <2>4. CASE Crash(s)
    BY <1>4, <2>4 DEF Crash, Caller
  <2> QED BY <1>8, <2>1, <2>2, <2>3, <2>4 DEF Serve
<1>9. CASE KartosQuery
  <2>1. kartos \in Caller
    BY <1>9 DEF KartosQuery, IInv, TypeOK
  <2>2. Move(kartos, "connect") \/ End(kartos, "lback", "broken")
    BY <1>9 DEF KartosQuery
  <2>3. UNCHANGED up
    BY <1>9 DEF KartosQuery
  <2> QED BY <1>2, <2>1, <2>2, <2>3 DEF Stage
<1>10. CASE Watchdog
  <2>1. UNCHANGED <<call, up>>
    BY <1>10 DEF Watchdog, Check, KeepAlive, KeptAlive, Purge
  <2> QED BY <2>1 DEF Served
<1>11. CASE UNCHANGED vars
  BY <1>11 DEF vars, Served
<1> QED BY <1>5, <1>6, <1>7, <1>8, <1>9, <1>10, <1>11 DEF Next

LEMMA HInvariant == Spec => []HInv
<1>1. Init => HInv
  <2>1. Init => Served
    BY DEF Init, NoCall, Served
  <2> QED BY <2>1, IInvInit DEF HInv
<1>2. HInv /\ [Next]_vars => HInv'
  <2> SUFFICES ASSUME HInv, [Next]_vars PROVE HInv'
    OBVIOUS
  <2>1. IInv'
    BY IInvNext DEF HInv
  <2> QED BY <2>1, ServedNext DEF HInv
<1> QED BY <1>1, <1>2, PTL DEF Spec

\* If nothing goes on, who waits, waits for one who waits.
LEMMA ItIsACircle ==
  ASSUME HInv, (\E c \in Caller : call[c].at # "none") \/ Locked,
         ~CheckGoesOn, \A c \in Caller : ~CallGoesOn(c)
  PROVE  Stuck
<1> USE DEF HInv
<1> DEFINE All == Service \cup {"Kartos", "Watchdog"}
           W == {p \in All : \E q \in All : WaitsFor(p, q)}
<1>1. Locked => /\ wd.now \in Service /\ work[wd.now] # None
                /\ WaitsFor("Watchdog", wd.now) /\ "Watchdog" \in W
  <2> SUFFICES ASSUME Locked
               PROVE  /\ wd.now \in Service /\ work[wd.now] # None
                      /\ WaitsFor("Watchdog", wd.now) /\ "Watchdog" \in W
    OBVIOUS
  <2>1. wd.now \in Service /\ up[wd.now] /\ work[wd.now] # None
    BY DEF CheckGoesOn, IInv, TypeOK, Truthful
  <2>2. WaitsFor("Watchdog", wd.now)
    BY <2>1 DEF WaitsFor
  <2> QED BY <2>1, <2>2
<1>2. kartos # None => /\ Locked
                       /\ WaitsFor("Kartos", "Watchdog") /\ "Kartos" \in W
  <2>1. kartos # None => kartos \in Caller /\ call[kartos].at = "lookup"
    BY DEF IInv, TypeOK
  <2>2. kartos # None => Locked
    BY <2>1 DEF CallGoesOn
  <2>3. kartos # None => WaitsFor("Kartos", "Watchdog")
    BY <2>2 DEF WaitsFor
  <2> QED BY <2>2, <2>3
<1>3. ASSUME NEW c \in Caller, call[c].at # "none"
      PROVE  \/ call[c].at \in {"kartos", "lookup", "connect", "kback"} /\ kartos # None
             \/ /\ call[c].at \in {"service", "running"}
                /\ call[c].to \in Service /\ work[call[c].to] # None
  <2>1. call[c].at \in Stage /\ call[c].to \in Service
    BY <1>3, CallOf DEF IInv, CallRecord
  <2>2. ~CallGoesOn(c)
    OBVIOUS
  <2>3. CASE call[c].at \in {"kartos", "connect", "kback"}
    BY <2>2, <2>3 DEF CallGoesOn
  <2>4. CASE call[c].at = "lookup"
    <3>1. kartos = c
      BY <2>4 DEF IInv, TypeOK
    <3> QED BY <2>4, <3>1, Distinct DEF Caller
  <2>5. CASE call[c].at = "service"
    BY <2>1, <2>2, <2>5 DEF CallGoesOn, Served
  <2>6. CASE call[c].at = "running"
    <3>1. work[call[c].to] = c
      BY <2>1, <2>6 DEF IInv, TypeOK
    <3> QED BY <2>1, <2>6, <3>1, Distinct DEF Caller
  <2> QED BY <1>3, <2>1, <2>2, <2>3, <2>4, <2>5, <2>6 DEF Stage, CallGoesOn
<1>4. ASSUME NEW s \in Service, call[s].at # "none"
      PROVE  s \in W
  <2>1. CASE call[s].at \in {"kartos", "lookup", "connect", "kback"}
    <3>1. WaitsFor(s, "Kartos")
      BY <2>1 DEF WaitsFor
    <3> QED BY <3>1
  <2>2. CASE call[s].at \in {"service", "running"} /\ call[s].to \in Service
    <3>1. WaitsFor(s, call[s].to)
      BY <2>2 DEF WaitsFor
    <3> QED BY <2>2, <3>1
  <2> QED BY <1>3, <1>4, <2>1, <2>2 DEF Caller
<1>5. ASSUME NEW s \in Service, work[s] # None
      PROVE  s \in W
  <2>1. work[s] \in Caller /\ call[work[s]].at = "running" /\ call[work[s]].to = s
    <3>1. work[s] \in Caller
      BY <1>5 DEF IInv, TypeOK
    <3>2. WorkLink
      BY DEF IInv, TypeOK, WorkLink
    <3> QED BY <3>1, <3>2 DEF WorkLink
  <2>2. call[s] # NoCall
    BY <2>1 DEF CallGoesOn
  <2>3. call[s].at # "none"
    BY <2>2 DEF IInv, TypeOK, Caller
  <2> QED BY <1>4, <2>3
<1>6. ASSUME NEW p \in W
      PROVE  \E q \in W : WaitsFor(p, q)
  <2>1. PICK q \in All : WaitsFor(p, q)
    OBVIOUS
  <2>2. CASE /\ p \in Service
             /\ q = "Kartos" /\ call[p].at \in {"kartos", "lookup", "connect", "kback"}
    <3>1. kartos # None
      BY <1>3, <2>2 DEF Caller
    <3> QED BY <1>2, <2>1, <2>2, <3>1
  <2>3. CASE /\ p \in Service
             /\ q = call[p].to /\ call[p].at \in {"service", "running"}
    <3>1. q \in Service /\ work[q] # None
      BY <1>3, <2>3 DEF Caller
    <3> QED BY <1>5, <2>1, <3>1
  <2>4. CASE q = "Watchdog" /\ Locked
    BY <1>1, <2>1, <2>4
  <2>5. CASE q \in Service /\ work[q] # None
    BY <1>5, <2>1, <2>5
  <2> QED BY <2>1, <2>2, <2>3, <2>4, <2>5 DEF WaitsFor
<1>7. W # {}
  <2>1. CASE Locked
    BY <1>1, <2>1
  <2>2. ASSUME NEW c \in Caller, call[c].at # "none"
        PROVE  W # {}
    <3>1. CASE kartos # None
      BY <1>2, <3>1
    <3>2. CASE call[c].to \in Service /\ work[call[c].to] # None
      BY <1>5, <3>2
    <3> QED BY <1>3, <2>2, <3>1, <3>2
  <2> QED BY <2>1, <2>2
<1>8. W \in (SUBSET All) \ {{}}
  <2>1. W \subseteq All
    OBVIOUS
  <2> HIDE DEF W, All
  <2> QED BY <1>7, <2>1
<1> HIDE DEF W
<1> QED BY <1>6, <1>8 DEF Stuck

-----------------------------------------------------------------------------
\* A set of threads each of which waits for one of them.
Circle(waiting) ==
  /\ waiting \in (SUBSET (Service \cup {"Kartos", "Watchdog"})) \ {{}}
  /\ \A p \in waiting : \E q \in waiting : WaitsFor(p, q)

LEMMA InTheCircle ==
  ASSUME HInv, NEW waiting, Circle(waiting)
  PROVE  /\ "Kartos" \in waiting => kartos # None /\ Locked
         /\ "Watchdog" \in waiting =>
              wd.now \in Service \cap waiting /\ work[wd.now] # None
         /\ \A s \in Service \cap waiting :
              \/ /\ call[s].at \in {"kartos", "lookup", "connect", "kback"}
                 /\ kartos # None /\ Locked /\ "Kartos" \in waiting
              \/ /\ call[s].at \in {"service", "running"}
                 /\ call[s].to \in Service \cap waiting /\ up[call[s].to]
<1>1. "Kartos" \in waiting => kartos # None /\ Locked
  BY Threads DEF Circle, WaitsFor
<1>2. "Watchdog" \in waiting =>
        wd.now \in Service \cap waiting /\ work[wd.now] # None
  BY Threads DEF Circle, WaitsFor
<1>3. ASSUME NEW s \in Service \cap waiting
      PROVE  \/ call[s].at \in {"kartos", "lookup", "connect", "kback"} /\ "Kartos" \in waiting
             \/ call[s].at \in {"service", "running"} /\ call[s].to \in waiting
  BY <1>3, Threads DEF Circle, WaitsFor
<1>4. ASSUME NEW s \in Service, call[s].at \in {"service", "running"}
      PROVE  call[s].to \in Service /\ up[call[s].to]
  <2>1. s \in Caller /\ call[s].to \in Service
    BY <1>4, CallOf DEF HInv, IInv, Caller
  <2>2. CASE call[s].at = "service"
    BY <2>1, <2>2 DEF HInv, Served
  <2>3. CASE call[s].at = "running"
    <3>1. WorkLink /\ \A q \in Service : work[q] # None => up[q]
      BY DEF HInv, IInv, TypeOK, WorkLink
    <3>2. work[call[s].to] = s /\ s # None
      BY <2>1, <2>3, <3>1, Distinct DEF WorkLink, Caller
    <3> QED BY <2>1, <3>1, <3>2
  <2> QED BY <1>4, <2>1, <2>2, <2>3
<1> QED BY <1>1, <1>2, <1>3, <1>4

\* What a step must not do to the threads of a circle.
Spares(waiting) ==
  /\ \A s \in Service \cap waiting :
       /\ call'[s].to = call[s].to
       /\ \/ call'[s].at = call[s].at
          \/ call[s].at = "service" /\ call'[s].at = "running"
  /\ "Kartos" \in waiting => kartos' = kartos
  /\ "Watchdog" \in waiting => wd' = wd /\ work'[wd.now] # None

LEMMA SparedCircle ==
  ASSUME HInv, NEW waiting, Circle(waiting), Spares(waiting)
  PROVE  Stuck'
<1>1. ASSUME NEW p \in waiting
      PROVE  \E q \in waiting : WaitsFor(p, q)'
  <2>1. PICK q \in waiting : WaitsFor(p, q)
    BY DEF Circle
  <2>2. CASE /\ p \in Service
             /\ \/ q = "Kartos" /\ call[p].at \in {"kartos", "lookup", "connect", "kback"}
                \/ q = call[p].to /\ call[p].at \in {"service", "running"}
    <3>1. /\ call'[p].to = call[p].to
          /\ \/ call'[p].at = call[p].at
             \/ call[p].at = "service" /\ call'[p].at = "running"
      BY <2>2 DEF Spares
    <3>2. WaitsFor(p, q)'
      BY <2>2, <3>1 DEF WaitsFor
    <3> QED BY <3>2
  <2>3. CASE p = "Kartos" /\ q = "Watchdog" /\ kartos # None /\ Locked
    <3>1. kartos' # None /\ Locked'
      BY <2>3 DEF Spares, Locked
    <3>2. WaitsFor(p, q)'
      BY <2>3, <3>1 DEF WaitsFor
    <3> QED BY <3>2
  <2>4. CASE p = "Watchdog" /\ q \in Service /\ wd.now = q /\ work[q] # None
    <3>1. wd'.now = q /\ work'[q] # None
      BY <2>4 DEF Spares
    <3>2. WaitsFor(p, q)'
      BY <2>4, <3>1 DEF WaitsFor
    <3> QED BY <3>2
  <2> QED BY <2>1, <2>2, <2>3, <2>4 DEF WaitsFor
<1>2. waiting \in (SUBSET (Service \cup {"Kartos", "Watchdog"})) \ {{}}
  BY DEF Circle
<1>3. Stuck' <=> \E w \in (SUBSET (Service \cup {"Kartos", "Watchdog"})) \ {{}} :
                   \A p \in w : \E q \in w : WaitsFor(p, q)'
  BY DEF Stuck
<1> QED BY <1>1, <1>2, <1>3

\* The members of a circle keep their calls if nobody takes them up.
LEMMA OtherCall ==
  ASSUME HInv, NEW waiting, Circle(waiting), NEW c \in Caller,
         NEW stage \in Stage,
         \/ Move(c, stage)
         \/ stage = "running" /\ Run(c)
         \/ \E result \in {"no service", "broken"} : End(c, stage, result),
         \/ call[c].at \in {"loki", "lback", "reply", "none"}
         \/ call[c].at \in {"kartos", "connect", "kback"} /\ kartos = None
         \/ call[c].at = "lookup" /\ ~Locked
         \/ call[c].at = "service" /\ stage = "running"
         \/ call[c].at = "running" /\ call[call[c].to].at = "none"
  PROVE  \A s \in Service \cap waiting :
           /\ call'[s].to = call[s].to
           /\ \/ call'[s].at = call[s].at
              \/ call[s].at = "service" /\ call'[s].at = "running"
<1>1. /\ call'[c].at = stage /\ call'[c].to = call[c].to
      /\ \A d \in Caller : d # c => call'[d] = call[d]
  BY OneCall DEF HInv
<1>2. ASSUME NEW s \in Service \cap waiting
      PROVE  /\ call'[s].to = call[s].to
             /\ \/ call'[s].at = call[s].at
                \/ call[s].at = "service" /\ call'[s].at = "running"
  <2>1. CASE s # c
    BY <1>1, <2>1 DEF Caller
  <2>2. CASE s = c
    <3>1. \/ call[s].at \in {"kartos", "lookup", "connect", "kback"} /\ kartos # None /\ Locked
          \/ /\ call[s].at \in {"service", "running"}
             /\ call[s].to \in Service \cap waiting
      BY InTheCircle
    <3>2. call[s].at = "running" /\ call[s].to \in Service \cap waiting
            => call[call[s].to].at # "none"
      BY InTheCircle
    <3>3. call[c].at = "service" /\ stage = "running"
      BY <2>2, <3>1, <3>2
    <3> QED BY <1>1, <2>2, <3>3
  <2> QED BY <2>1, <2>2
<1> QED BY <1>2

\* The Watchdog that waits for a busy service is left alone.
LEMMA SameCheck ==
  ASSUME HInv, NEW waiting, Circle(waiting), UNCHANGED wd,
         \/ UNCHANGED work
         \/ \E s \in Service, c \in Caller : work' = [work EXCEPT ![s] = c]
         \/ \E s \in Service : s \notin waiting /\ work' = [work EXCEPT ![s] = None]
  PROVE  "Watchdog" \in waiting => wd' = wd /\ work'[wd.now] # None
<1> SUFFICES ASSUME "Watchdog" \in waiting
             PROVE  work'[wd.now] # None
  OBVIOUS
<1>1. wd.now \in Service \cap waiting /\ work[wd.now] # None
  BY InTheCircle
<1>2. work \in [Service -> Caller \cup {None}] /\ None \notin Caller
  BY Distinct DEF HInv, IInv, TypeOK, Caller
<1> QED BY <1>1, <1>2

\* A death matters to a circle only if it is one of a service.
LEMMA DieSpares ==
  ASSUME HInv, NEW waiting, Circle(waiting), NEW p \in Caller, Die(p),
         UNCHANGED kartos, p \in Service => ~up[p]
  PROVE  Spares(waiting)
<1>1. \A s \in Service : up[s] => s # p
  OBVIOUS
<1>2. ASSUME NEW s \in Service \cap waiting
      PROVE  call'[s] = call[s]
  <2>1. \/ call[s].at \in {"kartos", "lookup", "connect", "kback"}
        \/ /\ call[s].at \in {"service", "running"}
           /\ call[s].to \in Service /\ up[call[s].to]
    BY InTheCircle
  <2>2. CASE call[s].at \in {"kartos", "lookup", "connect", "kback"}
    BY <2>2, CallsAfterDeath DEF HInv, Caller
  <2>3. CASE /\ call[s].at \in {"service", "running"}
             /\ call[s].to \in Service /\ up[call[s].to]
    <3>1. call[s].to # p
      BY <1>1, <2>3
    <3>2. call'[s] = call[s]
      BY <2>3, <3>1 DEF Die, Caller
    <3> QED BY <3>2
  <2> QED BY <2>1, <2>2, <2>3
<1>3. ASSUME "Watchdog" \in waiting
      PROVE  wd' = wd /\ work'[wd.now] # None
  <2>1. wd.now \in Service /\ work[wd.now] # None
    BY <1>3, InTheCircle
  <2>2. up[wd.now]
    BY <2>1 DEF HInv, IInv, TypeOK
  <2>3. wd.now # p
    BY <1>1, <2>1, <2>2
  <2> QED BY <2>1, <2>3 DEF Die
<1> QED BY <1>2, <1>3 DEF Spares

LEMMA StepSpares ==
  ASSUME HInv, [Next]_vars, NEW waiting, Circle(waiting),
         \A s \in Service : up[s] => up'[s]
  PROVE  Spares(waiting)
<1> USE DEF HInv
<1>1. ASSUME NEW p \in Caller, Die(p), UNCHANGED kartos
      PROVE  Spares(waiting)
  <2>1. ~up'[p]
    BY <1>1 DEF Die, IInv, TypeOK
  <2> QED BY <1>1, <2>1, DieSpares
<1>2. ASSUME NEW c \in Caller, NEW s \in Service, call[c] = NoCall,
             call' = Request(c, s), UNCHANGED <<work, kartos, wd>>
      PROVE  Spares(waiting)
  <2>1. ASSUME NEW d \in Service \cap waiting
        PROVE  call'[d] = call[d]
    <3>1. d # c
      BY <1>2, InTheCircle DEF NoCall
    <3> QED BY <1>2, <3>1 DEF Request, IInv, TypeOK, Caller
  <2> QED BY <1>2, <2>1, SameCheck DEF Spares
<1>3. ASSUME NEW c \in Client, ClientStep(c)
      PROVE  Spares(waiting)
  <2>1. CASE \E s \in Service : <<c, s>> \in Calls /\ ClientCall(c, s)
    BY <1>2, <2>1 DEF ClientCall, Caller
  <2>2. CASE ClientStart(c)
    BY <2>2, SameCheck DEF ClientStart, Spares
  <2> QED BY <1>3, <2>1, <2>2 DEF ClientStep
<1>4. ASSUME NEW c \in Caller, Loki(c) \/ Kartos(c)
      PROVE  Spares(waiting)
  <2>1. CASE LokiRequest(c)
    <3>1. UNCHANGED <<work, kartos, wd>>
      BY <2>1 DEF LokiRequest
    <3>2. \A s \in Service \cap waiting :
            /\ call'[s].to = call[s].to
            /\ \/ call'[s].at = call[s].at
               \/ call[s].at = "service" /\ call'[s].at = "running"
      BY <2>1, OtherCall DEF LokiRequest, Stage
    <3> QED BY <3>1, <3>2, SameCheck DEF Spares
  <2>2. CASE LokiChildDie(c)
    <3>1. UNCHANGED <<work, kartos, wd>>
      BY <2>2 DEF LokiChildDie
    <3>2. \A s \in Service \cap waiting :
            /\ call'[s].to = call[s].to
            /\ \/ call'[s].at = call[s].at
               \/ call[s].at = "service" /\ call'[s].at = "running"
      BY <2>2, OtherCall DEF LokiChildDie, Stage
    <3> QED BY <3>1, <3>2, SameCheck DEF Spares
  <2>3. CASE KartosRequest(c)
    <3>1. UNCHANGED <<work, wd>> /\ "Kartos" \notin waiting
      BY <2>3, InTheCircle DEF KartosRequest
    <3>2. \A s \in Service \cap waiting :
            /\ call'[s].to = call[s].to
            /\ \/ call'[s].at = call[s].at
               \/ call[s].at = "service" /\ call'[s].at = "running"
      BY <2>3, OtherCall DEF KartosRequest, Stage
    <3> QED BY <3>1, <3>2, SameCheck DEF Spares
  <2>4. CASE KartosConnect(c)
    <3>1. /\ UNCHANGED <<work, kartos, wd>>
          /\ call[c].at = "connect" /\ kartos = None
          /\ Move(c, "service") \/ End(c, "lback", "broken")
      BY <2>4 DEF KartosConnect
    <3>2. \A s \in Service \cap waiting :
            /\ call'[s].to = call[s].to
            /\ \/ call'[s].at = call[s].at
               \/ call[s].at = "service" /\ call'[s].at = "running"
      BY <3>1, OtherCall DEF Stage
    <3> QED BY <3>1, <3>2, SameCheck DEF Spares
  <2>5. CASE KartosChildDie(c)
    <3>1. UNCHANGED <<work, kartos, wd>>
      BY <2>5 DEF KartosChildDie
    <3>2. \A s \in Service \cap waiting :
            /\ call'[s].to = call[s].to
            /\ \/ call'[s].at = call[s].at
               \/ call[s].at = "service" /\ call'[s].at = "running"
      BY <2>5, OtherCall DEF KartosChildDie, Stage
    <3> QED BY <3>1, <3>2, SameCheck DEF Spares
  <2> QED BY <1>4, <2>1, <2>2, <2>3, <2>4, <2>5 DEF Loki, Kartos
<1>5. ASSUME NEW c \in Caller, Receive(c)
      PROVE  Spares(waiting)
  <2>1. CASE up[c] /\ call[c].result = "broken"
    BY <1>1, <1>5, <2>1 DEF Receive
  <2>2. CASE ~(up[c] /\ call[c].result = "broken")
    <3>1. call' = [call EXCEPT ![c] = NoCall] /\ UNCHANGED <<work, kartos, wd>>
      BY <1>5, <2>2 DEF Receive
    <3>2. ASSUME NEW d \in Service \cap waiting
          PROVE  call'[d] = call[d]
      <4>1. d # c
        BY <1>5, InTheCircle DEF Receive
      <4> QED BY <3>1, <4>1 DEF IInv, TypeOK, Caller
    <3> QED BY <3>1, <3>2, SameCheck DEF Spares
  <2> QED BY <2>1, <2>2
<1>6. ASSUME NEW s \in Service, Serve(s)
      PROVE  Spares(waiting)
  <2>1. ASSUME NEW c \in Caller, Begin(s, c)
        PROVE  Spares(waiting)
    <3>1. UNCHANGED <<kartos, wd>> /\ work' = [work EXCEPT ![s] = c]
      BY <2>1 DEF Begin
    <3>2. \A d \in Service \cap waiting :
            /\ call'[d].to = call[d].to
            /\ \/ call'[d].at = call[d].at
               \/ call[d].at = "service" /\ call'[d].at = "running"
      BY <2>1, OtherCall DEF Begin, Stage
    <3> QED BY <3>1, <3>2, SameCheck DEF Spares
  <2>2. ASSUME NEW t \in Service, NestedCall(s, t)
        PROVE  Spares(waiting)
    BY <1>2, <2>2 DEF NestedCall, Caller
  <2>3. CASE Finish(s)
    <3>1. /\ work[s] \in Caller /\ call[work[s]].at = "running"
          /\ call[work[s]].to = s /\ call[s].at = "none"
      <4>1. work[s] \in Caller
        <5>1. work \in [Service -> Caller \cup {None}]
          BY DEF IInv, TypeOK
        <5> QED BY <2>3, <5>1 DEF Finish
      <4>2. WorkLink
        BY DEF IInv, TypeOK, WorkLink
      <4> QED BY <2>3, <4>1, <4>2 DEF Finish, WorkLink, NoCall
    <3>2. UNCHANGED <<kartos, wd>> /\ work' = [work EXCEPT ![s] = None]
      BY <2>3 DEF Finish
    <3>3. s \notin waiting
      BY <3>1, InTheCircle
    <3>4. \A d \in Service \cap waiting :
            /\ call'[d].to = call[d].to
            /\ \/ call'[d].at = call[d].at
               \/ call[d].at = "service" /\ call'[d].at = "running"
      <4>1. Move(work[s], "kback") /\ "kback" \in Stage
        BY <2>3 DEF Finish, Stage
      <4> QED BY <3>1, <4>1, OtherCall
    <3> QED BY <3>2, <3>3, <3>4, SameCheck DEF Spares
  <2>4. CASE Crash(s)
    BY <1>1, <2>4 DEF Crash, Caller
  <2> QED BY <1>6, <2>1, <2>2, <2>3, <2>4 DEF Serve
<1>7. CASE KartosQuery
  <2>1. UNCHANGED <<work, wd>> /\ "Kartos" \notin waiting
    BY <1>7, InTheCircle DEF KartosQuery
  <2>2. kartos \in Caller /\ call[kartos].at = "lookup" /\ ~Locked
    BY <1>7 DEF KartosQuery, IInv, TypeOK
  <2>3. Move(kartos, "connect") \/ End(kartos, "lback", "broken")
    BY <1>7 DEF KartosQuery
  <2>4. \A d \in Service \cap waiting :
          /\ call'[d].to = call[d].to
          /\ \/ call'[d].at = call[d].at
             \/ call[d].at = "service" /\ call'[d].at = "running"
    BY <2>2, <2>3, OtherCall DEF Stage
  <2> QED BY <2>1, <2>4, SameCheck DEF Spares
<1>8. CASE Watchdog
  <2>1. UNCHANGED <<call, work, kartos>>
    BY <1>8 DEF Watchdog, Check, KeepAlive, KeptAlive, Purge
  <2>2. "Watchdog" \notin waiting
    <3> SUFFICES ASSUME "Watchdog" \in waiting PROVE FALSE
      OBVIOUS
    <3>1. wd.now \in Service /\ work[wd.now] # None
      BY InTheCircle
    <3>2. wd.now # None /\ wd.at # "idle"
      <4>1. wd.at = "idle" => wd = WdIdle
        BY DEF IInv, TypeOK
      <4> QED BY <3>1, <4>1, Distinct DEF WdIdle
    <3> QED BY <1>8, <3>1, <3>2 DEF Watchdog, Check, KeepAlive, KeptAlive, Purge
  <2> QED BY <2>1, <2>2 DEF Spares
<1>9. CASE UNCHANGED vars
  <2>1. UNCHANGED <<call, work, kartos, wd>>
    BY <1>9 DEF vars
  <2> QED BY <2>1, SameCheck DEF Spares
<1> QED BY <1>3, <1>4, <1>5, <1>6, <1>7, <1>8, <1>9 DEF Next

(* While a call or a Check is not over, somebody has a step to make for it *)
(* or threads wait for each other: for any services, clients and calls,    *)
(* and whatever has crashed.  This is the part of CallsEnd and ChecksEnd   *)
(* that needs no fairness.                                                 *)
THEOREM GoingOn == Spec => []OnlyCirclesHoldUp
<1>1. HInv => OnlyCirclesHoldUp
  BY ItIsACircle DEF OnlyCirclesHoldUp
<1> QED BY <1>1, HInvariant, PTL

(* Nothing but the crash of a service undoes a circle of waiting threads:  *)
(* no client, no thread outside of it, no Check and no new call.           *)
THEOREM Standstill == Spec => CircleHolds
<1>1. HInv /\ [Next]_vars => (Stuck => Stuck' \/ \E s \in Service : up[s] /\ ~up'[s])
  <2> SUFFICES ASSUME HInv, [Next]_vars, Stuck,
                      \A s \in Service : up[s] => up'[s]
               PROVE  Stuck'
    OBVIOUS
  <2>1. PICK waiting \in (SUBSET (Service \cup {"Kartos", "Watchdog"})) \ {{}} :
          \A p \in waiting : \E q \in waiting : WaitsFor(p, q)
    BY DEF Stuck
  <2>2. Circle(waiting)
    BY <2>1 DEF Circle
  <2>3. Spares(waiting)
    BY <2>2, StepSpares
  <2> QED BY <2>2, <2>3, SparedCircle
<1> QED BY <1>1, HInvariant, PTL DEF Spec, CircleHolds

-----------------------------------------------------------------------------
(* Each call by itself: how a step may change its record, and that this is *)
(* a step of CallSpec.                                                     *)

\* Where a record goes from one stage to the next with nothing else changed.
Onward == {<<"loki", "kartos">>, <<"kartos", "lookup">>, <<"lookup", "connect">>,
           <<"connect", "service">>, <<"running", "kback">>, <<"kback", "lback">>,
           <<"lback", "reply">>}

Way(r, q) ==
  \/ q = r
  \/ r = NoCall /\ q.at = "loki" /\ q.result = "ok" /\ q.ran = 0
  \/ <<r.at, q.at>> \in Onward /\ q.result = r.result /\ q.ran = r.ran
  \/ /\ r.at = "loki" /\ q.at = "reply" /\ q.ran = r.ran
     /\ q.result \in {"no service", "broken"}
  \/ /\ r.at \in {"lookup", "connect"} /\ q.at = "lback"
     /\ q.result = "broken" /\ q.ran = r.ran
  \/ r.at = "service" /\ q.at = "running" /\ q.result = r.result /\ q.ran = r.ran + 1
  \/ /\ r.at \in {"service", "running"} /\ q.at = "kback"
     /\ q.result = "broken" /\ q.ran = r.ran
  \/ r.at = "reply" /\ q = NoCall

\* The whole record of the one call that a step is about.
LEMMA WholeRecord ==
  ASSUME IInv, NEW c \in Caller, NEW stage \in Stage
  PROVE  /\ Move(c, stage) => /\ call'[c].at = stage /\ call'[c].ran = call[c].ran
                              /\ call'[c].result = call[c].result
         /\ Run(c) => /\ call'[c].at = "running" /\ call'[c].ran = call[c].ran + 1
                      /\ call'[c].result = call[c].result
         /\ \A result \in {"no service", "broken"} :
              End(c, stage, result) => /\ call'[c].at = stage
                                       /\ call'[c].ran = call[c].ran
                                       /\ call'[c].result = result
         /\ Move(c, stage) \/ Run(c)
              \/ (\E result \in {"no service", "broken"} : End(c, stage, result))
              => \A d \in Caller : d # c => call'[d] = call[d]
<1>1. call \in [Caller -> CallRecord] /\ call[c] \in CallRecord
  BY DEF IInv, TypeOK, CallRecord
<1>2. ASSUME Move(c, stage)
      PROVE  /\ call'[c].at = stage /\ call'[c].ran = call[c].ran
             /\ call'[c].result = call[c].result
             /\ \A d \in Caller : d # c => call'[d] = call[d]
  <2>1. /\ call'[c] = [call[c] EXCEPT !.at = stage]
        /\ \A d \in Caller : d # c => call'[d] = call[d]
    BY <1>1, <1>2 DEF Move
  <2> QED BY <1>1, <2>1 DEF CallRecord
<1>3. ASSUME Run(c)
      PROVE  /\ call'[c].at = "running" /\ call'[c].ran = call[c].ran + 1
             /\ call'[c].result = call[c].result
             /\ \A d \in Caller : d # c => call'[d] = call[d]
  <2>1. /\ call'[c] = [call[c] EXCEPT !.at = "running", !.ran = @ + 1]
        /\ \A d \in Caller : d # c => call'[d] = call[d]
    BY <1>1, <1>3 DEF Run
  <2> QED BY <1>1, <2>1, RunRecord
<1>4. ASSUME NEW result \in {"no service", "broken"}, End(c, stage, result)
      PROVE  /\ call'[c].at = stage /\ call'[c].ran = call[c].ran
             /\ call'[c].result = result
             /\ \A d \in Caller : d # c => call'[d] = call[d]
  <2>1. /\ call'[c] = [call[c] EXCEPT !.at = stage, !.result = result]
        /\ \A d \in Caller : d # c => call'[d] = call[d]
    BY <1>1, <1>4 DEF End
  <2>2. LET new == [call[c] EXCEPT !.at = stage, !.result = result]
        IN  new.at = stage /\ new.ran = call[c].ran /\ new.result = result
    BY <1>1 DEF CallRecord
  <2> QED BY <2>1, <2>2
<1> QED BY <1>2, <1>3, <1>4

LEMMA DieWay ==
  ASSUME IInv, NEW p \in Caller, Die(p), NEW d \in Caller
  PROVE  Way(call[d], call'[d])
<1>1. CASE d = p /\ call[d].at = "reply"
  BY <1>1 DEF Die, Way
<1>2. CASE call[d].to = p /\ call[d].at \in {"service", "running"}
  <2>1. call'[d] = [call[d] EXCEPT !.at = "kback", !.result = "broken"]
    BY <1>2 DEF Die
  <2>2. call[d] \in CallRecord
    BY CallOf DEF IInv
  <2>3. call'[d].at = "kback" /\ call'[d].result = "broken" /\ call'[d].ran = call[d].ran
    BY <2>1, <2>2 DEF CallRecord
  <2> QED BY <1>2, <2>3 DEF Way
<1>3. CASE /\ ~(d = p /\ call[d].at = "reply")
           /\ ~(call[d].to = p /\ call[d].at \in {"service", "running"})
  BY <1>3 DEF Die, Way
<1> QED BY <1>1, <1>2, <1>3

LEMMA RequestWay ==
  ASSUME IInv, NEW c \in Caller, NEW s \in Service, call[c] = NoCall,
         call' = Request(c, s), NEW d \in Caller
  PROVE  Way(call[d], call'[d])
<1>1. /\ call'[c] = [at |-> "loki", to |-> s, result |-> "ok", ran |-> 0]
      /\ \A e \in Caller : e # c => call'[e] = call[e]
  BY Records DEF Request, IInv
<1>2. /\ call'[c].at = "loki" /\ call'[c].result = "ok" /\ call'[c].ran = 0
      /\ d # c => call'[d] = call[d]
  BY <1>1
<1>3. CASE d = c
  BY <1>2, <1>3 DEF Way
<1>4. CASE d # c
  BY <1>2, <1>4 DEF Way
<1> QED BY <1>3, <1>4

LEMMA ThreadWay ==
  ASSUME IInv, NEW c \in Caller, Loki(c) \/ Kartos(c), NEW d \in Caller
  PROVE  Way(call[d], call'[d])
<1>1. CASE LokiRequest(c)
  <2>1. \/ Move(c, "kartos")
        \/ \E result \in {"no service", "broken"} : End(c, "reply", result)
    BY <1>1 DEF LokiRequest
  <2>2. call[c].at = "loki"
    BY <1>1 DEF LokiRequest
  <2>3. CASE Move(c, "kartos")
    BY <2>2, <2>3, WholeRecord DEF Way, Onward, Stage
  <2>4. CASE \E result \in {"no service", "broken"} : End(c, "reply", result)
    BY <2>2, <2>4, WholeRecord DEF Way, Stage
  <2> QED BY <2>1, <2>3, <2>4
<1>2. CASE LokiChildDie(c)
  BY <1>2, WholeRecord DEF LokiChildDie, Way, Onward, Stage
<1>3. CASE KartosRequest(c)
  BY <1>3, WholeRecord DEF KartosRequest, Way, Onward, Stage
<1>4. CASE KartosConnect(c)
  <2>1. /\ call[c].at = "connect"
        /\ Move(c, "service") \/ End(c, "lback", "broken")
    BY <1>4 DEF KartosConnect
  <2> QED BY <2>1, WholeRecord DEF Way, Onward, Stage
<1>5. CASE KartosChildDie(c)
  BY <1>5, WholeRecord DEF KartosChildDie, Way, Onward, Stage
<1> QED BY <1>1, <1>2, <1>3, <1>4, <1>5 DEF Loki, Kartos

LEMMA StepWay ==
  ASSUME IInv, [Next]_vars, NEW d \in Caller
  PROVE  Way(call[d], call'[d])
<1>1. ASSUME NEW c \in Client, ClientStep(c)
      PROVE  Way(call[d], call'[d])
  <2>1. CASE \E s \in Service : <<c, s>> \in Calls /\ ClientCall(c, s)
    BY <2>1, RequestWay DEF ClientCall, Caller
  <2>2. CASE ClientStart(c)
    BY <2>2 DEF ClientStart, Way
  <2> QED BY <1>1, <2>1, <2>2 DEF ClientStep
<1>2. ASSUME NEW c \in Caller, Receive(c)
      PROVE  Way(call[d], call'[d])
  <2>1. CASE up[c] /\ call[c].result = "broken"
    BY <1>2, <2>1, DieWay DEF Receive
  <2>2. CASE ~(up[c] /\ call[c].result = "broken")
    <3>1. call' = [call EXCEPT ![c] = NoCall] /\ call[c].at = "reply"
      BY <1>2, <2>2 DEF Receive
    <3>2. /\ call'[c] = NoCall
          /\ \A e \in Caller : e # c => call'[e] = call[e]
      BY <3>1, Records DEF IInv
    <3> QED BY <3>1, <3>2 DEF Way
  <2> QED BY <2>1, <2>2
<1>3. ASSUME NEW s \in Service, Serve(s)
      PROVE  Way(call[d], call'[d])
  <2>1. ASSUME NEW c \in Caller, Begin(s, c)
        PROVE  Way(call[d], call'[d])
    BY <2>1, WholeRecord DEF Begin, Way, Stage
  <2>2. ASSUME NEW t \in Service, NestedCall(s, t)
        PROVE  Way(call[d], call'[d])
    BY <2>2, RequestWay DEF NestedCall, Caller
  <2>3. CASE Finish(s)
    <3>1. work[s] \in Caller /\ call[work[s]].at = "running"
      <4>1. work[s] \in Caller
        BY <2>3 DEF Finish, IInv, TypeOK
      <4>2. WorkLink
        BY DEF IInv, TypeOK, WorkLink
      <4> QED BY <4>1, <4>2 DEF WorkLink
    <3> QED BY <2>3, <3>1, WholeRecord DEF Finish, Way, Onward, Stage
  <2>4. CASE Crash(s)
    BY <2>4, DieWay DEF Crash, Caller
  <2> QED BY <1>3, <2>1, <2>2, <2>3, <2>4 DEF Serve
<1>4. CASE KartosQuery
  <2>1. kartos \in Caller /\ call[kartos].at = "lookup"
    BY <1>4 DEF KartosQuery, IInv, TypeOK
  <2>2. Move(kartos, "connect") \/ End(kartos, "lback", "broken")
    BY <1>4 DEF KartosQuery
  <2> QED BY <2>1, <2>2, WholeRecord DEF Way, Onward, Stage
<1>5. CASE Watchdog
  BY <1>5 DEF Watchdog, Check, KeepAlive, KeptAlive, Purge, Way
<1>6. CASE UNCHANGED vars
  BY <1>6 DEF vars, Way
<1> QED BY <1>1, <1>2, <1>3, <1>4, <1>5, <1>6, ThreadWay DEF Next

-----------------------------------------------------------------------------
\* Whether a handler ran for a call, as far as its stage and result tell.
Fits(r) ==
  /\ r.at \in {"none", "loki", "kartos", "lookup", "connect", "service"}
       => r.ran = 0 /\ r.result = "ok"
  /\ r.at = "running" => r.ran = 1 /\ r.result = "ok"
  /\ r.at \in {"kback", "lback", "reply"} => (r.result = "ok" => r.ran = 1)
  /\ r.result = "no service" => r.at = "reply" /\ r.ran = 0

Books == \A c \in Caller : Fits(call[c])

LEMMA FitsOn ==
  ASSUME NEW r \in CallRecord, NEW q, Fits(r), Way(r, q)
  PROVE  Fits(q)
<1>1. CASE q = r
  BY <1>1
<1>2. CASE q = NoCall
  BY <1>2 DEF Fits, NoCall
<1>3. CASE r = NoCall /\ q.at = "loki" /\ q.result = "ok" /\ q.ran = 0
  BY <1>3 DEF Fits
<1>4. CASE <<r.at, q.at>> \in Onward /\ q.result = r.result /\ q.ran = r.ran
  BY <1>4 DEF Fits, Onward
<1>5. CASE /\ r.at = "loki" /\ q.at = "reply" /\ q.ran = r.ran
           /\ q.result \in {"no service", "broken"}
  BY <1>5 DEF Fits
<1>6. CASE /\ r.at \in {"lookup", "connect"} /\ q.at = "lback"
           /\ q.result = "broken" /\ q.ran = r.ran
  BY <1>6 DEF Fits
<1>7. CASE r.at = "service" /\ q.at = "running" /\ q.result = r.result /\ q.ran = r.ran + 1
  <2>1. r.ran = 0 /\ r.result = "ok"
    BY <1>7 DEF Fits
  <2>2. q.at = "running" /\ q.ran = 1 /\ q.result = "ok"
    BY <1>7, <2>1
  <2> QED BY <2>2 DEF Fits
<1>8. CASE /\ r.at \in {"service", "running"} /\ q.at = "kback"
           /\ q.result = "broken" /\ q.ran = r.ran
  BY <1>8 DEF Fits
<1> QED BY <1>1, <1>2, <1>3, <1>4, <1>5, <1>6, <1>7, <1>8 DEF Way

\* Every way of a record is a step of CallSpec, or none.
LEMMA CallImplemented ==
  ASSUME IInv, IInv', [Next]_vars, Books, NEW c \in Caller
  PROVE  Promise(c)!Next \/ UNCHANGED Promise(c)!vars
<1> DEFINE r == call[c]
           q == call'[c]
<1>1. /\ Way(r, q) /\ Fits(r) /\ Fits(q)
      /\ r \in CallRecord
  BY StepWay, FitsOn, CallOf DEF Books, IInv
<1>2. /\ r.result \in {"ok", "no service", "broken"}
      /\ q.result \in {"ok", "no service", "broken"}
  <2>1. /\ call \in [Caller -> CallRecord]
        /\ call' \in [Caller -> CallRecord]
    BY DEF IInv, TypeOK, CallRecord
  <2>2. r \in CallRecord /\ q \in CallRecord
    BY <2>1
  <2> QED BY <2>2 DEF CallRecord
<1>3. Outcome(call[c])' = Outcome(q)
  BY DEF Outcome
<1>4. /\ r.at = "none" => Outcome(r) = "none"
      /\ r.at \notin {"none", "reply"} => Outcome(r) = "waiting"
      /\ r.at = "reply" => Outcome(r) \in {"answered", "refused", "broken"}
  BY <1>2 DEF Outcome
<1>5. CASE q = r
  BY <1>3, <1>5 DEF Promise!vars
<1>6. CASE r = NoCall /\ q.at = "loki" /\ q.result = "ok" /\ q.ran = 0
  <2>1. Outcome(r) = "none" /\ Outcome(q) = "waiting" /\ r.ran = 0
    BY <1>2, <1>4, <1>6 DEF Outcome, NoCall
  <2> QED BY <1>3, <1>6, <2>1 DEF Promise!Next, Promise!Ask
<1>7. CASE <<r.at, q.at>> \in Onward /\ q.result = r.result /\ q.ran = r.ran
  <2>1. Outcome(r) = "waiting"
    BY <1>4, <1>7 DEF Onward
  <2>2. CASE q.at # "reply"
    <3>1. Outcome(q) = "waiting"
      BY <1>2, <1>7, <2>2 DEF Outcome, Onward
    <3> QED BY <1>3, <1>7, <2>1, <3>1 DEF Promise!vars
  <2>3. CASE q.at = "reply"
    <3>1. r.at = "lback"
      BY <1>7, <2>3 DEF Onward
    <3>2. \/ q.result = "ok" /\ q.ran = 1
          \/ q.result = "broken"
      BY <1>1, <1>2, <1>7, <2>3, <3>1 DEF Fits
    <3>3. CASE q.result = "ok" /\ q.ran = 1
      <4>1. Outcome(q) = "answered"
        BY <1>2, <2>3, <3>3 DEF Outcome
      <4> QED BY <1>3, <1>7, <2>1, <3>3, <4>1 DEF Promise!Next, Promise!Answer, Promise!End
    <3>4. CASE q.result = "broken"
      <4>1. Outcome(q) = "broken"
        BY <1>2, <2>3, <3>4 DEF Outcome
      <4> QED BY <1>3, <1>7, <2>1, <4>1 DEF Promise!Next, Promise!Break, Promise!End
    <3> QED BY <3>2, <3>3, <3>4
  <2> QED BY <2>2, <2>3
<1>8. CASE /\ r.at = "loki" /\ q.at = "reply" /\ q.ran = r.ran
           /\ q.result \in {"no service", "broken"}
  <2>1. Outcome(r) = "waiting" /\ r.ran = 0
    BY <1>1, <1>4, <1>8 DEF Fits
  <2>2. CASE q.result = "no service"
    <3>1. Outcome(q) = "refused"
      BY <1>2, <1>8, <2>2 DEF Outcome
    <3> QED BY <1>3, <1>8, <2>1, <3>1 DEF Promise!Next, Promise!Refuse, Promise!End
  <2>3. CASE q.result = "broken"
    <3>1. Outcome(q) = "broken"
      BY <1>2, <1>8, <2>3 DEF Outcome
    <3> QED BY <1>3, <1>8, <2>1, <3>1 DEF Promise!Next, Promise!Break, Promise!End
  <2> QED BY <1>8, <2>2, <2>3
<1>9. CASE \/ /\ r.at \in {"lookup", "connect"} /\ q.at = "lback"
              /\ q.result = "broken" /\ q.ran = r.ran
           \/ /\ r.at \in {"service", "running"} /\ q.at = "kback"
              /\ q.result = "broken" /\ q.ran = r.ran
  <2>1. Outcome(r) = "waiting" /\ Outcome(q) = "waiting" /\ q.ran = r.ran
    BY <1>2, <1>4, <1>9 DEF Outcome
  <2> QED BY <1>3, <2>1 DEF Promise!vars
<1>10. CASE r.at = "service" /\ q.at = "running" /\ q.result = r.result /\ q.ran = r.ran + 1
  <2>1. Outcome(r) = "waiting" /\ Outcome(q) = "waiting" /\ r.ran = 0
    BY <1>1, <1>2, <1>4, <1>10 DEF Outcome, Fits
  <2>2. q.ran = 1
    BY <1>10, <2>1
  <2> QED BY <1>3, <2>1, <2>2 DEF Promise!Next, Promise!Run
<1>11. CASE r.at = "reply" /\ q = NoCall
  <2>1. Outcome(q) = "none" /\ q.ran = 0
    <3>1. q.at = "none" /\ q.ran = 0
      BY <1>11 DEF NoCall
    <3> QED BY <3>1 DEF Outcome
  <2>2. Outcome(r) \notin {"none", "waiting"}
    BY <1>4, <1>11
  <2> QED BY <1>3, <2>1, <2>2 DEF Promise!Next, Promise!Return
<1> QED BY <1>1, <1>5, <1>6, <1>7, <1>8, <1>9, <1>10, <1>11 DEF Way

(* Every call that a host has under way is a call as CallSpec has it, for  *)
(* any services, clients and calls of services by services, whatever       *)
(* becomes of the services and of the other calls.                         *)
THEOREM Refinement == Spec => ImplementsCalls
<1>1. Init => \A c \in Caller : Promise(c)!Init
  <2> SUFFICES ASSUME Init, NEW c \in Caller
               PROVE  Outcome(call[c]) = "none" /\ call[c].ran = 0
    BY DEF Promise!Init
  <2>1. call[c].at = "none" /\ call[c].ran = 0
    BY DEF Init, NoCall
  <2> QED BY <2>1 DEF Outcome
<1>2. Init => Books
  <2> SUFFICES ASSUME Init, NEW c \in Caller
               PROVE  Fits(call[c])
    BY DEF Books
  <2>1. call[c].at = "none" /\ call[c].ran = 0 /\ call[c].result = "ok"
    BY DEF Init, NoCall
  <2> QED BY <2>1 DEF Fits
<1>3. IInv /\ Books /\ [Next]_vars => Books'
  <2> SUFFICES ASSUME IInv, Books, [Next]_vars, NEW c \in Caller
               PROVE  Fits(call'[c])
    BY DEF Books, Fits
  <2> QED BY StepWay, FitsOn, CallOf DEF Books, IInv
<1>4. IInv /\ IInv' /\ Books /\ [Next]_vars =>
        \A c \in Caller : Promise(c)!Next \/ UNCHANGED Promise(c)!vars
  BY CallImplemented
<1>5. Spec => []IInv
  BY HInvariant, PTL DEF HInv
<1> QED BY <1>1, <1>2, <1>3, <1>4, <1>5, PTL DEF Spec, ImplementsCalls
=============================================================================
