---------------------------- MODULE RWLockProofs ----------------------------
(***************************************************************************)
(* What blmesh/rw_lock.h guarantees for any number of threads.             *)
(*                                                                         *)
(* Mutual exclusion is not inductive by itself: that the counters let a    *)
(* thread in only when nobody is inside needs CountersExact, that clearing *)
(* is_wrtiting_ leaves no writer behind needs MutualExclusion, and both    *)
(* need the types.                                                         *)
(***************************************************************************)
EXTENDS RWLock, FiniteSetTheorems, TLAPS

IInv == TypeOK /\ CountersExact /\ MutualExclusion

LEMMA AtFinite ==
  /\ \A q : IsFiniteSet(At(q))
  /\ IsFiniteSet(InWrite)
<1>1. \A q : At(q) \in SUBSET Thread
  BY DEF At
<1>2. InWrite \in SUBSET Thread
  BY DEF InWrite
<1> QED BY <1>1, <1>2, ThreadFinite, FS_Subset

\* A zero counter means what the code takes it to mean.
LEMMA CountersRead ==
  ASSUME TypeOK, CountersExact
  PROVE  /\ read_cnt = 0 <=> At("read") = {}
         /\ write_cnt = 0 <=> InWrite = {}
  BY AtFinite, FS_EmptySet DEF TypeOK, CountersExact

\* Where the threads are after t, and nobody else, has moved.
LEMMA GotoEffect ==
  ASSUME NEW t \in Thread, NEW p \in Place, pc \in [Thread -> Place], Goto(t, p)
  PROVE  /\ pc' \in [Thread -> Place]
         /\ \A q : At(q)' = IF q = p THEN At(q) \cup {t} ELSE At(q) \ {t}
         /\ InWrite' = IF p \in WriterPlace THEN InWrite \cup {t} ELSE InWrite \ {t}
<1>1. /\ pc' \in [Thread -> Place]
      /\ \A u \in Thread : pc'[u] = IF u = t THEN p ELSE pc[u]
  BY DEF Goto
<1>2. \A q : At(q)' = IF q = p THEN At(q) \cup {t} ELSE At(q) \ {t}
  BY <1>1 DEF At
<1>3. InWrite' = IF p \in WriterPlace THEN InWrite \cup {t} ELSE InWrite \ {t}
  BY <1>1 DEF InWrite
<1> QED BY <1>1, <1>2, <1>3

\* Where the threads are after t has left and notified the sleepers in woken.
LEMMA ReleaseEffect ==
  ASSUME NEW t \in Thread, NEW woken \in SUBSET Thread,
         pc \in [Thread -> Place], pc[t] \in {"read", "write"},
         \A u \in woken : pc[u] \in {"rsleep", "wsleep"},
         Release(t, woken)
  PROVE  /\ pc' \in [Thread -> Place]
         /\ At("read")' = At("read") \ {t}
         /\ At("write")' = At("write") \ {t}
         /\ InWrite' = InWrite \ {t}
         /\ At("rsleep")' = At("rsleep") \ woken
         /\ At("wsleep")' = At("wsleep") \ woken
         /\ At("wwake")' = At("wwake") \cup (At("wsleep") \cap woken)
         /\ At("wsleep")' \cup At("wwake")' = At("wsleep") \cup At("wwake")
<1>1. \A u \in Thread :
        pc'[u] = IF u = t THEN "idle"
                 ELSE IF u \notin woken THEN pc[u]
                 ELSE IF pc[u] = "rsleep" THEN "rwake" ELSE "wwake"
  BY DEF Release
<1>2. pc' \in [Thread -> Place]
  BY DEF Release, Place
<1>3. /\ At("read")' = At("read") \ {t}
      /\ At("write")' = At("write") \ {t}
  BY <1>1 DEF At
<1>4. InWrite' = InWrite \ {t}
  BY <1>1 DEF InWrite, WriterPlace
<1>5. At("rsleep")' = At("rsleep") \ woken
  BY <1>1 DEF At
<1>6. /\ At("wsleep")' = At("wsleep") \ woken
      /\ At("wwake")' = At("wwake") \cup (At("wsleep") \cap woken)
  BY <1>1 DEF At
<1> QED BY <1>2, <1>3, <1>4, <1>5, <1>6

\* The sleepers that the two unlock operations may choose.
LEMMA Sleepers ==
  /\ \A q : \A woken \in OneOf(At(q)) : woken \subseteq At(q)
  /\ \A q : At(q) # {} => \A woken \in OneOf(At(q)) : woken # {}
  BY DEF OneOf

-----------------------------------------------------------------------------
\* The three operations on the counters that an action performs, on the sets
\* they count.
LEMMA CountAdd ==
  ASSUME NEW S, NEW T, NEW t, NEW n \in Nat, NEW m,
         IsFiniteSet(S), n = Cardinality(S), t \notin S,
         T = S \cup {t}, m = n + 1
  PROVE  m \in Nat /\ m = Cardinality(T)
  BY FS_AddElement

LEMMA CountRemove ==
  ASSUME NEW S, NEW T, NEW t, NEW n \in Nat, NEW m,
         IsFiniteSet(S), n = Cardinality(S), t \in S,
         T = S \ {t}, m = n - 1
  PROVE  m \in Nat /\ m = Cardinality(T)
<1>1. n # 0
  BY FS_EmptySet
<1> QED BY <1>1, FS_RemoveElement

\* MutualExclusion, said of the sets the threads are in.
LEMMA ExclusionOfSets ==
  ASSUME TypeOK
  PROVE  MutualExclusion <=>
           \A t \in At("write") : At("write") = {t} /\ At("read") = {}
  BY DEF MutualExclusion, At, TypeOK

-----------------------------------------------------------------------------
\* One lemma per shape of step: the wait of a reader, the wait of a writer,
\* and the two ways out.

LEMMA TryReadKeeps ==
  ASSUME IInv, NEW t \in Thread, pc[t] \in {"idle", "rwake"},
         TryRead(t), UNCHANGED <<write_cnt, is_writing>>
  PROVE  IInv'
<1> USE DEF IInv, TypeOK
<1>1. /\ t \notin At("read") /\ t \notin At("write") /\ t \notin InWrite
      /\ "read" \in Place /\ "rsleep" \in Place
  BY DEF At, InWrite, WriterPlace, Place
<1>2. CASE write_cnt = 0 /\ read_cnt' = read_cnt + 1 /\ Goto(t, "read")
  <2>1. /\ pc' \in [Thread -> Place]
        /\ At("read")' = At("read") \cup {t}
        /\ At("write")' = At("write")
        /\ InWrite' = InWrite
    BY <1>1, <1>2, GotoEffect DEF WriterPlace
  <2>2. At("write") = {}
    BY <1>2, CountersRead DEF At, InWrite, WriterPlace
  <2>3. read_cnt' \in Nat /\ read_cnt' = Cardinality(At("read")')
    BY <1>1, <1>2, <2>1, AtFinite, CountAdd DEF CountersExact
  <2>4. TypeOK' /\ CountersExact'
    BY <2>1, <2>3 DEF CountersExact
  <2>5. MutualExclusion'
    BY <2>1, <2>2 DEF MutualExclusion, At
  <2> QED BY <2>4, <2>5
<1>3. CASE UNCHANGED read_cnt /\ Goto(t, "rsleep")
  <2>1. pc' \in [Thread -> Place] /\ InWrite' = InWrite
    BY <1>1, <1>3, GotoEffect DEF WriterPlace
  <2>2. At("read")' = At("read") /\ At("write")' = At("write")
    BY <1>1, <1>3, GotoEffect
  <2>3. TypeOK' /\ CountersExact'
    BY <1>3, <2>1, <2>2 DEF CountersExact
  <2>4. MutualExclusion'
    BY <2>2 DEF MutualExclusion, At
  <2> QED BY <2>3, <2>4
<1> QED BY <1>2, <1>3 DEF TryRead

LEMMA TryWriteKeeps ==
  ASSUME IInv, NEW t \in Thread, pc[t] \in {"idle", "wwake"},
         TryWrite(t), UNCHANGED read_cnt,
         write_cnt' \in Nat, write_cnt' = Cardinality(InWrite \cup {t})
  PROVE  IInv'
<1> USE DEF IInv, TypeOK
<1>1. /\ t \notin At("read") /\ t \notin At("write")
      /\ "write" \in Place /\ "wsleep" \in Place
  BY DEF At, Place
<1>2. CASE read_cnt = 0 /\ ~is_writing /\ is_writing' = TRUE /\ Goto(t, "write")
  <2>1. /\ pc' \in [Thread -> Place]
        /\ At("read")' = At("read")
        /\ At("write")' = At("write") \cup {t}
        /\ InWrite' = InWrite \cup {t}
    BY <1>1, <1>2, GotoEffect DEF WriterPlace
  <2>2. At("read") = {} /\ At("write") = {}
    BY <1>2, CountersRead DEF CountersExact
  <2>3. TypeOK' /\ CountersExact'
    BY <1>2, <2>1 DEF CountersExact
  <2>4. MutualExclusion'
    BY <2>1, <2>2 DEF MutualExclusion, At
  <2> QED BY <2>3, <2>4
<1>3. CASE UNCHANGED is_writing /\ Goto(t, "wsleep")
  <2>1. /\ pc' \in [Thread -> Place]
        /\ At("read")' = At("read")
        /\ At("write")' = At("write")
        /\ InWrite' = InWrite \cup {t}
    BY <1>1, <1>3, GotoEffect DEF WriterPlace
  <2>2. TypeOK' /\ CountersExact'
    BY <1>3, <2>1 DEF CountersExact
  <2>3. MutualExclusion'
    BY <2>1 DEF MutualExclusion, At
  <2> QED BY <2>2, <2>3
<1> QED BY <1>2, <1>3 DEF TryWrite

LEMMA UnlockReadKeeps ==
  ASSUME IInv, NEW t \in Thread, UnlockRead(t)
  PROVE  IInv'
<1> USE DEF IInv, TypeOK
<1>1. PICK woken \in SUBSET At("wsleep") : Release(t, woken)
  BY Sleepers DEF UnlockRead
<1>2. /\ pc' \in [Thread -> Place]
      /\ At("read")' = At("read") \ {t}
      /\ At("write")' = At("write") \ {t}
      /\ InWrite' = InWrite \ {t}
  BY <1>1, ReleaseEffect DEF UnlockRead, At
<1>3. t \in At("read") /\ t \notin At("write") /\ t \notin InWrite
  BY DEF UnlockRead, At, InWrite, WriterPlace
<1>4. read_cnt' \in Nat /\ read_cnt' = Cardinality(At("read")')
  BY <1>2, <1>3, AtFinite, CountRemove DEF CountersExact, UnlockRead
<1>5. TypeOK' /\ CountersExact'
  BY <1>2, <1>3, <1>4 DEF CountersExact, UnlockRead
<1>6. MutualExclusion'
  BY <1>2 DEF MutualExclusion, At
<1> QED BY <1>5, <1>6

LEMMA UnlockWriteKeeps ==
  ASSUME IInv, NEW t \in Thread, UnlockWrite(t)
  PROVE  IInv'
<1> USE DEF IInv, TypeOK
<1>1. PICK woken \in SUBSET (At("rsleep") \cup At("wsleep")) : Release(t, woken)
  BY Sleepers DEF UnlockWrite
<1>2. /\ pc' \in [Thread -> Place]
      /\ At("read")' = At("read") \ {t}
      /\ At("write")' = At("write") \ {t}
      /\ InWrite' = InWrite \ {t}
  BY <1>1, ReleaseEffect DEF UnlockWrite, At
<1>3. t \notin At("read") /\ At("write") = {t} /\ t \in InWrite
  BY DEF UnlockWrite, MutualExclusion, At, InWrite, WriterPlace
<1>4. write_cnt' \in Nat /\ write_cnt' = Cardinality(InWrite')
  BY <1>2, <1>3, AtFinite, CountRemove DEF CountersExact, UnlockWrite
<1>5. TypeOK' /\ CountersExact'
  BY <1>2, <1>3, <1>4 DEF CountersExact, UnlockWrite
<1>6. MutualExclusion'
  BY <1>2 DEF MutualExclusion, At
<1> QED BY <1>5, <1>6

LEMMA SpuriousWakeKeeps ==
  ASSUME IInv, NEW t \in Thread, SpuriousWake(t)
  PROVE  IInv'
<1> USE DEF IInv, TypeOK
<1> DEFINE p == IF pc[t] = "rsleep" THEN "rwake" ELSE "wwake"
<1>1. p \in Place /\ Goto(t, p)
  BY DEF SpuriousWake, Place
<1>2. /\ pc' \in [Thread -> Place]
      /\ \A q \in {"read", "write"} : t \notin At(q) /\ At(q)' = At(q)
  BY <1>1, GotoEffect DEF SpuriousWake, At
<1>3. InWrite' = InWrite
  BY <1>1, GotoEffect DEF SpuriousWake, WriterPlace, InWrite
<1>4. TypeOK' /\ CountersExact'
  BY <1>2, <1>3 DEF CountersExact, SpuriousWake
<1>5. MutualExclusion'
  BY <1>2 DEF MutualExclusion, At
<1> QED BY <1>4, <1>5

-----------------------------------------------------------------------------
(* The counters are exact, whatever the threads do: write_cnt_ counts each *)
(* waiting and each active writer once.                                    *)
(* A thread inside LockWrite .. UnlockWrite is alone, for any number of    *)
(* threads, spurious wake-ups included.                                    *)
THEOREM Safety == Spec => [](TypeOK /\ CountersExact /\ MutualExclusion)
<1>1. Init => IInv
  <2> SUFFICES ASSUME Init PROVE IInv
    OBVIOUS
  <2>1. TypeOK /\ MutualExclusion
    BY DEF Init, TypeOK, MutualExclusion, Place
  <2>2. At("read") = {} /\ At("write") = {} /\ InWrite = {}
    BY DEF Init, At, InWrite, WriterPlace
  <2>3. CountersExact
    BY <2>2, FS_EmptySet DEF CountersExact, Init
  <2> QED BY <2>1, <2>3 DEF IInv
<1>2. IInv /\ [Next]_vars => IInv'
  <2> SUFFICES ASSUME IInv, [Next]_vars PROVE IInv'
    OBVIOUS
  <2>1. CASE UNCHANGED vars
    BY <2>1 DEF vars, IInv, TypeOK, CountersExact, MutualExclusion, At, InWrite
  <2>2. ASSUME NEW t \in Thread, LockRead(t) \/ ReaderWakes(t)
        PROVE  IInv'
    BY <2>2, TryReadKeeps DEF LockRead, ReaderWakes
  <2>3. ASSUME NEW t \in Thread, LockWrite(t)
        PROVE  IInv'
    <3>1. t \notin InWrite
      BY <2>3 DEF LockWrite, InWrite, WriterPlace
    <3>2. write_cnt' \in Nat /\ write_cnt' = Cardinality(InWrite \cup {t})
      BY <2>3, <3>1, AtFinite, CountAdd DEF LockWrite, IInv, TypeOK, CountersExact
    <3> QED BY <2>3, <3>2, TryWriteKeeps DEF LockWrite
  <2>4. ASSUME NEW t \in Thread, WriterWakes(t)
        PROVE  IInv'
    <3>1. InWrite \cup {t} = InWrite
      BY <2>4 DEF WriterWakes, InWrite, WriterPlace
    <3>2. write_cnt' \in Nat /\ write_cnt' = Cardinality(InWrite \cup {t})
      BY <2>4, <3>1 DEF WriterWakes, IInv, TypeOK, CountersExact
    <3> QED BY <2>4, <3>2, TryWriteKeeps DEF WriterWakes
  <2>5. ASSUME NEW t \in Thread, UnlockRead(t) \/ UnlockWrite(t) \/ SpuriousWake(t)
        PROVE  IInv'
    BY <2>5, UnlockReadKeeps, UnlockWriteKeeps, SpuriousWakeKeeps
  <2> QED BY <2>1, <2>2, <2>3, <2>4, <2>5 DEF Next
<1> QED BY <1>1, <1>2, PTL DEF Spec, IInv

-----------------------------------------------------------------------------
\* The lost wake-up, step by step.  Only the two ways out notify anybody.

LEMMA TryReadWakes ==
  ASSUME IInv, NoLostWakeup, NEW t \in Thread, pc[t] \in {"idle", "rwake"},
         TryRead(t), UNCHANGED <<write_cnt, is_writing>>
  PROVE  NoLostWakeup'
<1> USE DEF IInv, TypeOK, NoLostWakeup
<1>1. /\ t \notin At("wsleep") /\ t \notin At("wwake") /\ t \notin At("rsleep")
      /\ "read" \in Place /\ "rsleep" \in Place
  BY DEF At, Place
<1>2. CASE read_cnt' = read_cnt + 1 /\ Goto(t, "read")
  <2>1. At("rsleep")' = At("rsleep")
    BY <1>1, <1>2, GotoEffect
  <2> QED BY <1>2, <2>1
<1>3. CASE write_cnt # 0 /\ UNCHANGED read_cnt /\ Goto(t, "rsleep")
  <2>1. At("wsleep")' = At("wsleep") /\ At("wwake")' = At("wwake")
    BY <1>1, <1>3, GotoEffect
  <2> QED BY <1>3, <2>1
<1> QED BY <1>2, <1>3 DEF TryRead

LEMMA UnlockReadWakes ==
  ASSUME IInv, NoLostWakeup, NEW t \in Thread, UnlockRead(t)
  PROVE  NoLostWakeup'
<1> USE DEF IInv, TypeOK, NoLostWakeup
<1>1. PICK woken \in IF read_cnt - 1 = 0 /\ write_cnt > 0
                     THEN OneOf(At("wsleep")) ELSE {{}} : Release(t, woken)
  BY DEF UnlockRead
<1>2. woken \subseteq At("wsleep")
  BY <1>1, Sleepers
<1>3. /\ At("rsleep")' = At("rsleep") \ woken
      /\ At("wsleep")' = At("wsleep") \ woken
      /\ At("wwake")' = At("wwake") \cup (At("wsleep") \cap woken)
  BY <1>1, <1>2, ReleaseEffect DEF UnlockRead, At
<1>4. ASSUME At("wsleep")' # {}, read_cnt' = 0
      PROVE  At("wwake")' # {}
  <2>1. At("wsleep") # {}
    BY <1>3, <1>4
  <2>2. InWrite # {}
    BY <2>1 DEF At, InWrite, WriterPlace
  <2>3. woken # {}
    BY <1>1, <1>4, <2>1, <2>2, CountersRead, Sleepers DEF UnlockRead
  <2> QED BY <1>2, <1>3, <2>3
<1> QED BY <1>3, <1>4 DEF UnlockRead

LEMMA UnlockWriteWakes ==
  ASSUME IInv, IInv', NoLostWakeup, NEW t \in Thread, UnlockWrite(t)
  PROVE  NoLostWakeup'
<1> USE DEF IInv, TypeOK, NoLostWakeup
<1>1. PICK woken \in IF write_cnt - 1 = 0
                     THEN {At("rsleep")} ELSE OneOf(At("wsleep")) : Release(t, woken)
  BY DEF UnlockWrite
<1>2. woken \in SUBSET (At("rsleep") \cup At("wsleep"))
  BY <1>1, Sleepers
<1>3. /\ At("rsleep")' = At("rsleep") \ woken
      /\ At("wsleep")' = At("wsleep") \ woken
      /\ At("wwake")' = At("wwake") \cup (At("wsleep") \cap woken)
      /\ InWrite' = InWrite \ {t}
  BY <1>1, <1>2, ReleaseEffect DEF UnlockWrite, At
<1>4. CASE write_cnt - 1 = 0
  <2>1. write_cnt' = Cardinality(InWrite') /\ IsFiniteSet(InWrite')
    <3>1. InWrite' \in SUBSET Thread
      BY DEF InWrite
    <3> QED BY <3>1, ThreadFinite, FS_Subset DEF CountersExact
  <2>2. InWrite' = {}
    BY <1>4, <2>1, FS_EmptySet DEF UnlockWrite
  <2>3. At("wsleep")' = {}
    BY <2>2 DEF At, InWrite, WriterPlace
  <2>4. At("rsleep")' = {}
    BY <1>1, <1>3, <1>4
  <2> QED BY <2>3, <2>4
<1>5. CASE write_cnt - 1 # 0
  <2>1. write_cnt' > 0
    BY <1>5 DEF UnlockWrite
  <2>2. woken \in OneOf(At("wsleep"))
    BY <1>1, <1>5
  <2>3. At("wsleep")' # {} => At("wwake")' # {}
    BY <1>3, <2>2, Sleepers
  <2> QED BY <2>1, <2>3
<1> QED BY <1>4, <1>5

LEMMA SpuriousWakeWakes ==
  ASSUME IInv, NoLostWakeup, NEW t \in Thread, SpuriousWake(t)
  PROVE  NoLostWakeup'
<1> USE DEF IInv, TypeOK, NoLostWakeup
<1>1. "rwake" \in Place /\ "wwake" \in Place
  BY DEF Place
<1>2. CASE Goto(t, "rwake") /\ pc[t] = "rsleep"
  <2>1. /\ At("rsleep")' \subseteq At("rsleep")
        /\ At("wsleep")' = At("wsleep")
        /\ At("wwake")' = At("wwake")
    BY <1>1, <1>2, GotoEffect DEF At
  <2> QED BY <2>1 DEF SpuriousWake
<1>3. CASE Goto(t, "wwake") /\ pc[t] = "wsleep"
  <2>1. t \in At("wwake")' /\ At("rsleep")' = At("rsleep")
    BY <1>1, <1>3, GotoEffect DEF At
  <2> QED BY <2>1 DEF SpuriousWake
<1> QED BY <1>2, <1>3 DEF SpuriousWake

(* No notification of UnlockRead or UnlockWrite is lost, though both wake  *)
(* one writer only: a writer that could have the lock is awake, and a      *)
(* sleeping reader has a writer that will still leave.                     *)
THEOREM Wakeups == Spec => []NoLostWakeup
<1>1. Init => NoLostWakeup
  BY DEF Init, NoLostWakeup, At
<1>2. IInv /\ IInv' /\ NoLostWakeup /\ [Next]_vars => NoLostWakeup'
  <2> SUFFICES ASSUME IInv, IInv', NoLostWakeup, [Next]_vars PROVE NoLostWakeup'
    OBVIOUS
  <2>1. CASE UNCHANGED vars
    BY <2>1 DEF vars, NoLostWakeup, At
  <2>2. ASSUME NEW t \in Thread, LockRead(t) \/ ReaderWakes(t)
        PROVE  NoLostWakeup'
    BY <2>2, TryReadWakes DEF LockRead, ReaderWakes
  <2>3. ASSUME NEW t \in Thread, LockWrite(t)
        PROVE  NoLostWakeup'
    BY <2>3 DEF LockWrite, TryWrite, NoLostWakeup, IInv, TypeOK
  <2>4. ASSUME NEW t \in Thread, WriterWakes(t)
        PROVE  NoLostWakeup'
    <3>1. /\ t \notin At("rsleep")
          /\ "write" \in Place /\ "wsleep" \in Place
      BY <2>4 DEF WriterWakes, At, Place
    <3>2. At("rsleep")' = At("rsleep")
      BY <2>4, <3>1, GotoEffect DEF WriterWakes, TryWrite, IInv, TypeOK
    <3> QED BY <2>4, <3>2 DEF WriterWakes, TryWrite, NoLostWakeup, IInv, TypeOK
  <2>5. ASSUME NEW t \in Thread, UnlockRead(t) \/ UnlockWrite(t) \/ SpuriousWake(t)
        PROVE  NoLostWakeup'
    BY <2>5, UnlockReadWakes, UnlockWriteWakes, SpuriousWakeWakes
  <2> QED BY <2>1, <2>2, <2>3, <2>4, <2>5 DEF Next
<1> QED BY <1>1, <1>2, Safety, PTL DEF Spec, IInv

-----------------------------------------------------------------------------
Waiting == At("wsleep") \cup At("wwake")

LEMMA TryReadRefines ==
  ASSUME IInv, NEW t \in Thread, pc[t] \in {"idle", "rwake"},
         TryRead(t), UNCHANGED <<write_cnt, is_writing>>
  PROVE  [Promise!Next]_(Promise!vars)
<1> USE DEF IInv, TypeOK, Waiting
<1>1. /\ t \notin At("read") /\ t \notin At("write") /\ t \notin Waiting
      /\ "read" \in Place /\ "rsleep" \in Place
  BY DEF At, Place
<1>2. CASE write_cnt = 0 /\ Goto(t, "read")
  <2>0. \A q : At(q)' = IF q = "read" THEN At(q) \cup {t} ELSE At(q) \ {t}
    BY <1>1, <1>2, GotoEffect
  <2>1. /\ At("read")' = At("read") \cup {t}
        /\ At("write")' = At("write")
        /\ At("wsleep")' = At("wsleep") /\ At("wwake")' = At("wwake")
    BY <1>1, <2>0
  <2>2. InWrite = {}
    BY <1>2, CountersRead
  <2>3. Waiting = {} /\ At("write") = {}
    BY <2>2 DEF At, InWrite, WriterPlace
  <2>4. Promise!EnterRead(t)
    BY <1>1, <2>1, <2>3 DEF Promise!EnterRead, Promise!Idle
  <2> QED BY <2>4 DEF Promise!Next
<1>3. CASE Goto(t, "rsleep")
  <2>1. /\ At("read")' = At("read")
        /\ At("write")' = At("write")
        /\ At("wsleep")' = At("wsleep") /\ At("wwake")' = At("wwake")
    BY <1>1, <1>3, GotoEffect
  <2> QED BY <2>1 DEF Promise!vars
<1> QED BY <1>2, <1>3 DEF TryRead

LEMMA TryWriteRefines ==
  ASSUME IInv, NEW t \in Thread, pc[t] \in {"idle", "wwake"}, TryWrite(t)
  PROVE  [Promise!Next]_(Promise!vars)
<1> USE DEF IInv, TypeOK, Waiting
<1>1. /\ t \notin At("read") /\ t \notin At("write")
      /\ t \in Waiting \/ Promise!Idle(t)
      /\ "write" \in Place /\ "wsleep" \in Place
  BY DEF At, Place, Promise!Idle
<1>2. CASE read_cnt = 0 /\ ~is_writing /\ Goto(t, "write")
  <2>1. /\ At("read")' = At("read")
        /\ At("write")' = At("write") \cup {t}
        /\ At("wsleep")' = At("wsleep") \ {t} /\ At("wwake")' = At("wwake") \ {t}
    BY <1>1, <1>2, GotoEffect
  <2>2. At("read") = {} /\ At("write") = {}
    BY <1>2, CountersRead DEF CountersExact
  <2>3. Promise!EnterWrite(t)
    BY <1>1, <2>1, <2>2 DEF Promise!EnterWrite
  <2> QED BY <2>3 DEF Promise!Next
<1>3. CASE (read_cnt # 0 \/ is_writing) /\ Goto(t, "wsleep")
  <2>1. /\ At("read")' = At("read")
        /\ At("write")' = At("write")
        /\ At("wsleep")' = At("wsleep") \cup {t} /\ At("wwake")' = At("wwake") \ {t}
    BY <1>1, <1>3, GotoEffect
  <2>2. At("read") \cup At("write") # {}
    BY <1>3, CountersRead DEF CountersExact
  <2>3. CASE pc[t] = "idle"
    <3>1. Promise!Idle(t) /\ t \notin Waiting
      BY <2>3 DEF At, Promise!Idle
    <3>2. Promise!WaitToWrite(t)
      BY <2>1, <2>2, <3>1 DEF Promise!WaitToWrite
    <3> QED BY <3>2 DEF Promise!Next
  <2>4. CASE pc[t] = "wwake"
    <3>1. t \in At("wwake")
      BY <2>4 DEF At
    <3> QED BY <2>1, <3>1 DEF Promise!vars
  <2> QED BY <2>3, <2>4
<1> QED BY <1>2, <1>3 DEF TryWrite

LEMMA UnlockRefines ==
  ASSUME IInv, NEW t \in Thread, UnlockRead(t) \/ UnlockWrite(t)
  PROVE  [Promise!Next]_(Promise!vars)
<1> USE DEF IInv, TypeOK, Waiting
<1>1. PICK woken \in SUBSET (At("rsleep") \cup At("wsleep")) : Release(t, woken)
  BY Sleepers DEF UnlockRead, UnlockWrite
<1>2. /\ At("read")' = At("read") \ {t}
      /\ At("write")' = At("write") \ {t}
      /\ Waiting' = Waiting
  BY <1>1, ReleaseEffect DEF UnlockRead, UnlockWrite, At
<1>3. CASE pc[t] = "read"
  <2>1. t \in At("read") /\ t \notin At("write")
    BY <1>3 DEF At
  <2>2. Promise!LeaveRead(t)
    BY <1>2, <2>1 DEF Promise!LeaveRead
  <2> QED BY <2>2 DEF Promise!Next
<1>4. CASE pc[t] = "write"
  <2>1. t \in At("write") /\ t \notin At("read")
    BY <1>4 DEF At
  <2>2. Promise!LeaveWrite(t)
    BY <1>2, <2>1 DEF Promise!LeaveWrite
  <2> QED BY <2>2 DEF Promise!Next
<1> QED BY <1>3, <1>4 DEF UnlockRead, UnlockWrite

LEMMA SpuriousWakeRefines ==
  ASSUME IInv, NEW t \in Thread, SpuriousWake(t)
  PROVE  [Promise!Next]_(Promise!vars)
<1>1. /\ pc \in [Thread -> Place]
      /\ t \notin At("read") /\ t \notin At("write")
      /\ "rwake" \in Place /\ "wwake" \in Place
  BY DEF SpuriousWake, At, Place, IInv, TypeOK
<1>2. CASE pc[t] = "rsleep" /\ Goto(t, "rwake")
  <2>1. \A q : At(q)' = IF q = "rwake" THEN At(q) \cup {t} ELSE At(q) \ {t}
    BY <1>1, <1>2, GotoEffect
  <2>2. t \notin At("wsleep") /\ t \notin At("wwake")
    BY <1>2 DEF At
  <2> QED BY <1>1, <2>1, <2>2 DEF Promise!vars
<1>3. CASE pc[t] = "wsleep" /\ Goto(t, "wwake")
  <2>1. \A q : At(q)' = IF q = "wwake" THEN At(q) \cup {t} ELSE At(q) \ {t}
    BY <1>1, <1>3, GotoEffect
  <2>2. t \in At("wsleep")
    BY <1>3 DEF At
  <2>3. At("wsleep")' \cup At("wwake")' = At("wsleep") \cup At("wwake")
    BY <2>1, <2>2
  <2> QED BY <1>1, <2>1, <2>3 DEF Promise!vars
<1> QED BY <1>2, <1>3 DEF SpuriousWake

(* The counters and the two condition variables implement the lock of      *)
(* RWLockSpec: readers share, a writer is alone, a waiting writer holds    *)
(* new readers back.                                                       *)
THEOREM Refinement == Spec => ImplementsLock
<1>1. Init => Promise!Init
  BY DEF Init, Promise!Init, At
<1>2. IInv /\ [Next]_vars => [Promise!Next]_(Promise!vars)
  <2> SUFFICES ASSUME IInv, [Next]_vars PROVE [Promise!Next]_(Promise!vars)
    OBVIOUS
  <2>1. CASE UNCHANGED vars
    BY <2>1 DEF vars, Promise!vars, At
  <2>2. ASSUME NEW t \in Thread, LockRead(t) \/ ReaderWakes(t)
        PROVE  [Promise!Next]_(Promise!vars)
    BY <2>2, TryReadRefines DEF LockRead, ReaderWakes
  <2>3. ASSUME NEW t \in Thread, LockWrite(t) \/ WriterWakes(t)
        PROVE  [Promise!Next]_(Promise!vars)
    BY <2>3, TryWriteRefines DEF LockWrite, WriterWakes
  <2>4. ASSUME NEW t \in Thread, UnlockRead(t) \/ UnlockWrite(t)
        PROVE  [Promise!Next]_(Promise!vars)
    BY <2>4, UnlockRefines
  <2>5. ASSUME NEW t \in Thread, SpuriousWake(t)
        PROVE  [Promise!Next]_(Promise!vars)
    BY <2>5, SpuriousWakeRefines
  <2> QED BY <2>1, <2>2, <2>3, <2>4, <2>5 DEF Next
<1> QED BY <1>1, <1>2, Safety, PTL DEF Spec, IInv, ImplementsLock, Promise!Spec

(* The parts of Safety by themselves, for any set of threads: the places   *)
(* of the threads and the types of the counters,                           *)
THEOREM Typing == Spec => []TypeOK
BY Safety, PTL

(* and that read_cnt_, write_cnt_ and is_writing_ are the numbers of those *)
(* who read, want to write and write, also after a spurious wake-up.       *)
THEOREM Counting == Spec => []CountersExact
BY Safety, PTL
=============================================================================
