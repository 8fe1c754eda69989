------------------------------- MODULE RWLock -------------------------------
(***************************************************************************)
(* blmesh/rw_lock.h: the readers-writer lock, built from one std::mutex,   *)
(* two condition variables and three counters.                             *)
(*                                                                         *)
(* The mutex is held from the first line of an operation until it returns  *)
(* or sleeps in a wait, so each such stretch is one step.  A thread that   *)
(* wait() puts to sleep moves to "rsleep" or "wsleep"; a notify, or a      *)
(* spurious wake-up, moves it to "rwake" or "wwake", where it competes for *)
(* the mutex again and tests the predicate of the wait once more.          *)
(***************************************************************************)
EXTENDS Naturals, FiniteSets

CONSTANT Thread     \* the threads that share the lock

ASSUME ThreadFinite == IsFiniteSet(Thread)

VARIABLES
  read_cnt,    \* read_cnt_: readers inside
  write_cnt,   \* write_cnt_: writers inside or waiting
  is_writing,  \* is_wrtiting_: a writer is inside
  pc           \* where each thread is

vars == <<read_cnt, write_cnt, is_writing, pc>>

Place == {"idle", "rsleep", "rwake", "read", "wsleep", "wwake", "write"}

At(place) == {t \in Thread : pc[t] = place}

\* Threads counted by write_cnt_: those from the ++ in LockWrite to UnlockWrite.
WriterPlace == {"wsleep", "wwake", "write"}
InWrite == {t \in Thread : pc[t] \in WriterPlace}

Goto(t, place) == pc' = [pc EXCEPT ![t] = place]

Init ==
  /\ read_cnt = 0 /\ write_cnt = 0 /\ is_writing = FALSE
  /\ pc = [t \in Thread |-> "idle"]

-----------------------------------------------------------------------------
(* The wait of LockRead: readers are held back by any writer, even one     *)
(* that is itself only waiting.                                            *)
BugReadUncounted(t) ==         \* the ++read_cnt_ is missing
  /\ write_cnt = 0 /\ UNCHANGED read_cnt
  /\ Goto(t, "read")

BugReaderOvertakes(t) ==       \* only an active writer holds a reader back
  /\ read_cnt' = IF is_writing THEN read_cnt ELSE read_cnt + 1
  /\ Goto(t, IF is_writing THEN "rsleep" ELSE "read")

TryRead(t) ==
  \/ /\ write_cnt = 0
     /\ read_cnt' = read_cnt + 1
     /\ Goto(t, "read")
  \/ /\ write_cnt # 0
     /\ UNCHANGED read_cnt
     /\ Goto(t, "rsleep")

LockRead(t) ==
  /\ pc[t] = "idle"
  /\ TryRead(t)
  /\ UNCHANGED <<write_cnt, is_writing>>

ReaderWakes(t) ==
  /\ pc[t] = "rwake"
  /\ TryRead(t)
  /\ UNCHANGED <<write_cnt, is_writing>>

\* The wait of LockWrite.
BugWriterOvertakes(t) ==       \* only readers hold a writer back
  /\ is_writing' = (is_writing \/ read_cnt = 0)
  /\ Goto(t, IF read_cnt = 0 THEN "write" ELSE "wsleep")

TryWrite(t) ==
  \/ /\ read_cnt = 0 /\ ~is_writing
     /\ is_writing' = TRUE
     /\ Goto(t, "write")
  \/ /\ read_cnt # 0 \/ is_writing
     /\ UNCHANGED is_writing
     /\ Goto(t, "wsleep")

LockWrite(t) ==
  /\ pc[t] = "idle"
  /\ write_cnt' = write_cnt + 1
  /\ TryWrite(t)
  /\ UNCHANGED read_cnt

BugWriterRecounted(t) ==       \* the ++write_cnt_ is inside the wait loop
  /\ pc[t] = "wwake"
  /\ write_cnt' = write_cnt + 1
  /\ TryWrite(t)
  /\ UNCHANGED read_cnt

WriterWakes(t) ==
  /\ pc[t] = "wwake"
  /\ TryWrite(t)
  /\ UNCHANGED <<read_cnt, write_cnt>>

-----------------------------------------------------------------------------
\* The choices of notify_one among the sleepers S: one of them, or nobody.
OneOf(S) == IF S = {} THEN {{}} ELSE {{t} : t \in S}

\* t leaves the lock and the threads in woken return from their wait.
Release(t, woken) ==
  pc' = [u \in Thread |->
           IF u = t THEN "idle"
           ELSE IF u \notin woken THEN pc[u]
           ELSE IF pc[u] = "rsleep" THEN "rwake" ELSE "wwake"]

BugLastReaderSilent(t) ==      \* the last reader notifies nobody
  /\ pc[t] = "read"
  /\ read_cnt' = read_cnt - 1
  /\ Goto(t, "idle")
  /\ UNCHANGED <<write_cnt, is_writing>>

UnlockRead(t) ==
  /\ pc[t] = "read"
  /\ read_cnt' = read_cnt - 1
  /\ \E woken \in IF read_cnt - 1 = 0 /\ write_cnt > 0
                  THEN OneOf(At("wsleep")) ELSE {{}} : Release(t, woken)
  /\ UNCHANGED <<write_cnt, is_writing>>

BugWakesReadersOnly(t) ==      \* the else branch of UnlockWrite is missing
  /\ pc[t] = "write"
  /\ write_cnt' = write_cnt - 1
  /\ Release(t, IF write_cnt - 1 = 0 THEN At("rsleep") ELSE {})
  /\ is_writing' = FALSE
  /\ UNCHANGED read_cnt

BugWakesOneReader(t) ==        \* cond_read_.notify_one instead of notify_all
  /\ pc[t] = "write"
  /\ write_cnt' = write_cnt - 1
  /\ \E woken \in OneOf(At(IF write_cnt - 1 = 0 THEN "rsleep" ELSE "wsleep")) :
       Release(t, woken)
  /\ is_writing' = FALSE
  /\ UNCHANGED read_cnt

UnlockWrite(t) ==
  /\ pc[t] = "write"
  /\ write_cnt' = write_cnt - 1
  /\ \E woken \in IF write_cnt - 1 = 0
                  THEN {At("rsleep")} ELSE OneOf(At("wsleep")) : Release(t, woken)
  /\ is_writing' = FALSE
  /\ UNCHANGED read_cnt

\* std::condition_variable may return from a wait that nobody notified.
SpuriousWake(t) ==
  /\ pc[t] \in {"rsleep", "wsleep"}
  /\ Goto(t, IF pc[t] = "rsleep" THEN "rwake" ELSE "wwake")
  /\ UNCHANGED <<read_cnt, write_cnt, is_writing>>

Next == \E t \in Thread :
          \/ LockRead(t) \/ ReaderWakes(t) \/ UnlockRead(t)
          \/ LockWrite(t) \/ WriterWakes(t) \/ UnlockWrite(t)
          \/ SpuriousWake(t)

(* A woken thread is scheduled and gets the mutex; a guard object leaves   *)
(* its scope.  Nothing obliges a thread to take the lock, and nobody owes  *)
(* a sleeper a spurious wake-up.                                           *)
Fairness == \A t \in Thread :
              /\ WF_vars(ReaderWakes(t)) /\ WF_vars(WriterWakes(t))
              /\ WF_vars(UnlockRead(t)) /\ WF_vars(UnlockWrite(t))

Spec == Init /\ [][Next]_vars
FairSpec == Spec /\ Fairness

-----------------------------------------------------------------------------
\* The type invariant: the counters are size_t and never wrap below zero.
TypeOK ==
  /\ read_cnt \in Nat /\ write_cnt \in Nat
  /\ is_writing \in BOOLEAN
  /\ pc \in [Thread -> Place]

(* The three fields agree with the threads they stand for, however waits,  *)
(* notifications and spurious wake-ups interleave: write_cnt_ also counts  *)
(* the writers that wait, once each.                                       *)
CountersExact ==
  /\ read_cnt = Cardinality(At("read"))
  /\ write_cnt = Cardinality(InWrite)
  /\ is_writing <=> At("write") # {}

(* A thread between LockWrite and UnlockWrite shares the lock with nobody: *)
(* what every map guarded by a WriteLockGuard relies on.                   *)
MutualExclusion ==
  \A t, u \in Thread :
    pc[t] = "write" /\ pc[u] \in {"read", "write"} => t = u

(* No wake-up is lost.  A writer asleep while the lock could be had has a  *)
(* colleague already woken that will take it and pass the notification on  *)
(* (UnlockRead and UnlockWrite notify one writer only); a reader asleep is *)
(* held back by some writer, whose last UnlockWrite notifies all readers.  *)
NoLostWakeup ==
  /\ At("wsleep") # {} /\ read_cnt = 0 /\ ~is_writing => At("wwake") # {}
  /\ At("rsleep") # {} => write_cnt > 0

(* If a thread waits in LockWrite, some writer gets the lock, though       *)
(* readers keep arriving.  (Which writer is not promised: one that arrives *)
(* can overtake the one that was notified.)                                *)
WriterProgress ==
  (At("wsleep") \cup At("wwake") # {}) ~> (At("write") # {})

(* A thread that waits in LockRead gets in, unless writers keep coming:    *)
(* the lock starves readers for writers and for nothing else.              *)
ReaderProgress ==
  \A t \in Thread :
    \/ []<>(write_cnt > 0)
    \/ (pc[t] \in {"rsleep", "rwake"}) ~> (pc[t] = "read")

(* The counters and condition variables implement the lock that            *)
(* RWLockSpec describes.                                                   *)
Promise == INSTANCE RWLockSpec WITH
             readers <- At("read"),
             waiting <- At("wsleep") \cup At("wwake"),
             writers <- At("write")
ImplementsLock == Promise!Spec
=============================================================================
