----------------------------- MODULE RWLockSpec -----------------------------
(***************************************************************************)
(* What the readers-writer lock of blmesh/rw_lock.h promises to the code   *)
(* that takes it, with no counter, mutex or condition variable in sight:   *)
(* readers share, a writer is alone, and a writer that waits holds new     *)
(* readers back.                                                           *)
(***************************************************************************)
CONSTANT Thread

VARIABLES
  readers,  \* threads inside LockRead .. UnlockRead
  waiting,  \* threads inside LockWrite that have not got the lock
  writers   \* threads inside LockWrite .. UnlockWrite

vars == <<readers, waiting, writers>>

Idle(t) == t \notin readers \cup waiting \cup writers

Init == readers = {} /\ waiting = {} /\ writers = {}

EnterRead(t) ==
  /\ Idle(t)
  /\ waiting = {} /\ writers = {}
  /\ readers' = readers \cup {t}
  /\ UNCHANGED <<waiting, writers>>

LeaveRead(t) ==
  /\ t \in readers
  /\ readers' = readers \ {t}
  /\ UNCHANGED <<waiting, writers>>

WaitToWrite(t) ==
  /\ Idle(t)
  /\ readers \cup writers # {}
  /\ waiting' = waiting \cup {t}
  /\ UNCHANGED <<readers, writers>>

EnterWrite(t) ==
  /\ Idle(t) \/ t \in waiting
  /\ readers = {} /\ writers = {}
  /\ writers' = {t}
  /\ waiting' = waiting \ {t}
  /\ UNCHANGED readers

LeaveWrite(t) ==
  /\ t \in writers
  /\ writers' = writers \ {t}
  /\ UNCHANGED <<readers, waiting>>

Next == \E t \in Thread : \/ EnterRead(t) \/ LeaveRead(t)
                          \/ WaitToWrite(t) \/ EnterWrite(t) \/ LeaveWrite(t)

Spec == Init /\ [][Next]_vars
=============================================================================
