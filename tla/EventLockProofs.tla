--------------------------- MODULE EventLockProofs ---------------------------
(***************************************************************************)
(* EventLock for any number of threads and handles: the pipe is exact, no  *)
(* wake-up is lost, and nobody polls a handle that is closed.              *)
(*                                                                         *)
(* The locks are what they seem (LockInv).  device_close counts the        *)
(* threads inside libusb_close() (CloseCount), so whoever reads it as      *)
(* positive has a closer that will broadcast.  Each handle is opened or    *)
(* closed by one thread at a time (DevInv), and the array given to poll()  *)
(* is the current set unless POLLFDS_MODIFIED says otherwise (FdInv).      *)
(***************************************************************************)
EXTENDS EventLock, FiniteSetTheorems, TLAPS

Holding == {"own", "start", "poll", "events", "backend", "handle",
            "unlock", "release", "owned", "doclose", "finish"}

ClosingPcs == {"lock", "owned", "doclose", "finish"}

(* Each lock belongs to the thread whose place in the code holds it. *)
LockInv ==
    /\ \A p \in Threads : events_lock = p <=> pc[p] \in Holding
    /\ \A p \in Threads : waiters_lock = p <=> pc[p] \in {"closing", "active", "sleep"}
    /\ \A p \in Threads : p \in waiting <=> pc[p] = "asleep"
    /\ event_handler_active => events_lock # "none"
    /\ \A p \in Threads : pc[p] = "release" => ~event_handler_active

(* device_close is the number of threads inside libusb_close(). *)
Closers == {p \in Openers : pc[p] \in ClosingPcs}

CloseCount ==
    /\ device_close = Cardinality(Closers)
    /\ \A p \in Threads : pc[p] \in ClosingPcs => p \in Openers

(* A handle is opened or closed by one thread at a time. *)
Busy(p) == pc[p] \in ClosingPcs \cup {"list"}

DevInv ==
    /\ \A p \in Threads : Busy(p) =>
           /\ dev[p] \in Handles
           /\ phase[dev[p]] = IF pc[p] = "list" THEN "opening" ELSE "closing"
    /\ \A p, q \in Threads : Busy(p) /\ Busy(q) /\ dev[p] = dev[q] => p = q

(* What is polled is open, and the array is current or known not to be. *)
FdInv ==
    /\ "POLLFDS_MODIFIED" \notin flags => pollfds = ipollfds
    /\ \A h \in ipollfds : phase[h] \in {"opening", "open", "closing"} /\ h \notin fd_removed
    /\ \A h \in open_devs : phase[h] \in {"open", "closing"}
    /\ \A h \in fd_removed : phase[h] # "new"
    /\ \A p \in Threads : pc[p] = "finish" => dev[p] \notin ipollfds \cup open_devs

(* Who sleeps, or is about to with the waiters' lock in hand, has a waker. *)
Waker == events_lock # "none" \/ \E p \in Threads : pc[p] \in {"broadcast", "lock"}

SleepInv == waiting # {} \/ (\E p \in Threads : pc[p] = "sleep") => Waker

IInv ==
    /\ TypeOK /\ LockInv /\ CloseCount /\ DevInv /\ FdInv
    /\ PipeExact /\ SleepInv /\ ClosedIsNotPolled

-----------------------------------------------------------------------------
(* Counting the closers. *)

(* device_close is a number, positive while a thread is closing. *)
LEMMA ClosersCount ==
    ASSUME EventConstants, NEW S \in SUBSET Openers
    PROVE  /\ IsFiniteSet(S) /\ Cardinality(S) \in Nat
           /\ \A p \in S : Cardinality(S) > 0
           /\ S # {} <=> Cardinality(S) > 0
           /\ \A p \in S : Cardinality(S \ {p}) = Cardinality(S) - 1
           /\ \A p \in Openers \ S : Cardinality(S \cup {p}) = Cardinality(S) + 1
<1>1. IsFiniteSet(S) /\ Cardinality(S) \in Nat
  BY FS_Subset, FS_CardinalityType DEF EventConstants
<1>2. S # {} <=> Cardinality(S) > 0
  BY <1>1, FS_EmptySet
<1>3. \A p \in S : Cardinality(S \ {p}) = Cardinality(S) - 1
  BY <1>1, FS_RemoveElement
<1>4. \A p \in Openers \ S : Cardinality(S \cup {p}) = Cardinality(S) + 1
  BY <1>1, FS_AddElement
<1> QED
  BY <1>1, <1>2, <1>3, <1>4

-----------------------------------------------------------------------------
(* Types. *)

LEMMA TypeInit == EventConstants /\ Init => TypeOK
<1> SUFFICES ASSUME EventConstants, Init PROVE TypeOK
  OBVIOUS
<1>1. Cardinality(flags) \in Nat
  <2>1. CASE Opened = {}
    BY <2>1, FS_EmptySet DEF Init
  <2>2. CASE Opened # {}
    <3>1. flags = {"POLLFDS_MODIFIED"}
      BY <2>2 DEF Init
    <3> QED
      BY <3>1, FS_Singleton
  <2> QED
    BY <2>1, <2>2
<1> QED
  BY <1>1 DEF Init, TypeOK, Places, EventConstants, Threads, Users

LEMMA TypeStep ==
    ASSUME EventConstants, TypeOK, CloseCount, DevInv, [Next]_vars
    PROVE  TypeOK'
<1> USE DEF EventConstants, TypeOK, Places, vars, locks, event, polls, devs, Go, Threads, Users
<1>1. CASE UNCHANGED vars
  BY <1>1
<1>2. ASSUME NEW p \in Threads, HandleEvents(p) PROVE TypeOK'
  BY <1>2 DEF HandleEvents
<1>3. ASSUME NEW p \in Threads, TryLock(p) PROVE TypeOK'
  BY <1>3 DEF TryLock
<1>4. ASSUME NEW p \in Threads, TryLockEvents(p) PROVE TypeOK'
  BY <1>4 DEF TryLockEvents
<1>5. ASSUME NEW p \in Threads, Own(p) PROVE TypeOK'
  BY <1>5 DEF Own
<1>6. ASSUME NEW p \in Threads, BuildPollFds(p) PROVE TypeOK'
  <2>1. /\ flags' \subseteq flags /\ device_close' = device_close
        /\ pipe' \in Nat
    BY <1>6 DEF BuildPollFds, Settle
  <2> QED
    BY <1>6, <2>1 DEF BuildPollFds
<1>7. ASSUME NEW p \in Threads, Poll(p) PROVE TypeOK'
  BY <1>7 DEF Poll, Revents
<1>8. ASSUME NEW p \in Threads, EventPipe(p) PROVE TypeOK'
  <2>1. /\ flags' \subseteq flags /\ device_close' = device_close
        /\ pipe' \in Nat
    BY <1>8 DEF EventPipe, Settle
  <2> QED
    BY <1>8, <2>1 DEF EventPipe
<1>9. ASSUME NEW p \in Threads, BackendStart(p) PROVE TypeOK'
  BY <1>9 DEF BackendStart
<1>10. ASSUME NEW p \in Threads, BackendEnd(p) PROVE TypeOK'
  BY <1>10 DEF BackendEnd
<1>11. ASSUME NEW p \in Threads, Unlock(p) PROVE TypeOK'
  BY <1>11 DEF Unlock
<1>12. ASSUME NEW p \in Threads, Release(p) PROVE TypeOK'
  BY <1>12 DEF Release
<1>13. ASSUME NEW p \in Threads, Broadcast(p) PROVE TypeOK'
  BY <1>13 DEF Broadcast
<1>14. ASSUME NEW p \in Threads, LockWaiters(p) PROVE TypeOK'
  <2>1. waiters_lock' \in Threads \cup {"none"}
    BY <1>14 DEF LockWaiters
  <2>2. pc' = [pc EXCEPT ![p] = "rest"] \/ pc' = [pc EXCEPT ![p] = "closing"]
    BY <1>14 DEF LockWaiters
  <2>3. pc' \in [Threads -> Places]
    BY <2>2
  <2> QED
    BY <1>14, <2>1, <2>3 DEF LockWaiters
<1>15. ASSUME NEW p \in Threads, ReadClosing(p) PROVE TypeOK'
  BY <1>15 DEF ReadClosing
<1>16. ASSUME NEW p \in Threads, ReadActive(p) PROVE TypeOK'
  BY <1>16 DEF ReadActive
<1>17. ASSUME NEW p \in Threads, Sleep(p) PROVE TypeOK'
  BY <1>17 DEF Sleep
<1>18. ASSUME NEW p \in Threads, Woken(p) PROVE TypeOK'
  BY <1>18 DEF Woken
<1>19. ASSUME NEW p \in Threads, ListHandle(p) PROVE TypeOK'
  BY <1>19 DEF ListHandle, DevInv, Busy
<1>20. ASSUME NEW p \in Threads, LockEvents(p) PROVE TypeOK'
  BY <1>20 DEF LockEvents
<1>21. ASSUME NEW p \in Threads, CloseOwns(p) PROVE TypeOK'
  BY <1>21 DEF CloseOwns
<1>22. ASSUME NEW p \in Threads, DoClose(p) PROVE TypeOK'
  <2>1. dev[p] \in Handles
    BY <1>22 DEF DoClose, DevInv, Busy, ClosingPcs
  <2>2. pipe' \in Nat /\ device_close' \in Nat
    BY <1>22 DEF DoClose, Notify
  <2> QED
    BY <1>22, <2>1, <2>2 DEF DoClose, Notify
<1>23. ASSUME NEW p \in Threads, CloseEnds(p) PROVE TypeOK'
  <2>1. device_close - 1 \in Nat
    <3>1. p \in Closers
      BY <1>23 DEF CloseEnds, CloseCount, Closers, ClosingPcs
    <3>2. Cardinality(Closers) \in Nat /\ Cardinality(Closers) > 0
      BY <3>1, ClosersCount DEF Closers
    <3> QED
      BY <3>2 DEF CloseCount
  <2>2. pipe' \in Nat
    BY <1>23 DEF CloseEnds, Settle
  <2>3. device_close' \in Nat /\ flags' = flags
    BY <1>23, <2>1 DEF CloseEnds, Settle
  <2> QED
    BY <1>23, <2>2, <2>3 DEF CloseEnds, Settle
<1>24. ASSUME NEW p \in Threads, RequestEnds(p) PROVE TypeOK'
  BY <1>24 DEF RequestEnds
<1>25. ASSUME NEW p \in Threads, PollTimesOut(p) PROVE TypeOK'
  BY <1>25 DEF PollTimesOut
<1>26. ASSUME NEW p \in Threads, SleepTimesOut(p) PROVE TypeOK'
  BY <1>26 DEF SleepTimesOut
<1>27. ASSUME NEW p \in Threads, Interrupt(p) PROVE TypeOK'
  BY <1>27 DEF Interrupt, Notify
<1>28. ASSUME NEW p \in Threads, NEW h \in Handles, HandleFd(p, h) PROVE TypeOK'
  BY <1>28 DEF HandleFd, Answered
<1>29. ASSUME NEW p \in Threads, NEW h \in Handles, HandleDisconnect(p, h) PROVE TypeOK'
  <2>1. request' \in [Threads -> {"none", "pending", "reapable", "done"}]
    BY <1>29 DEF HandleDisconnect, Answered
  <2>2. /\ flags' \subseteq {"POLLFDS_MODIFIED", "USER_INTERRUPT"}
        /\ device_close' = device_close /\ pipe' \in Nat
    <3>1. CASE h \in ipollfds
      <4>1. Notify(flags \cup {"POLLFDS_MODIFIED"}, device_close)
        BY <1>29, <3>1 DEF HandleDisconnect
      <4> QED
        BY <4>1 DEF Notify
    <3>2. CASE h \notin ipollfds
      BY <1>29, <3>2 DEF HandleDisconnect
    <3> QED
      BY <3>1, <3>2
  <2> QED
    BY <1>29, <2>1, <2>2 DEF HandleDisconnect
<1>30. ASSUME NEW p \in Threads, NEW h \in Handles, Request(p, h) PROVE TypeOK'
  BY <1>30 DEF Request
<1>31. ASSUME NEW p \in Threads, NEW h \in Handles, AddPollFd(p, h) PROVE TypeOK'
  BY <1>31 DEF AddPollFd, Notify
<1>32. ASSUME NEW p \in Threads, NEW h \in Handles, CloseCall(p, h) PROVE TypeOK'
  BY <1>32 DEF CloseCall, Notify
<1>33. ASSUME NEW p \in Users, KernelCompletes(p) PROVE TypeOK'
  BY <1>33 DEF KernelCompletes
<1>34. ASSUME NEW h \in Handles, Unplug(h) PROVE TypeOK'
  BY <1>34 DEF Unplug
<1> QED
  BY <1>1, <1>2, <1>3, <1>4, <1>5, <1>6, <1>7, <1>8, <1>9, <1>10,
     <1>11, <1>12, <1>13, <1>14, <1>15, <1>16, <1>17, <1>18, <1>19,
     <1>20, <1>21, <1>22, <1>23, <1>24, <1>25, <1>26, <1>27, <1>28,
     <1>29, <1>30, <1>31, <1>32, <1>33, <1>34
  DEF Next, Inside, EventLoop, Opening, Closing, Calls

-----------------------------------------------------------------------------
(* The locks. *)

(* Only the fields a step of the locks can touch matter. *)
LEMMA LockStep ==
    ASSUME EventConstants, TypeOK, LockInv, [Next]_vars
    PROVE  LockInv'
<1>0. /\ "none" \notin Threads
      /\ pc \in [Threads -> Places]
      /\ waiting \subseteq Threads
  BY DEF EventConstants, Threads, Users, TypeOK
<1> USE <1>0 DEF LockInv, Holding, vars, locks, event, polls, devs, Go, Users, Threads
<1>1. CASE UNCHANGED vars
  BY <1>1
<1>2. ASSUME NEW p \in Threads, HandleEvents(p) PROVE LockInv'
  BY <1>2 DEF HandleEvents
<1>3. ASSUME NEW p \in Threads, TryLock(p) PROVE LockInv'
  BY <1>3 DEF TryLock
<1>4. ASSUME NEW p \in Threads, TryLockEvents(p) PROVE LockInv'
  BY <1>4 DEF TryLockEvents
<1>5. ASSUME NEW p \in Threads, Own(p) PROVE LockInv'
  BY <1>5 DEF Own
<1>6. ASSUME NEW p \in Threads, BuildPollFds(p) PROVE LockInv'
  BY <1>6 DEF BuildPollFds
<1>7. ASSUME NEW p \in Threads, Poll(p) PROVE LockInv'
  BY <1>7 DEF Poll
<1>8. ASSUME NEW p \in Threads, EventPipe(p) PROVE LockInv'
  BY <1>8 DEF EventPipe
<1>9. ASSUME NEW p \in Threads, BackendStart(p) PROVE LockInv'
  BY <1>9 DEF BackendStart
<1>10. ASSUME NEW p \in Threads, BackendEnd(p) PROVE LockInv'
  BY <1>10 DEF BackendEnd
<1>11. ASSUME NEW p \in Threads, Unlock(p) PROVE LockInv'
  BY <1>11 DEF Unlock
<1>12. ASSUME NEW p \in Threads, Release(p) PROVE LockInv'
  BY <1>12 DEF Release
<1>13. ASSUME NEW p \in Threads, Broadcast(p) PROVE LockInv'
  BY <1>13 DEF Broadcast
<1>14. ASSUME NEW p \in Threads, LockWaiters(p) PROVE LockInv'
  BY <1>14 DEF LockWaiters
<1>15. ASSUME NEW p \in Threads, ReadClosing(p) PROVE LockInv'
  BY <1>15 DEF ReadClosing
<1>16. ASSUME NEW p \in Threads, ReadActive(p) PROVE LockInv'
  BY <1>16 DEF ReadActive
<1>17. ASSUME NEW p \in Threads, Sleep(p) PROVE LockInv'
  BY <1>17 DEF Sleep
<1>18. ASSUME NEW p \in Threads, Woken(p) PROVE LockInv'
  BY <1>18 DEF Woken
<1>19. ASSUME NEW p \in Threads, ListHandle(p) PROVE LockInv'
  BY <1>19 DEF ListHandle
<1>20. ASSUME NEW p \in Threads, LockEvents(p) PROVE LockInv'
  BY <1>20 DEF LockEvents
<1>21. ASSUME NEW p \in Threads, CloseOwns(p) PROVE LockInv'
  BY <1>21 DEF CloseOwns
<1>22. ASSUME NEW p \in Threads, DoClose(p) PROVE LockInv'
  BY <1>22 DEF DoClose
<1>23. ASSUME NEW p \in Threads, CloseEnds(p) PROVE LockInv'
  BY <1>23 DEF CloseEnds
<1>24. ASSUME NEW p \in Threads, RequestEnds(p) PROVE LockInv'
  BY <1>24 DEF RequestEnds
<1>25. ASSUME NEW p \in Threads, PollTimesOut(p) PROVE LockInv'
  BY <1>25 DEF PollTimesOut
<1>26. ASSUME NEW p \in Threads, SleepTimesOut(p) PROVE LockInv'
  BY <1>26 DEF SleepTimesOut
<1>27. ASSUME NEW p \in Threads, Interrupt(p) PROVE LockInv'
  BY <1>27 DEF Interrupt
<1>28. ASSUME NEW p \in Threads, NEW h \in Handles, HandleFd(p, h) PROVE LockInv'
  BY <1>28 DEF HandleFd
<1>29. ASSUME NEW p \in Threads, NEW h \in Handles, HandleDisconnect(p, h) PROVE LockInv'
  BY <1>29 DEF HandleDisconnect
<1>30. ASSUME NEW p \in Threads, NEW h \in Handles, Request(p, h) PROVE LockInv'
  BY <1>30 DEF Request
<1>31. ASSUME NEW p \in Threads, NEW h \in Handles, AddPollFd(p, h) PROVE LockInv'
  BY <1>31 DEF AddPollFd, Idle
<1>32. ASSUME NEW p \in Threads, NEW h \in Handles, CloseCall(p, h) PROVE LockInv'
  BY <1>32 DEF CloseCall, Idle
<1>33. ASSUME NEW p \in Users, KernelCompletes(p) PROVE LockInv'
  BY <1>33 DEF KernelCompletes
<1>34. ASSUME NEW h \in Handles, Unplug(h) PROVE LockInv'
  BY <1>34 DEF Unplug
<1> QED
  BY <1>1, <1>2, <1>3, <1>4, <1>5, <1>6, <1>7, <1>8, <1>9, <1>10,
     <1>11, <1>12, <1>13, <1>14, <1>15, <1>16, <1>17, <1>18, <1>19,
     <1>20, <1>21, <1>22, <1>23, <1>24, <1>25, <1>26, <1>27, <1>28,
     <1>29, <1>30, <1>31, <1>32, <1>33, <1>34
  DEF Next, Inside, EventLoop, Opening, Closing, Calls

-----------------------------------------------------------------------------
(* Closing. *)

(* A step other than the first and the last of libusb_close(). *)
NoCloser ==
    /\ device_close' = device_close
    /\ \A q \in Threads : pc'[q] \in ClosingPcs <=> pc[q] \in ClosingPcs

LEMMA CountStep ==
    ASSUME EventConstants, TypeOK, LockInv, CloseCount, [Next]_vars
    PROVE  CloseCount'
<1>a. /\ pc \in [Threads -> Places] /\ Openers \subseteq Threads
      /\ Closers \in SUBSET Openers
      /\ \A q \in Threads : q \in waiting => pc[q] = "asleep"
      /\ waiting \subseteq Threads
  BY DEF TypeOK, Threads, Users, Closers, LockInv
<1>b. ASSUME NoCloser PROVE CloseCount'
  <2>1. Closers' = Closers
    BY <1>a, <1>b DEF NoCloser, Closers
  <2> QED
    BY <2>1, <1>b DEF NoCloser, CloseCount
<1>1. CASE UNCHANGED vars
  BY <1>1, <1>b DEF NoCloser, vars, event
<1>2. ASSUME NEW p \in Threads, HandleEvents(p) PROVE CloseCount'
  BY <1>2, <1>a, <1>b DEF NoCloser, ClosingPcs, vars, locks, event, Go, HandleEvents
<1>3. ASSUME NEW p \in Threads, TryLock(p) PROVE CloseCount'
  BY <1>3, <1>a, <1>b DEF NoCloser, ClosingPcs, vars, locks, event, Go, TryLock
<1>4. ASSUME NEW p \in Threads, TryLockEvents(p) PROVE CloseCount'
  BY <1>4, <1>a, <1>b DEF NoCloser, ClosingPcs, vars, locks, event, Go, TryLockEvents
<1>5. ASSUME NEW p \in Threads, Own(p) PROVE CloseCount'
  BY <1>5, <1>a, <1>b DEF NoCloser, ClosingPcs, vars, locks, event, Go, Own
<1>6. ASSUME NEW p \in Threads, BuildPollFds(p) PROVE CloseCount'
  BY <1>6, <1>a, <1>b DEF NoCloser, ClosingPcs, vars, locks, event, Go, BuildPollFds, Settle
<1>7. ASSUME NEW p \in Threads, Poll(p) PROVE CloseCount'
  BY <1>7, <1>a, <1>b DEF NoCloser, ClosingPcs, vars, locks, event, Go, Poll
<1>8. ASSUME NEW p \in Threads, EventPipe(p) PROVE CloseCount'
  BY <1>8, <1>a, <1>b DEF NoCloser, ClosingPcs, vars, locks, event, Go, EventPipe, Settle
<1>9. ASSUME NEW p \in Threads, BackendStart(p) PROVE CloseCount'
  BY <1>9, <1>a, <1>b DEF NoCloser, ClosingPcs, vars, locks, event, Go, BackendStart
<1>10. ASSUME NEW p \in Threads, BackendEnd(p) PROVE CloseCount'
  BY <1>10, <1>a, <1>b DEF NoCloser, ClosingPcs, vars, locks, event, Go, BackendEnd
<1>11. ASSUME NEW p \in Threads, Unlock(p) PROVE CloseCount'
  BY <1>11, <1>a, <1>b DEF NoCloser, ClosingPcs, vars, locks, event, Go, Unlock
<1>12. ASSUME NEW p \in Threads, Release(p) PROVE CloseCount'
  BY <1>12, <1>a, <1>b DEF NoCloser, ClosingPcs, vars, locks, event, Go, Release
<1>13. ASSUME NEW p \in Threads, Broadcast(p) PROVE CloseCount'
  BY <1>13, <1>a, <1>b DEF NoCloser, ClosingPcs, vars, locks, event, Broadcast
<1>14. ASSUME NEW p \in Threads, LockWaiters(p) PROVE CloseCount'
  BY <1>14, <1>a, <1>b DEF NoCloser, ClosingPcs, vars, locks, event, Go, LockWaiters
<1>15. ASSUME NEW p \in Threads, ReadClosing(p) PROVE CloseCount'
  BY <1>15, <1>a, <1>b DEF NoCloser, ClosingPcs, vars, locks, event, Go, ReadClosing
<1>16. ASSUME NEW p \in Threads, ReadActive(p) PROVE CloseCount'
  BY <1>16, <1>a, <1>b DEF NoCloser, ClosingPcs, vars, locks, event, Go, ReadActive
<1>17. ASSUME NEW p \in Threads, Sleep(p) PROVE CloseCount'
  BY <1>17, <1>a, <1>b DEF NoCloser, ClosingPcs, vars, locks, event, Go, Sleep
<1>18. ASSUME NEW p \in Threads, Woken(p) PROVE CloseCount'
  BY <1>18, <1>a, <1>b DEF NoCloser, ClosingPcs, vars, locks, event, Go, Woken
<1>19. ASSUME NEW p \in Threads, ListHandle(p) PROVE CloseCount'
  BY <1>19, <1>a, <1>b DEF NoCloser, ClosingPcs, vars, locks, event, Go, ListHandle
<1>20. ASSUME NEW p \in Threads, LockEvents(p) PROVE CloseCount'
  BY <1>20, <1>a, <1>b DEF NoCloser, ClosingPcs, vars, locks, event, Go, LockEvents
<1>21. ASSUME NEW p \in Threads, CloseOwns(p) PROVE CloseCount'
  BY <1>21, <1>a, <1>b DEF NoCloser, ClosingPcs, vars, locks, event, Go, CloseOwns
<1>22. ASSUME NEW p \in Threads, DoClose(p) PROVE CloseCount'
  BY <1>22, <1>a, <1>b DEF NoCloser, ClosingPcs, vars, locks, event, Go, DoClose, Notify
<1>23. ASSUME NEW p \in Threads, CloseEnds(p) PROVE CloseCount'
  <2>1. p \in Closers
    BY <1>23 DEF CloseEnds, CloseCount, Closers, ClosingPcs
  <2>2. Closers' = Closers \ {p}
    BY <1>23, <1>a, <2>1 DEF CloseEnds, Go, Closers, ClosingPcs
  <2>3. device_close' = device_close - 1
    BY <1>23 DEF CloseEnds, Settle
  <2>4. Cardinality(Closers') = Cardinality(Closers) - 1
    BY <1>a, <2>1, <2>2, ClosersCount
  <2>5. \A q \in Threads : pc'[q] \in ClosingPcs => q \in Openers
    BY <1>23, <1>a DEF CloseEnds, Go, CloseCount, ClosingPcs
  <2> QED
    BY <2>3, <2>4, <2>5 DEF CloseCount
<1>24. ASSUME NEW p \in Threads, RequestEnds(p) PROVE CloseCount'
  BY <1>24, <1>a, <1>b DEF NoCloser, ClosingPcs, vars, locks, event, RequestEnds
<1>25. ASSUME NEW p \in Threads, PollTimesOut(p) PROVE CloseCount'
  BY <1>25, <1>a, <1>b DEF NoCloser, ClosingPcs, vars, locks, event, Go, PollTimesOut
<1>26. ASSUME NEW p \in Threads, SleepTimesOut(p) PROVE CloseCount'
  BY <1>26, <1>a, <1>b DEF NoCloser, ClosingPcs, vars, locks, event, Go, SleepTimesOut
<1>27. ASSUME NEW p \in Threads, Interrupt(p) PROVE CloseCount'
  BY <1>27, <1>a, <1>b DEF NoCloser, ClosingPcs, vars, locks, event, Interrupt, Notify
<1>28. ASSUME NEW p \in Threads, NEW h \in Handles, HandleFd(p, h) PROVE CloseCount'
  BY <1>28, <1>a, <1>b DEF NoCloser, ClosingPcs, vars, locks, event, HandleFd
<1>29. ASSUME NEW p \in Threads, NEW h \in Handles, HandleDisconnect(p, h) PROVE CloseCount'
  BY <1>29, <1>a, <1>b DEF NoCloser, ClosingPcs, vars, locks, event, HandleDisconnect, Notify
<1>30. ASSUME NEW p \in Threads, NEW h \in Handles, Request(p, h) PROVE CloseCount'
  BY <1>30, <1>a, <1>b DEF NoCloser, ClosingPcs, vars, locks, event, Request
<1>31. ASSUME NEW p \in Threads, NEW h \in Handles, AddPollFd(p, h) PROVE CloseCount'
  BY <1>31, <1>a, <1>b DEF NoCloser, ClosingPcs, vars, locks, event, Go, AddPollFd, Notify, Idle
<1>32. ASSUME NEW p \in Threads, NEW h \in Handles, CloseCall(p, h) PROVE CloseCount'
  <2>1. p \notin Closers /\ p \in Openers
    BY <1>32 DEF CloseCall, Idle, Closers, ClosingPcs
  <2>2. Closers' = Closers \cup {p}
    BY <1>32, <1>a, <2>1 DEF CloseCall, Go, Closers, ClosingPcs
  <2>3. device_close' = device_close + 1
    BY <1>32 DEF CloseCall, Notify
  <2>4. Cardinality(Closers') = Cardinality(Closers) + 1
    BY <1>a, <2>1, <2>2, ClosersCount
  <2>5. \A q \in Threads : pc'[q] \in ClosingPcs => q \in Openers
    BY <1>32, <1>a, <2>1 DEF CloseCall, Go, CloseCount, ClosingPcs
  <2> QED
    BY <2>3, <2>4, <2>5 DEF CloseCount
<1>33. ASSUME NEW p \in Users, KernelCompletes(p) PROVE CloseCount'
  BY <1>33, <1>a, <1>b DEF NoCloser, ClosingPcs, vars, locks, event, KernelCompletes
<1>34. ASSUME NEW h \in Handles, Unplug(h) PROVE CloseCount'
  BY <1>34, <1>a, <1>b DEF NoCloser, ClosingPcs, vars, locks, event, Unplug
<1> QED
  BY <1>1, <1>2, <1>3, <1>4, <1>5, <1>6, <1>7, <1>8, <1>9, <1>10,
     <1>11, <1>12, <1>13, <1>14, <1>15, <1>16, <1>17, <1>18, <1>19,
     <1>20, <1>21, <1>22, <1>23, <1>24, <1>25, <1>26, <1>27, <1>28,
     <1>29, <1>30, <1>31, <1>32, <1>33, <1>34
  DEF Next, Inside, EventLoop, Opening, Closing, Calls

-----------------------------------------------------------------------------
(* The pipe. *)

(* Notify() and Settle() keep the pipe exact when they are told the truth. *)
LEMMA NotifyExact ==
    ASSUME PipeExact, NEW f, NEW c, Notify(f, c), Pending(f, c)
    PROVE  PipeExact'
BY DEF PipeExact, Notify, Pending

LEMMA SettleExact ==
    ASSUME PipeExact, NEW f, NEW c, Settle(f, c),
           Pending(f, c) => Pending(flags, device_close)
    PROVE  PipeExact'
<1>1. CASE Pending(f, c)
  BY <1>1 DEF PipeExact, Settle, Pending
<1>2. CASE ~Pending(f, c)
  BY <1>2 DEF PipeExact, Settle, Pending
<1> QED
  BY <1>1, <1>2

LEMMA PipeStep ==
    ASSUME EventConstants, TypeOK, CloseCount, PipeExact, [Next]_vars
    PROVE  PipeExact'
<1>a. ASSUME UNCHANGED event PROVE PipeExact'
  BY <1>a DEF event, PipeExact, Pending
<1>1. CASE UNCHANGED vars
  BY <1>1, <1>a DEF vars
<1>2. ASSUME NEW p \in Threads, HandleEvents(p) PROVE PipeExact'
  BY <1>2, <1>a DEF event, Go, HandleEvents
<1>3. ASSUME NEW p \in Threads, TryLock(p) PROVE PipeExact'
  BY <1>3, <1>a DEF event, Go, TryLock
<1>4. ASSUME NEW p \in Threads, TryLockEvents(p) PROVE PipeExact'
  BY <1>4, <1>a DEF event, Go, TryLockEvents
<1>5. ASSUME NEW p \in Threads, Own(p) PROVE PipeExact'
  BY <1>5, <1>a DEF event, Go, Own
<1>6. ASSUME NEW p \in Threads, BuildPollFds(p) PROVE PipeExact'
  <2>1. CASE "POLLFDS_MODIFIED" \in flags
    <3>1. Settle(flags \ {"POLLFDS_MODIFIED"}, device_close)
      BY <1>6, <2>1 DEF BuildPollFds
    <3>2. Pending(flags, device_close)
      BY <2>1 DEF Pending
    <3> QED
      BY <3>1, <3>2, SettleExact
  <2>2. CASE "POLLFDS_MODIFIED" \notin flags
    BY <1>6, <2>2, <1>a DEF BuildPollFds
  <2> QED
    BY <2>1, <2>2
<1>7. ASSUME NEW p \in Threads, Poll(p) PROVE PipeExact'
  BY <1>7, <1>a DEF event, Go, Poll
<1>8. ASSUME NEW p \in Threads, EventPipe(p) PROVE PipeExact'
  <2>1. CASE "pipe" \in fired
    <3>1. Settle(flags \ {"USER_INTERRUPT"}, device_close)
      BY <1>8, <2>1 DEF EventPipe
    <3>2. Pending(flags \ {"USER_INTERRUPT"}, device_close) => Pending(flags, device_close)
      BY DEF Pending
    <3> QED
      BY <3>1, <3>2, SettleExact
  <2>2. CASE "pipe" \notin fired
    BY <1>8, <2>2, <1>a DEF EventPipe
  <2> QED
    BY <2>1, <2>2
<1>9. ASSUME NEW p \in Threads, BackendStart(p) PROVE PipeExact'
  BY <1>9, <1>a DEF event, Go, BackendStart
<1>10. ASSUME NEW p \in Threads, BackendEnd(p) PROVE PipeExact'
  BY <1>10, <1>a DEF event, Go, BackendEnd
<1>11. ASSUME NEW p \in Threads, Unlock(p) PROVE PipeExact'
  BY <1>11, <1>a DEF event, Go, Unlock
<1>12. ASSUME NEW p \in Threads, Release(p) PROVE PipeExact'
  BY <1>12, <1>a DEF event, Go, Release
<1>13. ASSUME NEW p \in Threads, Broadcast(p) PROVE PipeExact'
  BY <1>13, <1>a DEF event, Broadcast
<1>14. ASSUME NEW p \in Threads, LockWaiters(p) PROVE PipeExact'
  BY <1>14, <1>a DEF event, Go, LockWaiters
<1>15. ASSUME NEW p \in Threads, ReadClosing(p) PROVE PipeExact'
  BY <1>15, <1>a DEF event, Go, ReadClosing
<1>16. ASSUME NEW p \in Threads, ReadActive(p) PROVE PipeExact'
  BY <1>16, <1>a DEF event, Go, ReadActive
<1>17. ASSUME NEW p \in Threads, Sleep(p) PROVE PipeExact'
  BY <1>17, <1>a DEF event, Go, Sleep
<1>18. ASSUME NEW p \in Threads, Woken(p) PROVE PipeExact'
  BY <1>18, <1>a DEF event, Go, Woken
<1>19. ASSUME NEW p \in Threads, ListHandle(p) PROVE PipeExact'
  BY <1>19, <1>a DEF event, Go, ListHandle
<1>20. ASSUME NEW p \in Threads, LockEvents(p) PROVE PipeExact'
  BY <1>20, <1>a DEF event, Go, LockEvents
<1>21. ASSUME NEW p \in Threads, CloseOwns(p) PROVE PipeExact'
  BY <1>21, <1>a DEF event, Go, CloseOwns
<1>22. ASSUME NEW p \in Threads, DoClose(p) PROVE PipeExact'
  <2>1. CASE dev[p] \notin fd_removed
    <3>1. Notify(flags \cup {"POLLFDS_MODIFIED"}, device_close)
      BY <1>22, <2>1 DEF DoClose
    <3>2. Pending(flags \cup {"POLLFDS_MODIFIED"}, device_close)
      BY DEF Pending
    <3> QED
      BY <3>1, <3>2, NotifyExact
  <2>2. CASE dev[p] \in fd_removed
    BY <1>22, <2>2, <1>a DEF DoClose
  <2> QED
    BY <2>1, <2>2
<1>23. ASSUME NEW p \in Threads, CloseEnds(p) PROVE PipeExact'
  <2>1. Settle(flags, device_close - 1)
    BY <1>23 DEF CloseEnds
  <2>2. p \in Closers
    BY <1>23 DEF CloseEnds, CloseCount, Closers, ClosingPcs
  <2>3. device_close > 0
    BY <2>2, ClosersCount DEF Closers, CloseCount
  <2>4. Pending(flags, device_close)
    BY <2>3 DEF Pending
  <2> QED
    BY <2>1, <2>4, SettleExact
<1>24. ASSUME NEW p \in Threads, RequestEnds(p) PROVE PipeExact'
  BY <1>24, <1>a DEF event, RequestEnds
<1>25. ASSUME NEW p \in Threads, PollTimesOut(p) PROVE PipeExact'
  BY <1>25, <1>a DEF event, Go, PollTimesOut
<1>26. ASSUME NEW p \in Threads, SleepTimesOut(p) PROVE PipeExact'
  BY <1>26, <1>a DEF event, Go, SleepTimesOut
<1>27. ASSUME NEW p \in Threads, Interrupt(p) PROVE PipeExact'
  <2>1. Notify(flags \cup {"USER_INTERRUPT"}, device_close)
    BY <1>27 DEF Interrupt
  <2>2. Pending(flags \cup {"USER_INTERRUPT"}, device_close)
    BY DEF Pending
  <2> QED
    BY <2>1, <2>2, NotifyExact
<1>28. ASSUME NEW p \in Threads, NEW h \in Handles, HandleFd(p, h) PROVE PipeExact'
  BY <1>28, <1>a DEF event, HandleFd
<1>29. ASSUME NEW p \in Threads, NEW h \in Handles, HandleDisconnect(p, h) PROVE PipeExact'
  <2>1. CASE h \in ipollfds
    <3>1. Notify(flags \cup {"POLLFDS_MODIFIED"}, device_close)
      BY <1>29, <2>1 DEF HandleDisconnect
    <3>2. Pending(flags \cup {"POLLFDS_MODIFIED"}, device_close)
      BY DEF Pending
    <3> QED
      BY <3>1, <3>2, NotifyExact
  <2>2. CASE h \notin ipollfds
    BY <1>29, <2>2, <1>a DEF HandleDisconnect
  <2> QED
    BY <2>1, <2>2
<1>30. ASSUME NEW p \in Threads, NEW h \in Handles, Request(p, h) PROVE PipeExact'
  BY <1>30, <1>a DEF event, Request
<1>31. ASSUME NEW p \in Threads, NEW h \in Handles, AddPollFd(p, h) PROVE PipeExact'
  <2>1. Notify(flags \cup {"POLLFDS_MODIFIED"}, device_close)
    BY <1>31 DEF AddPollFd
  <2>2. Pending(flags \cup {"POLLFDS_MODIFIED"}, device_close)
    BY DEF Pending
  <2> QED
    BY <2>1, <2>2, NotifyExact
<1>32. ASSUME NEW p \in Threads, NEW h \in Handles, CloseCall(p, h) PROVE PipeExact'
  <2>1. Notify(flags, device_close + 1)
    BY <1>32 DEF CloseCall
  <2>2. Pending(flags, device_close + 1)
    BY DEF Pending, TypeOK
  <2> QED
    BY <2>1, <2>2, NotifyExact
<1>33. ASSUME NEW p \in Users, KernelCompletes(p) PROVE PipeExact'
  BY <1>33, <1>a DEF event, KernelCompletes
<1>34. ASSUME NEW h \in Handles, Unplug(h) PROVE PipeExact'
  BY <1>34, <1>a DEF event, Unplug
<1> QED
  BY <1>1, <1>2, <1>3, <1>4, <1>5, <1>6, <1>7, <1>8, <1>9, <1>10,
     <1>11, <1>12, <1>13, <1>14, <1>15, <1>16, <1>17, <1>18, <1>19,
     <1>20, <1>21, <1>22, <1>23, <1>24, <1>25, <1>26, <1>27, <1>28,
     <1>29, <1>30, <1>31, <1>32, <1>33, <1>34
  DEF Next, Inside, EventLoop, Opening, Closing, Calls

-----------------------------------------------------------------------------
(* Handles. *)

(* A step that opens nothing, closes nothing and forgets no handle. *)
NoHandle ==
    /\ \A q \in Threads : Busy(q)' <=> Busy(q)
    /\ \A q \in Threads : Busy(q) => dev'[q] = dev[q] /\ (pc'[q] = "list" <=> pc[q] = "list")
    /\ phase' = phase

LEMMA DevStep ==
    ASSUME EventConstants, TypeOK, LockInv, DevInv, [Next]_vars
    PROVE  DevInv'
<1>a. /\ pc \in [Threads -> Places] /\ dev \in [Threads -> Handles \cup {"none"}]
      /\ phase \in [Handles -> {"new", "opening", "open", "closing", "closed"}]
      /\ \A q \in Threads : q \in waiting => pc[q] = "asleep"
  BY DEF TypeOK, LockInv
<1>b. ASSUME NoHandle PROVE DevInv'
  BY <1>b DEF NoHandle, DevInv, Busy
<1>1. CASE UNCHANGED vars
  BY <1>1, <1>b DEF NoHandle, Busy, vars, devs
<1>2. ASSUME NEW p \in Threads, HandleEvents(p) PROVE DevInv'
  BY <1>2, <1>a, <1>b DEF NoHandle, Busy, ClosingPcs, locks, event, devs, Go, HandleEvents
<1>3. ASSUME NEW p \in Threads, TryLock(p) PROVE DevInv'
  BY <1>3, <1>a, <1>b DEF NoHandle, Busy, ClosingPcs, locks, event, devs, Go, TryLock
<1>4. ASSUME NEW p \in Threads, TryLockEvents(p) PROVE DevInv'
  BY <1>4, <1>a, <1>b DEF NoHandle, Busy, ClosingPcs, locks, event, devs, Go, TryLockEvents
<1>5. ASSUME NEW p \in Threads, Own(p) PROVE DevInv'
  BY <1>5, <1>a, <1>b DEF NoHandle, Busy, ClosingPcs, locks, event, devs, Go, Own
<1>6. ASSUME NEW p \in Threads, BuildPollFds(p) PROVE DevInv'
  BY <1>6, <1>a, <1>b DEF NoHandle, Busy, ClosingPcs, locks, event, devs, Go, BuildPollFds
<1>7. ASSUME NEW p \in Threads, Poll(p) PROVE DevInv'
  BY <1>7, <1>a, <1>b DEF NoHandle, Busy, ClosingPcs, locks, event, devs, Go, Poll
<1>8. ASSUME NEW p \in Threads, EventPipe(p) PROVE DevInv'
  BY <1>8, <1>a, <1>b DEF NoHandle, Busy, ClosingPcs, locks, event, devs, Go, EventPipe
<1>9. ASSUME NEW p \in Threads, BackendStart(p) PROVE DevInv'
  BY <1>9, <1>a, <1>b DEF NoHandle, Busy, ClosingPcs, locks, event, devs, Go, BackendStart
<1>10. ASSUME NEW p \in Threads, BackendEnd(p) PROVE DevInv'
  BY <1>10, <1>a, <1>b DEF NoHandle, Busy, ClosingPcs, locks, event, devs, Go, BackendEnd
<1>11. ASSUME NEW p \in Threads, Unlock(p) PROVE DevInv'
  BY <1>11, <1>a, <1>b DEF NoHandle, Busy, ClosingPcs, locks, event, devs, Go, Unlock
<1>12. ASSUME NEW p \in Threads, Release(p) PROVE DevInv'
  BY <1>12, <1>a, <1>b DEF NoHandle, Busy, ClosingPcs, locks, event, devs, Go, Release
<1>13. ASSUME NEW p \in Threads, Broadcast(p) PROVE DevInv'
  BY <1>13, <1>a, <1>b DEF NoHandle, Busy, ClosingPcs, locks, event, devs, Broadcast
<1>14. ASSUME NEW p \in Threads, LockWaiters(p) PROVE DevInv'
  BY <1>14, <1>a, <1>b DEF NoHandle, Busy, ClosingPcs, locks, event, devs, Go, LockWaiters
<1>15. ASSUME NEW p \in Threads, ReadClosing(p) PROVE DevInv'
  BY <1>15, <1>a, <1>b DEF NoHandle, Busy, ClosingPcs, locks, event, devs, Go, ReadClosing
<1>16. ASSUME NEW p \in Threads, ReadActive(p) PROVE DevInv'
  BY <1>16, <1>a, <1>b DEF NoHandle, Busy, ClosingPcs, locks, event, devs, Go, ReadActive
<1>17. ASSUME NEW p \in Threads, Sleep(p) PROVE DevInv'
  BY <1>17, <1>a, <1>b DEF NoHandle, Busy, ClosingPcs, locks, event, devs, Go, Sleep
<1>18. ASSUME NEW p \in Threads, Woken(p) PROVE DevInv'
  BY <1>18, <1>a, <1>b DEF NoHandle, Busy, ClosingPcs, locks, event, devs, Go, Woken
<1>19. ASSUME NEW p \in Threads, ListHandle(p) PROVE DevInv'
  <2>1. /\ Busy(p) /\ dev[p] \in Handles
        /\ \A q \in Threads \ {p} : Busy(q) => dev[q] # dev[p]
    BY <1>19 DEF ListHandle, Busy, DevInv
  <2>2. /\ pc' = [pc EXCEPT ![p] = "rest"]
        /\ dev' = [dev EXCEPT ![p] = "none"]
        /\ phase' = [phase EXCEPT ![dev[p]] = "open"]
    BY <1>19 DEF ListHandle, Go
  <2> QED
    BY <1>a, <2>1, <2>2 DEF DevInv, Busy, ClosingPcs
<1>20. ASSUME NEW p \in Threads, LockEvents(p) PROVE DevInv'
  BY <1>20, <1>a, <1>b DEF NoHandle, Busy, ClosingPcs, locks, event, devs, Go, LockEvents
<1>21. ASSUME NEW p \in Threads, CloseOwns(p) PROVE DevInv'
  BY <1>21, <1>a, <1>b DEF NoHandle, Busy, ClosingPcs, locks, event, devs, Go, CloseOwns
<1>22. ASSUME NEW p \in Threads, DoClose(p) PROVE DevInv'
  BY <1>22, <1>a, <1>b DEF NoHandle, Busy, ClosingPcs, locks, event, devs, Go, DoClose
<1>23. ASSUME NEW p \in Threads, CloseEnds(p) PROVE DevInv'
  <2>1. /\ Busy(p) /\ dev[p] \in Handles
        /\ \A q \in Threads \ {p} : Busy(q) => dev[q] # dev[p]
    BY <1>23 DEF CloseEnds, Busy, ClosingPcs, DevInv
  <2>2. /\ pc' = [pc EXCEPT ![p] = "unlock"]
        /\ dev' = [dev EXCEPT ![p] = "none"]
        /\ phase' = [phase EXCEPT ![dev[p]] = "closed"]
    BY <1>23 DEF CloseEnds, Go
  <2> QED
    BY <1>a, <2>1, <2>2 DEF DevInv, Busy, ClosingPcs
<1>24. ASSUME NEW p \in Threads, RequestEnds(p) PROVE DevInv'
  BY <1>24, <1>a, <1>b DEF NoHandle, Busy, ClosingPcs, locks, event, devs, RequestEnds
<1>25. ASSUME NEW p \in Threads, PollTimesOut(p) PROVE DevInv'
  BY <1>25, <1>a, <1>b DEF NoHandle, Busy, ClosingPcs, locks, event, devs, Go, PollTimesOut
<1>26. ASSUME NEW p \in Threads, SleepTimesOut(p) PROVE DevInv'
  BY <1>26, <1>a, <1>b DEF NoHandle, Busy, ClosingPcs, locks, event, devs, Go, SleepTimesOut
<1>27. ASSUME NEW p \in Threads, Interrupt(p) PROVE DevInv'
  BY <1>27, <1>a, <1>b DEF NoHandle, Busy, ClosingPcs, locks, event, devs, Interrupt
<1>28. ASSUME NEW p \in Threads, NEW h \in Handles, HandleFd(p, h) PROVE DevInv'
  BY <1>28, <1>a, <1>b DEF NoHandle, Busy, ClosingPcs, locks, event, devs, HandleFd
<1>29. ASSUME NEW p \in Threads, NEW h \in Handles, HandleDisconnect(p, h) PROVE DevInv'
  BY <1>29, <1>a, <1>b DEF NoHandle, Busy, ClosingPcs, locks, event, devs, HandleDisconnect
<1>30. ASSUME NEW p \in Threads, NEW h \in Handles, Request(p, h) PROVE DevInv'
  BY <1>30, <1>a, <1>b DEF NoHandle, Busy, ClosingPcs, locks, event, devs, Request, Idle
<1>31. ASSUME NEW p \in Threads, NEW h \in Handles, AddPollFd(p, h) PROVE DevInv'
  <2>1. /\ ~Busy(p)
        /\ \A q \in Threads : Busy(q) => dev[q] # h
    BY <1>31 DEF AddPollFd, Idle, Busy, ClosingPcs, DevInv
  <2>2. /\ pc' = [pc EXCEPT ![p] = "list"]
        /\ dev' = [dev EXCEPT ![p] = h]
        /\ phase' = [phase EXCEPT ![h] = "opening"]
    BY <1>31 DEF AddPollFd, Go
  <2> QED
    BY <1>a, <2>1, <2>2 DEF DevInv, Busy, ClosingPcs
<1>32. ASSUME NEW p \in Threads, NEW h \in Handles, CloseCall(p, h) PROVE DevInv'
  <2>1. /\ ~Busy(p)
        /\ \A q \in Threads : Busy(q) => dev[q] # h
    BY <1>32 DEF CloseCall, Idle, Busy, ClosingPcs, DevInv
  <2>2. /\ pc' = [pc EXCEPT ![p] = "lock"]
        /\ dev' = [dev EXCEPT ![p] = h]
        /\ phase' = [phase EXCEPT ![h] = "closing"]
    BY <1>32 DEF CloseCall, Go
  <2> QED
    BY <1>a, <2>1, <2>2 DEF DevInv, Busy, ClosingPcs
<1>33. ASSUME NEW p \in Users, KernelCompletes(p) PROVE DevInv'
  BY <1>33, <1>a, <1>b DEF NoHandle, Busy, ClosingPcs, locks, event, devs, KernelCompletes
<1>34. ASSUME NEW h \in Handles, Unplug(h) PROVE DevInv'
  BY <1>34, <1>a, <1>b DEF NoHandle, Busy, ClosingPcs, locks, event, devs, Unplug
<1> QED
  BY <1>1, <1>2, <1>3, <1>4, <1>5, <1>6, <1>7, <1>8, <1>9, <1>10,
     <1>11, <1>12, <1>13, <1>14, <1>15, <1>16, <1>17, <1>18, <1>19,
     <1>20, <1>21, <1>22, <1>23, <1>24, <1>25, <1>26, <1>27, <1>28,
     <1>29, <1>30, <1>31, <1>32, <1>33, <1>34
  DEF Next, Inside, EventLoop, Opening, Closing, Calls

-----------------------------------------------------------------------------
(* What is polled. *)

(* A step that neither opens nor closes nor disconnects. *)
NoFd ==
    /\ UNCHANGED <<flags, pollfds, ipollfds, open_devs, phase, fd_removed>>
    /\ \A q \in Threads : pc'[q] = "finish" => pc[q] = "finish" /\ dev'[q] = dev[q]

LEMMA FdStep ==
    ASSUME EventConstants, TypeOK, LockInv, DevInv, FdInv, [Next]_vars
    PROVE  FdInv'
<1>a. /\ pc \in [Threads -> Places] /\ dev \in [Threads -> Handles \cup {"none"}]
      /\ phase \in [Handles -> {"new", "opening", "open", "closing", "closed"}]
      /\ open_devs \subseteq Handles /\ ipollfds \subseteq Handles /\ fd_removed \subseteq Handles
      /\ \A q \in Threads : q \in waiting => pc[q] = "asleep"
  BY DEF TypeOK, LockInv
<1>b. ASSUME NoFd PROVE FdInv'
  BY <1>b DEF NoFd, FdInv
<1>c. \A q \in Threads : pc[q] = "finish" =>
          dev[q] \in Handles /\ phase[dev[q]] = "closing" /\ dev[q] \notin ipollfds \cup open_devs
  BY DEF DevInv, Busy, ClosingPcs, FdInv
<1>1. CASE UNCHANGED vars
  BY <1>1, <1>b DEF NoFd, vars, event, polls, devs
<1>2. ASSUME NEW p \in Threads, HandleEvents(p) PROVE FdInv'
  BY <1>2, <1>a, <1>b DEF NoFd, locks, event, polls, devs, Go, HandleEvents
<1>3. ASSUME NEW p \in Threads, TryLock(p) PROVE FdInv'
  BY <1>3, <1>a, <1>b DEF NoFd, locks, event, polls, devs, Go, TryLock
<1>4. ASSUME NEW p \in Threads, TryLockEvents(p) PROVE FdInv'
  BY <1>4, <1>a, <1>b DEF NoFd, locks, event, polls, devs, Go, TryLockEvents
<1>5. ASSUME NEW p \in Threads, Own(p) PROVE FdInv'
  BY <1>5, <1>a, <1>b DEF NoFd, locks, event, polls, devs, Go, Own
<1>6. ASSUME NEW p \in Threads, BuildPollFds(p) PROVE FdInv'
  <2>1. /\ pollfds' = ipollfds /\ ipollfds' = ipollfds
        /\ UNCHANGED <<open_devs, phase, fd_removed, dev>>
        /\ pc' = [pc EXCEPT ![p] = "poll"]
    BY <1>6 DEF BuildPollFds, FdInv, devs, Go
  <2> QED
    BY <1>a, <2>1 DEF FdInv
<1>7. ASSUME NEW p \in Threads, Poll(p) PROVE FdInv'
  BY <1>7, <1>a, <1>b DEF NoFd, locks, event, polls, devs, Go, Poll
<1>8. ASSUME NEW p \in Threads, EventPipe(p) PROVE FdInv'
  <2>1. "POLLFDS_MODIFIED" \notin flags' => "POLLFDS_MODIFIED" \notin flags
    BY <1>8 DEF EventPipe, Settle, event
  <2>2. /\ UNCHANGED <<pollfds, ipollfds, open_devs, phase, fd_removed, dev>>
        /\ \A q \in Threads : pc'[q] = "finish" => pc[q] = "finish"
    BY <1>8, <1>a DEF EventPipe, devs, Go
  <2> QED
    BY <2>1, <2>2 DEF FdInv
<1>9. ASSUME NEW p \in Threads, BackendStart(p) PROVE FdInv'
  BY <1>9, <1>a, <1>b DEF NoFd, locks, event, polls, devs, Go, BackendStart
<1>10. ASSUME NEW p \in Threads, BackendEnd(p) PROVE FdInv'
  BY <1>10, <1>a, <1>b DEF NoFd, locks, event, polls, devs, Go, BackendEnd
<1>11. ASSUME NEW p \in Threads, Unlock(p) PROVE FdInv'
  BY <1>11, <1>a, <1>b DEF NoFd, locks, event, polls, devs, Go, Unlock
<1>12. ASSUME NEW p \in Threads, Release(p) PROVE FdInv'
  BY <1>12, <1>a, <1>b DEF NoFd, locks, event, polls, devs, Go, Release
<1>13. ASSUME NEW p \in Threads, Broadcast(p) PROVE FdInv'
  BY <1>13, <1>a, <1>b DEF NoFd, locks, event, polls, devs, Broadcast
<1>14. ASSUME NEW p \in Threads, LockWaiters(p) PROVE FdInv'
  BY <1>14, <1>a, <1>b DEF NoFd, locks, event, polls, devs, Go, LockWaiters
<1>15. ASSUME NEW p \in Threads, ReadClosing(p) PROVE FdInv'
  BY <1>15, <1>a, <1>b DEF NoFd, locks, event, polls, devs, Go, ReadClosing
<1>16. ASSUME NEW p \in Threads, ReadActive(p) PROVE FdInv'
  BY <1>16, <1>a, <1>b DEF NoFd, locks, event, polls, devs, Go, ReadActive
<1>17. ASSUME NEW p \in Threads, Sleep(p) PROVE FdInv'
  BY <1>17, <1>a, <1>b DEF NoFd, locks, event, polls, devs, Go, Sleep
<1>18. ASSUME NEW p \in Threads, Woken(p) PROVE FdInv'
  BY <1>18, <1>a, <1>b DEF NoFd, locks, event, polls, devs, Go, Woken
<1>19. ASSUME NEW p \in Threads, ListHandle(p) PROVE FdInv'
  <2>1. dev[p] \in Handles /\ phase[dev[p]] = "opening"
    BY <1>19 DEF ListHandle, DevInv, Busy
  <2>2. /\ pc' = [pc EXCEPT ![p] = "rest"]
        /\ dev' = [dev EXCEPT ![p] = "none"]
        /\ phase' = [phase EXCEPT ![dev[p]] = "open"]
        /\ open_devs' = open_devs \cup {dev[p]}
        /\ UNCHANGED <<flags, pollfds, ipollfds, fd_removed>>
    BY <1>19 DEF ListHandle, Go, polls, event
  <2>3. \A q \in Threads : pc'[q] = "finish" => pc[q] = "finish" /\ dev'[q] = dev[q]
    BY <1>a, <2>2
  <2>4. \A q \in Threads : pc[q] = "finish" => dev[q] # dev[p]
    BY <1>c, <2>1
  <2> QED
    BY <1>a, <1>c, <2>1, <2>2, <2>3, <2>4 DEF FdInv
<1>20. ASSUME NEW p \in Threads, LockEvents(p) PROVE FdInv'
  BY <1>20, <1>a, <1>b DEF NoFd, locks, event, polls, devs, Go, LockEvents
<1>21. ASSUME NEW p \in Threads, CloseOwns(p) PROVE FdInv'
  BY <1>21, <1>a, <1>b DEF NoFd, locks, event, polls, devs, Go, CloseOwns
<1>22. ASSUME NEW p \in Threads, DoClose(p) PROVE FdInv'
  <2>1. /\ ipollfds' = ipollfds \ {dev[p]} /\ open_devs' = open_devs \ {dev[p]}
        /\ UNCHANGED <<pollfds, phase, dev, fd_removed>>
        /\ pc' = [pc EXCEPT ![p] = "finish"]
    BY <1>22 DEF DoClose, Go
  <2>2. "POLLFDS_MODIFIED" \notin flags' => pollfds' = ipollfds'
    <3>1. CASE dev[p] \notin fd_removed
      <4>1. Notify(flags \cup {"POLLFDS_MODIFIED"}, device_close)
        BY <1>22, <3>1 DEF DoClose
      <4> QED
        BY <4>1 DEF Notify
    <3>2. CASE dev[p] \in fd_removed
      <4>1. dev[p] \notin ipollfds
        BY <3>2 DEF FdInv
      <4> QED
        BY <1>22, <2>1, <3>2, <4>1 DEF DoClose, event, FdInv
    <3> QED
      BY <3>1, <3>2
  <2> QED
    BY <1>a, <2>1, <2>2 DEF FdInv
<1>23. ASSUME NEW p \in Threads, CloseEnds(p) PROVE FdInv'
  <2>1. dev[p] \in Handles /\ dev[p] \notin ipollfds \cup open_devs
    BY <1>23, <1>c DEF CloseEnds
  <2>2. /\ pc' = [pc EXCEPT ![p] = "unlock"]
        /\ dev' = [dev EXCEPT ![p] = "none"]
        /\ phase' = [phase EXCEPT ![dev[p]] = "closed"]
        /\ UNCHANGED <<flags, pollfds, ipollfds, open_devs, fd_removed>>
    BY <1>23 DEF CloseEnds, Go, Settle, polls
  <2>3. \A q \in Threads : pc'[q] = "finish" => pc[q] = "finish" /\ dev'[q] = dev[q]
    BY <1>a, <2>2
  <2> QED
    BY <1>a, <1>c, <2>1, <2>2, <2>3 DEF FdInv
<1>24. ASSUME NEW p \in Threads, RequestEnds(p) PROVE FdInv'
  BY <1>24, <1>a, <1>b DEF NoFd, locks, event, polls, devs, RequestEnds
<1>25. ASSUME NEW p \in Threads, PollTimesOut(p) PROVE FdInv'
  BY <1>25, <1>a, <1>b DEF NoFd, locks, event, polls, devs, Go, PollTimesOut
<1>26. ASSUME NEW p \in Threads, SleepTimesOut(p) PROVE FdInv'
  BY <1>26, <1>a, <1>b DEF NoFd, locks, event, polls, devs, Go, SleepTimesOut
<1>27. ASSUME NEW p \in Threads, Interrupt(p) PROVE FdInv'
  <2>1. "POLLFDS_MODIFIED" \notin flags' => "POLLFDS_MODIFIED" \notin flags
    BY <1>27 DEF Interrupt, Notify
  <2>2. UNCHANGED <<pollfds, ipollfds, open_devs, phase, fd_removed, dev, pc>>
    BY <1>27 DEF Interrupt, devs, polls
  <2> QED
    BY <2>1, <2>2 DEF FdInv
<1>28. ASSUME NEW p \in Threads, NEW h \in Handles, HandleFd(p, h) PROVE FdInv'
  BY <1>28, <1>a, <1>b DEF NoFd, locks, event, polls, devs, HandleFd
<1>29. ASSUME NEW p \in Threads, NEW h \in Handles, HandleDisconnect(p, h) PROVE FdInv'
  <2>1. /\ ipollfds' = ipollfds \ {h} /\ fd_removed' = fd_removed \cup {h}
        /\ h \in open_devs
        /\ UNCHANGED <<pollfds, open_devs, phase, dev, pc>>
    BY <1>29 DEF HandleDisconnect
  <2>2. "POLLFDS_MODIFIED" \notin flags' => pollfds' = ipollfds'
    <3>1. CASE h \in ipollfds
      <4>1. Notify(flags \cup {"POLLFDS_MODIFIED"}, device_close)
        BY <1>29, <3>1 DEF HandleDisconnect
      <4> QED
        BY <4>1 DEF Notify
    <3>2. CASE h \notin ipollfds
      BY <1>29, <2>1, <3>2 DEF HandleDisconnect, event, FdInv
    <3> QED
      BY <3>1, <3>2
  <2> QED
    BY <1>a, <2>1, <2>2 DEF FdInv
<1>30. ASSUME NEW p \in Threads, NEW h \in Handles, Request(p, h) PROVE FdInv'
  <2>1. pc[p] = "rest" /\ dev' = [dev EXCEPT ![p] = h] /\ pc' = pc
        /\ UNCHANGED <<flags, pollfds, ipollfds, open_devs, phase, fd_removed>>
    BY <1>30 DEF Request, Idle, event, polls, devs
  <2> QED
    BY <1>a, <1>b, <2>1 DEF NoFd
<1>31. ASSUME NEW p \in Threads, NEW h \in Handles, AddPollFd(p, h) PROVE FdInv'
  <2>1. /\ phase[h] = "new" /\ h \notin fd_removed
    BY <1>31 DEF AddPollFd, FdInv
  <2>2. /\ pc' = [pc EXCEPT ![p] = "list"]
        /\ dev' = [dev EXCEPT ![p] = h]
        /\ phase' = [phase EXCEPT ![h] = "opening"]
        /\ ipollfds' = ipollfds \cup {h}
        /\ UNCHANGED <<open_devs, fd_removed>>
        /\ "POLLFDS_MODIFIED" \in flags'
    BY <1>31 DEF AddPollFd, Go, Notify
  <2>3. \A q \in Threads : pc'[q] = "finish" => pc[q] = "finish" /\ dev'[q] = dev[q]
    BY <1>a, <2>2
  <2>4. \A q \in Threads : pc[q] = "finish" => dev[q] # h
    BY <1>c, <2>1
  <2> QED
    BY <1>a, <1>c, <2>1, <2>2, <2>3, <2>4 DEF FdInv
<1>32. ASSUME NEW p \in Threads, NEW h \in Handles, CloseCall(p, h) PROVE FdInv'
  <2>1. /\ pc' = [pc EXCEPT ![p] = "lock"]
        /\ dev' = [dev EXCEPT ![p] = h]
        /\ phase' = [phase EXCEPT ![h] = "closing"]
        /\ UNCHANGED <<flags, pollfds, ipollfds, open_devs, fd_removed>>
    BY <1>32 DEF CloseCall, Go, Notify, polls
  <2>2. \A q \in Threads : pc'[q] = "finish" => pc[q] = "finish" /\ dev'[q] = dev[q]
    BY <1>a, <2>1
  <2> QED
    BY <1>a, <2>1, <2>2 DEF FdInv
<1>33. ASSUME NEW p \in Users, KernelCompletes(p) PROVE FdInv'
  BY <1>33, <1>a, <1>b DEF NoFd, locks, event, polls, devs, KernelCompletes
<1>34. ASSUME NEW h \in Handles, Unplug(h) PROVE FdInv'
  BY <1>34, <1>a, <1>b DEF NoFd, locks, event, polls, devs, Unplug
<1> QED
  BY <1>1, <1>2, <1>3, <1>4, <1>5, <1>6, <1>7, <1>8, <1>9, <1>10,
     <1>11, <1>12, <1>13, <1>14, <1>15, <1>16, <1>17, <1>18, <1>19,
     <1>20, <1>21, <1>22, <1>23, <1>24, <1>25, <1>26, <1>27, <1>28,
     <1>29, <1>30, <1>31, <1>32, <1>33, <1>34
  DEF Next, Inside, EventLoop, Opening, Closing, Calls

-----------------------------------------------------------------------------
(* Wake-ups. *)

(* A step that puts nobody to sleep and takes no waker away. *)
NoSleep ==
    /\ waiting' \subseteq waiting
    /\ \A q \in Threads : pc'[q] = "sleep" => pc[q] = "sleep"
    /\ events_lock' = "none" => events_lock = "none"
    /\ \A q \in Threads : pc[q] \in {"broadcast", "lock"} => pc'[q] = pc[q]

LEMMA SleepStep ==
    ASSUME EventConstants, TypeOK, LockInv, CloseCount, SleepInv, [Next]_vars
    PROVE  SleepInv'
<1>a. /\ pc \in [Threads -> Places] /\ waiting \subseteq Threads
      /\ "none" \notin Threads
      /\ \A q \in Threads : q \in waiting => pc[q] = "asleep"
  BY DEF TypeOK, LockInv, EventConstants, Threads, Users
<1>b. ASSUME NoSleep PROVE SleepInv'
  <2>1. Waker => Waker'
    BY <1>b DEF NoSleep, Waker
  <2> QED
    BY <1>b, <2>1 DEF NoSleep, SleepInv
<1>1. CASE UNCHANGED vars
  BY <1>1, <1>b DEF NoSleep, vars, locks
<1>2. ASSUME NEW p \in Threads, HandleEvents(p) PROVE SleepInv'
  BY <1>2, <1>a, <1>b DEF NoSleep, locks, Go, HandleEvents
<1>3. ASSUME NEW p \in Threads, TryLock(p) PROVE SleepInv'
  BY <1>3, <1>a, <1>b DEF NoSleep, locks, Go, TryLock
<1>4. ASSUME NEW p \in Threads, TryLockEvents(p) PROVE SleepInv'
  BY <1>4, <1>a, <1>b DEF NoSleep, locks, Go, TryLockEvents
<1>5. ASSUME NEW p \in Threads, Own(p) PROVE SleepInv'
  BY <1>5, <1>a, <1>b DEF NoSleep, locks, Go, Own
<1>6. ASSUME NEW p \in Threads, BuildPollFds(p) PROVE SleepInv'
  BY <1>6, <1>a, <1>b DEF NoSleep, locks, Go, BuildPollFds
<1>7. ASSUME NEW p \in Threads, Poll(p) PROVE SleepInv'
  BY <1>7, <1>a, <1>b DEF NoSleep, locks, Go, Poll
<1>8. ASSUME NEW p \in Threads, EventPipe(p) PROVE SleepInv'
  BY <1>8, <1>a, <1>b DEF NoSleep, locks, Go, EventPipe
<1>9. ASSUME NEW p \in Threads, BackendStart(p) PROVE SleepInv'
  BY <1>9, <1>a, <1>b DEF NoSleep, locks, Go, BackendStart
<1>10. ASSUME NEW p \in Threads, BackendEnd(p) PROVE SleepInv'
  BY <1>10, <1>a, <1>b DEF NoSleep, locks, Go, BackendEnd
<1>11. ASSUME NEW p \in Threads, Unlock(p) PROVE SleepInv'
  BY <1>11, <1>a, <1>b DEF NoSleep, locks, Go, Unlock
<1>12. ASSUME NEW p \in Threads, Release(p) PROVE SleepInv'
  <2>1. pc'[p] = "broadcast"
    BY <1>12, <1>a DEF Release, Go
  <2> QED
    BY <2>1 DEF SleepInv, Waker
<1>13. ASSUME NEW p \in Threads, Broadcast(p) PROVE SleepInv'
  <2>1. \A q \in Threads : pc[q] # "sleep"
    BY <1>13, <1>a DEF Broadcast, LockInv
  <2>2. waiting' = {} /\ \A q \in Threads : pc'[q] # "sleep"
    BY <1>13, <1>a, <2>1 DEF Broadcast
  <2> QED
    BY <2>2 DEF SleepInv
<1>14. ASSUME NEW p \in Threads, LockWaiters(p) PROVE SleepInv'
  BY <1>14, <1>a, <1>b DEF NoSleep, locks, Go, LockWaiters
<1>15. ASSUME NEW p \in Threads, ReadClosing(p) PROVE SleepInv'
  <2>1. CASE device_close > 0
    <3>1. Closers # {}
      BY <2>1, ClosersCount DEF CloseCount, Closers
    <3>2. PICK q \in Threads : pc[q] \in ClosingPcs
      BY <3>1 DEF Closers, Threads, Users
    <3>3. pc[q] = "lock" \/ events_lock = q
      BY <3>2 DEF ClosingPcs, LockInv, Holding
    <3>4. Waker
      BY <1>a, <3>3 DEF Waker
    <3>5. Waker'
      BY <1>15, <1>a, <3>4 DEF ReadClosing, Go, locks, Waker
    <3> QED
      BY <3>5 DEF SleepInv
  <2>2. CASE ~(device_close > 0)
    BY <1>15, <1>a, <1>b, <2>2 DEF ReadClosing, Go, locks, NoSleep
  <2> QED
    BY <2>1, <2>2
<1>16. ASSUME NEW p \in Threads, ReadActive(p) PROVE SleepInv'
  <2>1. CASE event_handler_active
    <3>1. events_lock # "none" /\ events_lock' = events_lock
      BY <1>16, <2>1 DEF LockInv, ReadActive
    <3> QED
      BY <3>1 DEF SleepInv, Waker
  <2>2. CASE ~event_handler_active
    BY <1>16, <1>a, <1>b, <2>2 DEF ReadActive, Go, NoSleep
  <2> QED
    BY <2>1, <2>2
<1>17. ASSUME NEW p \in Threads, Sleep(p) PROVE SleepInv'
  <2>1. Waker
    BY <1>17 DEF Sleep, SleepInv
  <2>2. Waker'
    BY <1>17, <1>a, <2>1 DEF Sleep, Go, Waker
  <2> QED
    BY <2>2 DEF SleepInv
<1>18. ASSUME NEW p \in Threads, Woken(p) PROVE SleepInv'
  BY <1>18, <1>a, <1>b DEF NoSleep, locks, Go, Woken
<1>19. ASSUME NEW p \in Threads, ListHandle(p) PROVE SleepInv'
  BY <1>19, <1>a, <1>b DEF NoSleep, locks, Go, ListHandle
<1>20. ASSUME NEW p \in Threads, LockEvents(p) PROVE SleepInv'
  <2>1. events_lock' # "none"
    BY <1>20, <1>a DEF LockEvents
  <2> QED
    BY <2>1 DEF SleepInv, Waker
<1>21. ASSUME NEW p \in Threads, CloseOwns(p) PROVE SleepInv'
  BY <1>21, <1>a, <1>b DEF NoSleep, locks, Go, CloseOwns
<1>22. ASSUME NEW p \in Threads, DoClose(p) PROVE SleepInv'
  BY <1>22, <1>a, <1>b DEF NoSleep, locks, Go, DoClose
<1>23. ASSUME NEW p \in Threads, CloseEnds(p) PROVE SleepInv'
  BY <1>23, <1>a, <1>b DEF NoSleep, locks, Go, CloseEnds
<1>24. ASSUME NEW p \in Threads, RequestEnds(p) PROVE SleepInv'
  BY <1>24, <1>a, <1>b DEF NoSleep, locks, RequestEnds
<1>25. ASSUME NEW p \in Threads, PollTimesOut(p) PROVE SleepInv'
  BY <1>25, <1>a, <1>b DEF NoSleep, locks, Go, PollTimesOut
<1>26. ASSUME NEW p \in Threads, SleepTimesOut(p) PROVE SleepInv'
  BY <1>26, <1>a, <1>b DEF NoSleep, locks, Go, SleepTimesOut
<1>27. ASSUME NEW p \in Threads, Interrupt(p) PROVE SleepInv'
  BY <1>27, <1>a, <1>b DEF NoSleep, locks, Interrupt
<1>28. ASSUME NEW p \in Threads, NEW h \in Handles, HandleFd(p, h) PROVE SleepInv'
  BY <1>28, <1>a, <1>b DEF NoSleep, locks, HandleFd
<1>29. ASSUME NEW p \in Threads, NEW h \in Handles, HandleDisconnect(p, h) PROVE SleepInv'
  BY <1>29, <1>a, <1>b DEF NoSleep, locks, HandleDisconnect
<1>30. ASSUME NEW p \in Threads, NEW h \in Handles, Request(p, h) PROVE SleepInv'
  BY <1>30, <1>a, <1>b DEF NoSleep, locks, Request, Idle
<1>31. ASSUME NEW p \in Threads, NEW h \in Handles, AddPollFd(p, h) PROVE SleepInv'
  BY <1>31, <1>a, <1>b DEF NoSleep, locks, Go, AddPollFd, Idle
<1>32. ASSUME NEW p \in Threads, NEW h \in Handles, CloseCall(p, h) PROVE SleepInv'
  BY <1>32, <1>a, <1>b DEF NoSleep, locks, Go, CloseCall, Idle
<1>33. ASSUME NEW p \in Users, KernelCompletes(p) PROVE SleepInv'
  BY <1>33, <1>a, <1>b DEF NoSleep, locks, KernelCompletes
<1>34. ASSUME NEW h \in Handles, Unplug(h) PROVE SleepInv'
  BY <1>34, <1>a, <1>b DEF NoSleep, locks, Unplug
<1> QED
  BY <1>1, <1>2, <1>3, <1>4, <1>5, <1>6, <1>7, <1>8, <1>9, <1>10,
     <1>11, <1>12, <1>13, <1>14, <1>15, <1>16, <1>17, <1>18, <1>19,
     <1>20, <1>21, <1>22, <1>23, <1>24, <1>25, <1>26, <1>27, <1>28,
     <1>29, <1>30, <1>31, <1>32, <1>33, <1>34
  DEF Next, Inside, EventLoop, Opening, Closing, Calls

-----------------------------------------------------------------------------
(* Closed handles. *)

(* A step that closes nothing and reports nothing. *)
NoReport ==
    /\ \A h \in Handles : phase'[h] = "closed" => phase[h] = "closed"
    /\ pollfds' = pollfds /\ fired' \subseteq fired
    /\ \A q \in Threads : pc'[q] = "poll" => pc[q] = "poll"
    /\ \A q \in Threads : pc'[q] \in {"events", "backend", "handle"} =>
                          pc[q] \in {"events", "backend", "handle"}

LEMMA ClosedStep ==
    ASSUME EventConstants, TypeOK, LockInv, DevInv, FdInv, ClosedIsNotPolled, [Next]_vars
    PROVE  ClosedIsNotPolled'
<1>a. /\ pc \in [Threads -> Places] /\ dev \in [Threads -> Handles \cup {"none"}]
      /\ phase \in [Handles -> {"new", "opening", "open", "closing", "closed"}]
      /\ pollfds \subseteq Handles
      /\ \A q \in Threads : q \in waiting => pc[q] = "asleep"
  BY DEF TypeOK, LockInv
<1>b. ASSUME NoReport PROVE ClosedIsNotPolled'
  BY <1>b DEF NoReport, ClosedIsNotPolled
<1>c. \A q, r \in Threads : pc[q] \in Holding /\ pc[r] \in Holding => q = r
  BY DEF LockInv
<1>1. CASE UNCHANGED vars
  BY <1>1, <1>b DEF NoReport, vars, polls, devs
<1>2. ASSUME NEW p \in Threads, HandleEvents(p) PROVE ClosedIsNotPolled'
  BY <1>2, <1>a, <1>b DEF NoReport, locks, event, polls, devs, Go, HandleEvents
<1>3. ASSUME NEW p \in Threads, TryLock(p) PROVE ClosedIsNotPolled'
  BY <1>3, <1>a, <1>b DEF NoReport, locks, event, polls, devs, Go, TryLock
<1>4. ASSUME NEW p \in Threads, TryLockEvents(p) PROVE ClosedIsNotPolled'
  BY <1>4, <1>a, <1>b DEF NoReport, locks, event, polls, devs, Go, TryLockEvents
<1>5. ASSUME NEW p \in Threads, Own(p) PROVE ClosedIsNotPolled'
  BY <1>5, <1>a, <1>b DEF NoReport, locks, event, polls, devs, Go, Own
<1>6. ASSUME NEW p \in Threads, BuildPollFds(p) PROVE ClosedIsNotPolled'
  <2>1. /\ pollfds' = ipollfds /\ phase' = phase /\ fired' = fired
        /\ pc' = [pc EXCEPT ![p] = "poll"]
    BY <1>6 DEF BuildPollFds, FdInv, devs, Go
  <2>2. \A h \in Handles : phase[h] = "closed" => h \notin ipollfds
    BY DEF FdInv
  <2> QED
    BY <1>a, <2>1, <2>2 DEF ClosedIsNotPolled
<1>7. ASSUME NEW p \in Threads, Poll(p) PROVE ClosedIsNotPolled'
  <2>1. /\ fired' \subseteq pollfds \cup {"pipe"} /\ pollfds' = pollfds /\ phase' = phase
        /\ pc' = [pc EXCEPT ![p] = "events"] /\ pc[p] = "poll"
    BY <1>7 DEF Poll, Revents, devs, Go
  <2>2. \A q \in Threads \ {p} : pc[q] \notin {"poll", "events", "backend", "handle"}
    BY <1>c, <2>1 DEF Holding
  <2>3. "pipe" \notin Handles
    BY DEF EventConstants
  <2> QED
    BY <1>a, <2>1, <2>2, <2>3 DEF ClosedIsNotPolled
<1>8. ASSUME NEW p \in Threads, EventPipe(p) PROVE ClosedIsNotPolled'
  BY <1>8, <1>a, <1>b DEF NoReport, locks, event, polls, devs, Go, EventPipe
<1>9. ASSUME NEW p \in Threads, BackendStart(p) PROVE ClosedIsNotPolled'
  BY <1>9, <1>a, <1>b DEF NoReport, locks, event, polls, devs, Go, BackendStart
<1>10. ASSUME NEW p \in Threads, BackendEnd(p) PROVE ClosedIsNotPolled'
  BY <1>10, <1>a, <1>b DEF NoReport, locks, event, polls, devs, Go, BackendEnd
<1>11. ASSUME NEW p \in Threads, Unlock(p) PROVE ClosedIsNotPolled'
  BY <1>11, <1>a, <1>b DEF NoReport, locks, event, polls, devs, Go, Unlock
<1>12. ASSUME NEW p \in Threads, Release(p) PROVE ClosedIsNotPolled'
  BY <1>12, <1>a, <1>b DEF NoReport, locks, event, polls, devs, Go, Release
<1>13. ASSUME NEW p \in Threads, Broadcast(p) PROVE ClosedIsNotPolled'
  BY <1>13, <1>a, <1>b DEF NoReport, locks, event, polls, devs, Broadcast
<1>14. ASSUME NEW p \in Threads, LockWaiters(p) PROVE ClosedIsNotPolled'
  BY <1>14, <1>a, <1>b DEF NoReport, locks, event, polls, devs, Go, LockWaiters
<1>15. ASSUME NEW p \in Threads, ReadClosing(p) PROVE ClosedIsNotPolled'
  BY <1>15, <1>a, <1>b DEF NoReport, locks, event, polls, devs, Go, ReadClosing
<1>16. ASSUME NEW p \in Threads, ReadActive(p) PROVE ClosedIsNotPolled'
  BY <1>16, <1>a, <1>b DEF NoReport, locks, event, polls, devs, Go, ReadActive
<1>17. ASSUME NEW p \in Threads, Sleep(p) PROVE ClosedIsNotPolled'
  BY <1>17, <1>a, <1>b DEF NoReport, locks, event, polls, devs, Go, Sleep
<1>18. ASSUME NEW p \in Threads, Woken(p) PROVE ClosedIsNotPolled'
  BY <1>18, <1>a, <1>b DEF NoReport, locks, event, polls, devs, Go, Woken
<1>19. ASSUME NEW p \in Threads, ListHandle(p) PROVE ClosedIsNotPolled'
  <2>1. /\ pc' = [pc EXCEPT ![p] = "rest"]
        /\ phase' = [phase EXCEPT ![dev[p]] = "open"]
        /\ pollfds' = pollfds /\ fired' = fired
    BY <1>19 DEF ListHandle, Go, polls
  <2> QED
    BY <1>a, <1>b, <2>1 DEF NoReport
<1>20. ASSUME NEW p \in Threads, LockEvents(p) PROVE ClosedIsNotPolled'
  BY <1>20, <1>a, <1>b DEF NoReport, locks, event, polls, devs, Go, LockEvents
<1>21. ASSUME NEW p \in Threads, CloseOwns(p) PROVE ClosedIsNotPolled'
  BY <1>21, <1>a, <1>b DEF NoReport, locks, event, polls, devs, Go, CloseOwns
<1>22. ASSUME NEW p \in Threads, DoClose(p) PROVE ClosedIsNotPolled'
  BY <1>22, <1>a, <1>b DEF NoReport, locks, event, polls, devs, Go, DoClose
<1>23. ASSUME NEW p \in Threads, CloseEnds(p) PROVE ClosedIsNotPolled'
  <2>1. pc[p] = "finish" /\ pc' = [pc EXCEPT ![p] = "unlock"]
    BY <1>23 DEF CloseEnds, Go
  <2>2. \A q \in Threads \ {p} : pc[q] \notin {"poll", "events", "backend", "handle"}
    BY <1>c, <2>1 DEF Holding
  <2> QED
    BY <1>a, <2>1, <2>2 DEF ClosedIsNotPolled
<1>24. ASSUME NEW p \in Threads, RequestEnds(p) PROVE ClosedIsNotPolled'
  BY <1>24, <1>a, <1>b DEF NoReport, locks, event, polls, devs, RequestEnds
<1>25. ASSUME NEW p \in Threads, PollTimesOut(p) PROVE ClosedIsNotPolled'
  BY <1>25, <1>a, <1>b DEF NoReport, locks, event, polls, devs, Go, PollTimesOut
<1>26. ASSUME NEW p \in Threads, SleepTimesOut(p) PROVE ClosedIsNotPolled'
  BY <1>26, <1>a, <1>b DEF NoReport, locks, event, polls, devs, Go, SleepTimesOut
<1>27. ASSUME NEW p \in Threads, Interrupt(p) PROVE ClosedIsNotPolled'
  BY <1>27, <1>a, <1>b DEF NoReport, locks, event, polls, devs, Interrupt
<1>28. ASSUME NEW p \in Threads, NEW h \in Handles, HandleFd(p, h) PROVE ClosedIsNotPolled'
  BY <1>28, <1>a, <1>b DEF NoReport, locks, event, polls, devs, HandleFd
<1>29. ASSUME NEW p \in Threads, NEW h \in Handles, HandleDisconnect(p, h) PROVE ClosedIsNotPolled'
  BY <1>29, <1>a, <1>b DEF NoReport, locks, event, polls, devs, HandleDisconnect
<1>30. ASSUME NEW p \in Threads, NEW h \in Handles, Request(p, h) PROVE ClosedIsNotPolled'
  BY <1>30, <1>a, <1>b DEF NoReport, locks, event, polls, devs, Request, Idle
<1>31. ASSUME NEW p \in Threads, NEW h \in Handles, AddPollFd(p, h) PROVE ClosedIsNotPolled'
  BY <1>31, <1>a, <1>b DEF NoReport, locks, event, polls, devs, Go, AddPollFd, Idle
<1>32. ASSUME NEW p \in Threads, NEW h \in Handles, CloseCall(p, h) PROVE ClosedIsNotPolled'
  BY <1>32, <1>a, <1>b DEF NoReport, locks, event, polls, devs, Go, CloseCall, Idle
<1>33. ASSUME NEW p \in Users, KernelCompletes(p) PROVE ClosedIsNotPolled'
  BY <1>33, <1>a, <1>b DEF NoReport, locks, event, polls, devs, KernelCompletes
<1>34. ASSUME NEW h \in Handles, Unplug(h) PROVE ClosedIsNotPolled'
  BY <1>34, <1>a, <1>b DEF NoReport, locks, event, polls, devs, Unplug
<1> QED
  BY <1>1, <1>2, <1>3, <1>4, <1>5, <1>6, <1>7, <1>8, <1>9, <1>10,
     <1>11, <1>12, <1>13, <1>14, <1>15, <1>16, <1>17, <1>18, <1>19,
     <1>20, <1>21, <1>22, <1>23, <1>24, <1>25, <1>26, <1>27, <1>28,
     <1>29, <1>30, <1>31, <1>32, <1>33, <1>34
  DEF Next, Inside, EventLoop, Opening, Closing, Calls

-----------------------------------------------------------------------------
(* Theorems. *)

LEMMA InitInv == EventConstants /\ Init => IInv
<1> SUFFICES ASSUME EventConstants, Init PROVE IInv
  OBVIOUS
<1>1. TypeOK
  BY TypeInit
<1>2. /\ pc = [p \in Threads |-> "rest"] /\ "none" \notin Threads
      /\ Openers \subseteq Threads
  BY DEF Init, EventConstants, Threads, Users
<1>3. LockInv
  BY <1>2 DEF Init, LockInv, Holding
<1>4. CloseCount
  <2>1. Closers = {}
    BY <1>2 DEF Closers, ClosingPcs
  <2> QED
    BY <1>2, <2>1, FS_EmptySet DEF Init, CloseCount, ClosingPcs
<1>5. DevInv
  BY <1>2 DEF DevInv, Busy, ClosingPcs
<1>6. FdInv
  BY <1>2 DEF Init, FdInv, EventConstants
<1>7. PipeExact
  <2>1. CASE Opened = {}
    BY <2>1, FS_EmptySet DEF Init, PipeExact, Pending
  <2>2. CASE Opened # {}
    <3>1. flags = {"POLLFDS_MODIFIED"}
      BY <2>2 DEF Init
    <3>2. Cardinality(flags) = 1
      BY <3>1, FS_Singleton
    <3> QED
      BY <3>1, <3>2 DEF Init, PipeExact, Pending
  <2> QED
    BY <2>1, <2>2
<1>8. SleepInv
  BY <1>2 DEF Init, SleepInv
<1>9. ClosedIsNotPolled
  BY <1>2 DEF Init, ClosedIsNotPolled
<1> QED
  BY <1>1, <1>3, <1>4, <1>5, <1>6, <1>7, <1>8, <1>9 DEF IInv

LEMMA StepInv == EventConstants /\ IInv /\ [Next]_vars => IInv'
BY TypeStep, LockStep, CountStep, DevStep, FdStep, PipeStep, SleepStep, ClosedStep DEF IInv

(* The strengthened invariant holds in every reachable state, whatever the *)
(* number of threads and handles.                                          *)
THEOREM Inductive == Spec => []IInv
<1>1. Init => IInv
  BY EventConstants, InitInv
<1>2. IInv /\ [Next]_vars => IInv'
  BY EventConstants, StepInv
<1> QED
  BY <1>1, <1>2, PTL DEF Spec

(* Locks, lists and threads stay within their types. *)
THEOREM TypeCorrect == Spec => []TypeOK
<1>1. IInv => TypeOK
  BY DEF IInv
<1> QED
  BY <1>1, Inductive, PTL

(* libusb's event pipe holds one byte exactly when there is a reason to    *)
(* interrupt poll(): for any number of closes, opens and interrupts.       *)
THEOREM PipeIsExact == Spec => []PipeExact
<1>1. IInv => PipeExact
  BY DEF IInv
<1> QED
  BY <1>1, Inductive, PTL

(* A thread that waits for another one's event handling has somebody who   *)
(* will broadcast: the check before the wait and the broadcast after the   *)
(* release cannot miss each other, nor can device_close be read in between. *)
THEOREM NoLostWakeup == Spec => []SleeperHasWaker
<1>1. IInv => SleeperHasWaker
  BY DEF IInv, SleepInv, Waker, SleeperHasWaker
<1> QED
  BY <1>1, Inductive, PTL

(* A handle that libusb_close() has closed is in nobody's poll() and in no *)
(* result of one: the event lock orders the two.                           *)
THEOREM ClosedNeverPolled == Spec => []ClosedIsNotPolled
<1>1. IInv => ClosedIsNotPolled
  BY DEF IInv
<1> QED
  BY <1>1, Inductive, PTL


=============================================================================
