-------------------------- MODULE AsyncStreamProofs --------------------------
(***************************************************************************)
(* The safety of AsyncStream for every number of transfers, every bound    *)
(* and every surroundings that keep to three rules (SoundEnv): close()     *)
(* waits long enough, close() does not overlap the entry of read_async(),  *)
(* and a device whose transfers were leaked is not streamed from again.    *)
(*                                                                         *)
(* The counter xfer_outstanding is trusted by the free, so it must be      *)
(* exact.  It is, because every callback of the run decrements it once,    *)
(* and because no callback of an earlier run can reach it: leaked          *)
(* transfers exist only while no run is active (NoStrangers).  On top of   *)
(* that come how a run ends (EInv), why its drain is not outrun (DInv) and *)
(* the step simulation of StreamContract (StepMaps).                       *)
(***************************************************************************)
EXTENDS AsyncStreamMC, FiniteSetTheorems, TLAPS

SoundEnv ==
    Env \cap {"wait_expires", "close_during_start", "restart_after_leak"} = {}

Idle == {"idle", "entry", "arm"}

(* Transfers exist only between the first submission and the free, and the *)
(* submit loop fills the slots in order.                                   *)
SlotsInOrder ==
    /\ pc \in Idle \cup {"clear", "finish"} => \A s \in Slots : phase[s] = "idle"
    /\ pc = "submit" => i \in Slots /\ \A s \in i .. N : phase[s] = "idle"

(* Leaked transfers exist only while no run is active. *)
NoStrangers == orphans > 0 => pc \in {"idle", "finish"}

(* async_status is INACTIVE only before a run has armed it. *)
StatusTellsRun == async_status = "INACTIVE" => pc \in Idle

(* A thread that closes has a reader that is inside a run, or gone. *)
CloserKnows ==
    /\ apc \in {"wait", "deinit", "shut", "closed"} => ret = "wait"
    /\ ret = "wait" => pc \notin {"entry", "arm"}

IInv ==
    /\ TypeOK
    /\ SlotsInOrder
    /\ NoStrangers
    /\ StatusTellsRun
    /\ CloserKnows
    /\ OutstandingExact
    /\ NoCloseUnderReader

-----------------------------------------------------------------------------
(* Counting the transfers in flight. *)

(* Any set of slots is finite, so the counter compares with a number. *)
LEMMA CountIsNatural ==
    ASSUME NEW S \in SUBSET Slots
    PROVE  IsFiniteSet(S) /\ Cardinality(S) \in Nat
<1>1. N \in Int /\ 1 \in Int
  BY ConstantsAssumption
<1>2. IsFiniteSet(Slots)
  BY <1>1, FS_Interval DEF Slots
<1>3. IsFiniteSet(S)
  BY <1>2, FS_Subset
<1> QED
  BY <1>3, FS_CardinalityType

(* Submitting an idle slot adds one transfer to those in flight. *)
LEMMA SubmitAddsOne ==
    ASSUME phase \in [Slots -> {"idle", "flying", "cancelled", "late"}],
           NEW s \in Slots, phase[s] = "idle",
           phase' = [phase EXCEPT ![s] = "flying"]
    PROVE  Cardinality(InFlight)' = Cardinality(InFlight) + 1
<1>1. InFlight' = InFlight \cup {s} /\ s \notin InFlight
  BY DEF InFlight
<1>2. IsFiniteSet(InFlight)
  BY CountIsNatural DEF InFlight
<1> QED
  BY <1>1, <1>2, FS_AddElement

(* Retiring a transfer in flight removes one. *)
LEMMA RetireRemovesOne ==
    ASSUME phase \in [Slots -> {"idle", "flying", "cancelled", "late"}],
           NEW s \in Slots, phase[s] # "idle",
           phase' = [phase EXCEPT ![s] = "idle"]
    PROVE  Cardinality(InFlight)' = Cardinality(InFlight) - 1
<1>1. InFlight' = InFlight \ {s} /\ s \in InFlight
  BY DEF InFlight
<1>2. IsFiniteSet(InFlight)
  BY CountIsNatural DEF InFlight
<1> QED
  BY <1>1, <1>2, FS_RemoveElement

(* What moves a transfer between the phases of being in flight leaves the  *)
(* set of transfers in flight alone.                                       *)
LEMMA SameTransfers ==
    ASSUME \A s \in Slots : phase'[s] = "idle" <=> phase[s] = "idle"
    PROVE  InFlight' = InFlight
  BY DEF InFlight

(* Cancelling changes the phase of a transfer in flight only. *)
LEMMA CancelKeepsFlight ==
    ASSUME TypeOK, NEW s \in Slots
    PROVE  /\ CancelledPhase(s) \in {"idle", "flying", "cancelled", "late"}
           /\ CancelledPhase(s) = "idle" <=> phase[s] = "idle"
  BY DEF TypeOK, CancelledPhase

(* _libusb_callback() takes one off the counter unless it has re-armed the *)
(* transfer, and never declares the device INACTIVE.                       *)
LEMMA CallbackCounts ==
    ASSUME TypeOK, NEW st, NEW rearmed \in BOOLEAN, Callback(st, rearmed)
    PROVE  /\ outstanding' = IF rearmed THEN outstanding ELSE outstanding - 1
           /\ async_status' \in {"INACTIVE", "RUNNING", "CANCELING"}
           /\ async_status' = "INACTIVE" => async_status = "INACTIVE"
           /\ async_cancel' \in BOOLEAN /\ dev_lost' \in BOOLEAN
           /\ xfer_errors' \in 0 .. N
           /\ faults' \in 0 .. MaxFaults
<1>1. CASE rearmed /\ CallbackRearms
  BY <1>1, ConstantsAssumption DEF CallbackRearms, TypeOK
<1>2. CASE ~rearmed /\ CallbackResubmitFails
  BY <1>2, ConstantsAssumption DEF CallbackResubmitFails, Fault, TypeOK
<1>3. CASE ~rearmed /\ CallbackUserCancels
  BY <1>3, ConstantsAssumption DEF CallbackUserCancels, TypeOK
<1>4. CASE ~rearmed /\ CallbackWindsDown
  BY <1>4, ConstantsAssumption DEF CallbackWindsDown, TypeOK
<1>5. CASE ~rearmed /\ CallbackCancelled
  BY <1>5 DEF CallbackCancelled, TypeOK
<1>6. CASE ~rearmed /\ CallbackFailed(st)
  BY <1>6, ConstantsAssumption DEF CallbackFailed, TypeOK
<1> QED
  BY <1>1, <1>2, <1>3, <1>4, <1>5, <1>6 DEF Callback

-----------------------------------------------------------------------------
(* The inductive invariant. *)

LEMMA InitIInv == Init => IInv
<1> SUFFICES ASSUME Init PROVE IInv
  OBVIOUS
<1>1. /\ phase \in [Slots -> {"idle", "flying", "cancelled", "late"}]
      /\ result \in [Slots -> Results \cup {"none"}]
      /\ status \in [Slots -> Results \cup {"NEW"}]
  BY DEF Init
<1>2. /\ i \in 1 .. N + 1 /\ tries \in 0 .. DrainTries /\ xfer_errors \in 0 .. N
      /\ runs \in 0 .. MaxRuns /\ faults \in 0 .. MaxFaults
  BY ConstantsAssumption DEF Init
<1>3. /\ async_cancel \in BOOLEAN /\ dev_lost \in BOOLEAN
      /\ unplugged \in BOOLEAN /\ open \in BOOLEAN
  BY Zenon DEF Init
<1>4. TypeOK
  BY <1>1, <1>2, <1>3 DEF Init, TypeOK, Returns
<1> QED
  BY <1>4 DEF Init, IInv, SlotsInOrder, NoStrangers, StatusTellsRun, CloserKnows,
              OutstandingExact, NoCloseUnderReader, Idle

(* A completion that is handled, of this run or a leaked one, keeps the    *)
(* types, puts no idle slot in flight and never declares INACTIVE.         *)
LEMMA ReapTypes ==
    ASSUME TypeOK, ReapOne
    PROVE  /\ phase' \in [Slots -> {"idle", "flying", "cancelled", "late"}]
           /\ result' \in [Slots -> Results \cup {"none"}]
           /\ status' \in [Slots -> Results \cup {"NEW"}]
           /\ orphans' \in Nat /\ (orphans = 0 => orphans' = 0)
           /\ outstanding' \in Int
           /\ async_status' \in {"INACTIVE", "RUNNING", "CANCELING"}
           /\ async_status' = "INACTIVE" => async_status = "INACTIVE"
           /\ async_cancel' \in BOOLEAN /\ dev_lost' \in BOOLEAN
           /\ xfer_errors' \in 0 .. N /\ faults' \in 0 .. MaxFaults
           /\ \A s \in Slots : phase[s] = "idle" => phase'[s] = "idle"
<1>1. CASE \E s \in Slots, rearmed \in BOOLEAN : Reap(s, rearmed)
  <2>1. PICK s \in Slots, rearmed \in BOOLEAN : Reap(s, rearmed)
    BY <1>1
  <2>2. PICK st \in {result[s]} \cup (IF unplugged THEN {"NO_DEVICE"} ELSE {}) :
          /\ phase[s] # "idle" /\ st # "none"
          /\ Callback(st, rearmed)
          /\ phase' = [phase EXCEPT ![s] = IF rearmed THEN "flying" ELSE "idle"]
          /\ result' = [result EXCEPT ![s] = "none"]
          /\ status' = [status EXCEPT ![s] = st]
          /\ UNCHANGED orphans
    BY <2>1 DEF Reap
  <2>3. st \in Results
    BY <2>2 DEF TypeOK, Results
  <2>4. /\ phase' \in [Slots -> {"idle", "flying", "cancelled", "late"}]
        /\ result' \in [Slots -> Results \cup {"none"}]
        /\ status' \in [Slots -> Results \cup {"NEW"}]
        /\ orphans' = orphans /\ orphans \in Nat /\ outstanding \in Int
        /\ \A t \in Slots : phase[t] = "idle" => phase'[t] = "idle"
    BY <2>2, <2>3 DEF TypeOK
  <2> QED
    BY <2>2, <2>4, CallbackCounts
<1>2. CASE \E st \in Results, rearmed \in BOOLEAN : ReapOrphan(st, rearmed)
  <2>1. PICK st \in Results, rearmed \in BOOLEAN : ReapOrphan(st, rearmed)
    BY <1>2
  <2>2. /\ phase' \in [Slots -> {"idle", "flying", "cancelled", "late"}]
        /\ result' \in [Slots -> Results \cup {"none"}]
        /\ status' \in [Slots -> Results \cup {"NEW"}]
        /\ orphans' \in Nat /\ orphans # 0 /\ outstanding \in Int
        /\ \A t \in Slots : phase[t] = "idle" => phase'[t] = "idle"
    BY <2>1 DEF ReapOrphan, TypeOK
  <2> QED
    BY <2>1, <2>2, CallbackCounts DEF ReapOrphan
<1> QED
  BY <1>1, <1>2 DEF ReapOne

(* With nothing leaked, it keeps the counter as far from the transfers in  *)
(* flight as it was.                                                       *)
LEMMA ReapCounts ==
    ASSUME TypeOK, ReapOne, orphans = 0
    PROVE  outstanding' - Cardinality(InFlight)' = outstanding - Cardinality(InFlight)
<1>1. PICK s \in Slots, rearmed \in BOOLEAN : Reap(s, rearmed)
  BY DEF ReapOne, ReapOrphan
<1>2. PICK st \in {result[s]} \cup (IF unplugged THEN {"NO_DEVICE"} ELSE {}) :
        /\ phase[s] # "idle"
        /\ Callback(st, rearmed)
        /\ phase' = [phase EXCEPT ![s] = IF rearmed THEN "flying" ELSE "idle"]
  BY <1>1 DEF Reap
<1>3. outstanding' = IF rearmed THEN outstanding ELSE outstanding - 1
  BY <1>2, CallbackCounts
<1>4. outstanding \in Int /\ Cardinality(InFlight) \in Nat
  BY CountIsNatural DEF TypeOK, InFlight
<1>5. CASE rearmed
  <2>1. InFlight' = InFlight
    BY <1>2, <1>5, SameTransfers DEF TypeOK
  <2> QED
    BY <1>3, <1>4, <1>5, <2>1
<1>6. CASE ~rearmed
  <2>1. Cardinality(InFlight)' = Cardinality(InFlight) - 1
    BY <1>2, <1>6, RetireRemovesOne DEF TypeOK
  <2> QED
    BY <1>3, <1>4, <1>6, <2>1
<1> QED
  BY <1>5, <1>6

(* Types are kept by every step. *)
LEMMA NextTypeOK ==
    ASSUME IInv, [Next]_vars
    PROVE  TypeOK'
<1> USE ConstantsAssumption DEF IInv
<1>1. CASE \E s \in Slots, st \in Results : KernelCompletes(s, st)
  BY <1>1 DEF KernelCompletes, Fault, dev, xfers, reader, app, world, TypeOK, SlotsInOrder, Slots, Returns, Results
<1>2. CASE Unplug
  BY <1>2 DEF Unplug, dev, xfers, reader, app, world, TypeOK, SlotsInOrder, Slots, Returns, Results
<1>3. CASE ReadAsyncCall
  BY <1>3 DEF ReadAsyncCall, dev, xfers, reader, app, world, TypeOK, SlotsInOrder, Slots, Returns, Results
<1>4. CASE ReadAsyncEntry
  BY <1>4 DEF ReadAsyncEntry, dev, xfers, reader, app, world, TypeOK, SlotsInOrder, Slots, Returns, Results
<1>5. CASE ReadAsyncArm
  BY <1>5 DEF ReadAsyncArm, dev, xfers, reader, app, world, TypeOK, SlotsInOrder, Slots, Returns, Results
<1>6. CASE ReadAsyncClear
  <2>1. async_cancel' \in BOOLEAN
    BY <1>6, Zenon DEF ReadAsyncClear
  <2>2. /\ outstanding' \in Int /\ tries' \in 0 .. DrainTries
        /\ i' \in 1 .. N + 1
    BY <1>6 DEF ReadAsyncClear, TypeOK
  <2> QED
    BY <1>6, <2>1, <2>2 DEF ReadAsyncClear, xfers, app, world, TypeOK
<1>7. CASE SubmitOk
  BY <1>7 DEF SubmitOk, dev, xfers, reader, app, world, TypeOK, SlotsInOrder, Slots, Returns, Results
<1>8. CASE SubmitFails
  BY <1>8 DEF SubmitFails, Fault, dev, xfers, reader, app, world, TypeOK, SlotsInOrder, Slots, Returns, Results
<1>9. CASE LoopTop
  BY <1>9 DEF LoopTop, dev, xfers, reader, app, world, TypeOK, SlotsInOrder, Slots, Returns, Results
<1>10. CASE EventsReap
  BY <1>10, ReapTypes DEF EventsReap, reader, app, TypeOK
<1>11. CASE Check
  BY <1>11 DEF Check, dev, xfers, reader, app, world, TypeOK, SlotsInOrder, Slots, Returns, Results
<1>12. CASE CancelOne
  <2>1. i \in Slots
    BY <1>12 DEF CancelOne, TypeOK, Slots
  <2>2. /\ CancelledPhase(i) \in {"idle", "flying", "cancelled", "late"}
        /\ CancelReturn(i) \in Returns
    BY <2>1, CancelKeepsFlight DEF TypeOK, CancelReturn, Returns
  <2> QED
    BY <1>12, <2>1, <2>2 DEF CancelOne, dev, app, world, TypeOK, Slots
<1>13. CASE CancelPassEnd
  BY <1>13 DEF CancelPassEnd, dev, xfers, reader, app, world, TypeOK, SlotsInOrder, Slots, Returns, Results
<1>14. CASE Drain
  <2>1. \A s \in Slots : CancelledPhase(s) \in {"idle", "flying", "cancelled", "late"}
    BY CancelKeepsFlight
  <2> QED
    BY <1>14, <2>1 DEF Drain, dev, app, world, TypeOK
<1>15. CASE FreeBuffers
  <2>1. Cardinality(InFlight) \in Nat
    BY CountIsNatural DEF InFlight
  <2> QED
    BY <1>15, <2>1 DEF FreeBuffers, dev, app, world, TypeOK
<1>16. CASE ReadAsyncReturn
  BY <1>16 DEF ReadAsyncReturn, dev, xfers, reader, app, world, TypeOK, SlotsInOrder, Slots, Returns, Results
<1>17. CASE \E e \in {"OK", "FAILED", "INTERRUPTED"} : EventsReturn(e)
  <2>1. PICK e \in {"OK", "FAILED", "INTERRUPTED"} : EventsReturn(e)
    BY <1>17
  <2>2. faults' \in 0 .. MaxFaults
    BY <2>1 DEF EventsReturn, Fault, TypeOK
  <2>3. pc' \in {"check", "cancel", "drain", "free"} /\ r' \in Returns
    BY <2>1 DEF EventsReturn, TypeOK, Returns
  <2> QED
    BY <2>1, <2>2, <2>3 DEF EventsReturn, dev, xfers, app, TypeOK
<1>18. CASE CancelCall
  BY <1>18 DEF CancelCall, dev, xfers, reader, app, world, TypeOK, SlotsInOrder, Slots, Returns, Results
<1>19. CASE SaveCall
  BY <1>19 DEF SaveCall, dev, xfers, reader, app, world, TypeOK, SlotsInOrder, Slots, Returns, Results
<1>20. CASE CloseCall
  BY <1>20 DEF CloseCall, dev, xfers, reader, app, world, TypeOK, SlotsInOrder, Slots, Returns, Results
<1>21. CASE CancelRead
  BY <1>21 DEF CancelRead, dev, xfers, reader, app, world, TypeOK, SlotsInOrder, Slots, Returns, Results
<1>22. CASE CancelMark
  BY <1>22 DEF CancelMark, dev, xfers, reader, app, world, TypeOK, SlotsInOrder, Slots, Returns, Results
<1>23. CASE CancelFlag
  BY <1>23 DEF CancelFlag, dev, xfers, reader, app, world, TypeOK, SlotsInOrder, Slots, Returns, Results
<1>24. CASE SaveReturn
  BY <1>24 DEF SaveReturn, dev, xfers, reader, app, world, TypeOK, SlotsInOrder, Slots, Returns, Results
<1>25. CASE CloseWaitEnds
  BY <1>25 DEF CloseWaitEnds, dev, xfers, reader, app, world, TypeOK, SlotsInOrder, Slots, Returns, Results
<1>26. CASE DeinitReaps
  BY <1>26, ReapTypes DEF DeinitReaps, reader, app, TypeOK
<1>27. CASE DeinitEnds
  BY <1>27 DEF DeinitEnds, dev, xfers, reader, app, world, TypeOK, SlotsInOrder, Slots, Returns, Results
<1>28. CASE CloseDevice
  <2>1. open' \in BOOLEAN
    BY <1>28, Zenon DEF CloseDevice
  <2> QED
    BY <1>28, <2>1 DEF CloseDevice, dev, reader, TypeOK
<1>29. CASE Rest
  BY <1>29 DEF Rest, vars, dev, xfers, reader, app, world, TypeOK, SlotsInOrder, Slots, Returns, Results
<1>30. CASE UNCHANGED vars
  BY <1>30 DEF vars, dev, xfers, reader, app, world, TypeOK, SlotsInOrder, Slots, Returns, Results
<1> QED
  BY <1>1, <1>2, <1>3, <1>4, <1>5, <1>6, <1>7, <1>8, <1>9, <1>10, <1>11, <1>12, <1>13, <1>14, <1>15, <1>16, <1>17, <1>18, <1>19, <1>20, <1>21, <1>22, <1>23, <1>24, <1>25, <1>26, <1>27, <1>28, <1>29, <1>30 DEF Next, Reader, AppCalls, AppBusy

(* Where the threads are, and where a transfer may be. *)
Control == SlotsInOrder /\ NoStrangers /\ StatusTellsRun /\ CloserKnows /\ NoCloseUnderReader

(* Every step of a sound environment keeps the two threads apart.         *)
LEMMA NextControl ==
    ASSUME SoundEnv, IInv, [Next]_vars
    PROVE  Control'
<1> USE ConstantsAssumption DEF IInv
<1>1. CASE \E s \in Slots, st \in Results : KernelCompletes(s, st)
  BY <1>1 DEF KernelCompletes, dev, xfers, reader, app, world, TypeOK, Slots, Control, SlotsInOrder, NoStrangers, StatusTellsRun, CloserKnows, NoCloseUnderReader, Idle
<1>2. CASE Unplug
  BY <1>2 DEF Unplug, dev, xfers, reader, app, world, TypeOK, Slots, Control, SlotsInOrder, NoStrangers, StatusTellsRun, CloserKnows, NoCloseUnderReader, Idle
<1>3. CASE ReadAsyncCall
  BY <1>3 DEF ReadAsyncCall, Closing, SoundEnv, dev, xfers, app, Control, SlotsInOrder, NoStrangers, StatusTellsRun, CloserKnows, NoCloseUnderReader, Idle
<1>4. CASE ReadAsyncEntry
  BY <1>4 DEF ReadAsyncEntry, dev, xfers, reader, app, world, TypeOK, Slots, Control, SlotsInOrder, NoStrangers, StatusTellsRun, CloserKnows, NoCloseUnderReader, Idle
<1>5. CASE ReadAsyncArm
  BY <1>5 DEF ReadAsyncArm, dev, xfers, reader, app, world, TypeOK, Slots, Control, SlotsInOrder, NoStrangers, StatusTellsRun, CloserKnows, NoCloseUnderReader, Idle
<1>6. CASE ReadAsyncClear
  BY <1>6 DEF ReadAsyncClear, dev, xfers, reader, app, world, TypeOK, Slots, Control, SlotsInOrder, NoStrangers, StatusTellsRun, CloserKnows, NoCloseUnderReader, Idle
<1>7. CASE SubmitOk
  BY <1>7 DEF SubmitOk, dev, xfers, reader, app, world, TypeOK, Slots, Control, SlotsInOrder, NoStrangers, StatusTellsRun, CloserKnows, NoCloseUnderReader, Idle
<1>8. CASE SubmitFails
  BY <1>8 DEF SubmitFails, dev, xfers, reader, app, world, TypeOK, Slots, Control, SlotsInOrder, NoStrangers, StatusTellsRun, CloserKnows, NoCloseUnderReader, Idle
<1>9. CASE LoopTop
  BY <1>9 DEF LoopTop, dev, xfers, reader, app, world, TypeOK, Slots, Control, SlotsInOrder, NoStrangers, StatusTellsRun, CloserKnows, NoCloseUnderReader, Idle
<1>10. CASE EventsReap
  BY <1>10, ReapTypes DEF EventsReap, reader, app, TypeOK, Control, SlotsInOrder, NoStrangers, StatusTellsRun, CloserKnows, NoCloseUnderReader, Idle
<1>11. CASE Check
  BY <1>11 DEF Check, dev, xfers, reader, app, world, TypeOK, Slots, Control, SlotsInOrder, NoStrangers, StatusTellsRun, CloserKnows, NoCloseUnderReader, Idle
<1>12. CASE CancelOne
  BY <1>12 DEF CancelOne, dev, xfers, reader, app, world, TypeOK, Slots, Control, SlotsInOrder, NoStrangers, StatusTellsRun, CloserKnows, NoCloseUnderReader, Idle
<1>13. CASE CancelPassEnd
  BY <1>13 DEF CancelPassEnd, dev, xfers, reader, app, world, TypeOK, Slots, Control, SlotsInOrder, NoStrangers, StatusTellsRun, CloserKnows, NoCloseUnderReader, Idle
<1>14. CASE Drain
  BY <1>14 DEF Drain, dev, xfers, reader, app, world, TypeOK, Slots, Control, SlotsInOrder, NoStrangers, StatusTellsRun, CloserKnows, NoCloseUnderReader, Idle
<1>15. CASE FreeBuffers
  BY <1>15 DEF FreeBuffers, dev, xfers, reader, app, world, TypeOK, Slots, Control, SlotsInOrder, NoStrangers, StatusTellsRun, CloserKnows, NoCloseUnderReader, Idle
<1>16. CASE ReadAsyncReturn
  BY <1>16 DEF ReadAsyncReturn, dev, xfers, reader, app, world, TypeOK, Slots, Control, SlotsInOrder, NoStrangers, StatusTellsRun, CloserKnows, NoCloseUnderReader, Idle
<1>17. CASE \E e \in {"OK", "FAILED", "INTERRUPTED"} : EventsReturn(e)
  BY <1>17 DEF EventsReturn, dev, xfers, reader, app, world, TypeOK, Slots, Control, SlotsInOrder, NoStrangers, StatusTellsRun, CloserKnows, NoCloseUnderReader, Idle
<1>18. CASE CancelCall
  BY <1>18 DEF CancelCall, dev, xfers, reader, app, world, TypeOK, Slots, Control, SlotsInOrder, NoStrangers, StatusTellsRun, CloserKnows, NoCloseUnderReader, Idle
<1>19. CASE SaveCall
  BY <1>19 DEF SaveCall, dev, xfers, reader, app, world, TypeOK, Slots, Control, SlotsInOrder, NoStrangers, StatusTellsRun, CloserKnows, NoCloseUnderReader, Idle
<1>20. CASE CloseCall
  BY <1>20 DEF CloseCall, SoundEnv, dev, xfers, reader, world, Control, SlotsInOrder, NoStrangers, StatusTellsRun, CloserKnows, NoCloseUnderReader, Idle
<1>21. CASE CancelRead
  BY <1>21 DEF CancelRead, dev, xfers, reader, app, world, TypeOK, Slots, Control, SlotsInOrder, NoStrangers, StatusTellsRun, CloserKnows, NoCloseUnderReader, Idle
<1>22. CASE CancelMark
  BY <1>22 DEF CancelMark, dev, xfers, reader, app, world, TypeOK, Slots, Control, SlotsInOrder, NoStrangers, StatusTellsRun, CloserKnows, NoCloseUnderReader, Idle
<1>23. CASE CancelFlag
  BY <1>23 DEF CancelFlag, dev, xfers, reader, app, world, TypeOK, Slots, Control, SlotsInOrder, NoStrangers, StatusTellsRun, CloserKnows, NoCloseUnderReader, Idle
<1>24. CASE SaveReturn
  BY <1>24 DEF SaveReturn, dev, xfers, reader, app, world, TypeOK, Slots, Control, SlotsInOrder, NoStrangers, StatusTellsRun, CloserKnows, NoCloseUnderReader, Idle
<1>25. CASE CloseWaitEnds
  BY <1>25 DEF CloseWaitEnds, GivesUp, SoundEnv, dev, xfers, reader, world, Control, SlotsInOrder, NoStrangers, StatusTellsRun, CloserKnows, NoCloseUnderReader, Idle
<1>26. CASE DeinitReaps
  BY <1>26, ReapTypes DEF DeinitReaps, reader, app, Control, SlotsInOrder, NoStrangers, StatusTellsRun, CloserKnows, NoCloseUnderReader, Idle
<1>27. CASE DeinitEnds
  BY <1>27 DEF DeinitEnds, dev, xfers, reader, app, world, TypeOK, Slots, Control, SlotsInOrder, NoStrangers, StatusTellsRun, CloserKnows, NoCloseUnderReader, Idle
<1>28. CASE CloseDevice
  BY <1>28 DEF CloseDevice, dev, xfers, reader, app, world, TypeOK, Slots, Control, SlotsInOrder, NoStrangers, StatusTellsRun, CloserKnows, NoCloseUnderReader, Idle
<1>29. CASE Rest
  BY <1>29 DEF Rest, vars, dev, xfers, reader, app, world, TypeOK, Slots, Control, SlotsInOrder, NoStrangers, StatusTellsRun, CloserKnows, NoCloseUnderReader, Idle
<1>30. CASE UNCHANGED vars
  BY <1>30 DEF vars, dev, xfers, reader, app, world, TypeOK, Slots, Control, SlotsInOrder, NoStrangers, StatusTellsRun, CloserKnows, NoCloseUnderReader, Idle
<1> QED
  BY <1>1, <1>2, <1>3, <1>4, <1>5, <1>6, <1>7, <1>8, <1>9, <1>10, <1>11, <1>12, <1>13, <1>14, <1>15, <1>16, <1>17, <1>18, <1>19, <1>20, <1>21, <1>22, <1>23, <1>24, <1>25, <1>26, <1>27, <1>28, <1>29, <1>30 DEF Next, Reader, AppCalls, AppBusy

(* Every step keeps the counter exact. *)
LEMMA NextCounter ==
    ASSUME SoundEnv, IInv, [Next]_vars
    PROVE  OutstandingExact'
<1> USE ConstantsAssumption DEF IInv
<1>1. CASE \E s \in Slots, st \in Results : KernelCompletes(s, st)
  BY <1>1 DEF KernelCompletes, dev, xfers, reader, app, world, InFlight, OutstandingExact
<1>2. CASE Unplug
  BY <1>2 DEF Unplug, dev, xfers, reader, app, world, InFlight, OutstandingExact
<1>3. CASE ReadAsyncCall
  BY <1>3 DEF ReadAsyncCall, dev, xfers, reader, app, world, InFlight, OutstandingExact
<1>4. CASE ReadAsyncEntry
  BY <1>4 DEF ReadAsyncEntry, dev, xfers, reader, app, world, InFlight, OutstandingExact
<1>5. CASE ReadAsyncArm
  BY <1>5 DEF ReadAsyncArm, dev, xfers, reader, app, world, InFlight, OutstandingExact
<1>6. CASE ReadAsyncClear
  <2>1. InFlight' = {}
    BY <1>6 DEF ReadAsyncClear, InFlight, SlotsInOrder
  <2> QED
    BY <1>6, <2>1, FS_EmptySet DEF ReadAsyncClear, OutstandingExact
<1>7. CASE SubmitOk
  <2>1. i \in Slots /\ phase[i] = "idle"
    BY <1>7 DEF SubmitOk, SlotsInOrder, Slots
  <2>2. Cardinality(InFlight)' = Cardinality(InFlight) + 1
    BY <1>7, <2>1, SubmitAddsOne DEF SubmitOk, TypeOK
  <2> QED
    BY <1>7, <2>2 DEF SubmitOk, OutstandingExact
<1>8. CASE SubmitFails
  BY <1>8 DEF SubmitFails, dev, xfers, reader, app, world, InFlight, OutstandingExact
<1>9. CASE LoopTop
  BY <1>9 DEF LoopTop, dev, xfers, reader, app, world, InFlight, OutstandingExact
<1>10. CASE EventsReap
  <2>1. outstanding' - Cardinality(InFlight)' = outstanding - Cardinality(InFlight)
    BY <1>10, ReapCounts DEF EventsReap, NoStrangers, TypeOK
  <2>2. /\ outstanding \in Int /\ outstanding' \in Int
        /\ Cardinality(InFlight) \in Nat /\ Cardinality(InFlight)' \in Nat
    BY <1>10, ReapTypes, CountIsNatural DEF EventsReap, InFlight, TypeOK
  <2> QED
    BY <1>10, <2>1, <2>2 DEF EventsReap, reader, OutstandingExact
<1>11. CASE Check
  BY <1>11 DEF Check, dev, xfers, reader, app, world, InFlight, OutstandingExact
<1>12. CASE CancelOne
  <2>1. i \in Slots /\ \A s \in Slots : phase'[s] = "idle" <=> phase[s] = "idle"
    BY <1>12, CancelKeepsFlight DEF CancelOne, TypeOK, Slots
  <2>2. InFlight' = InFlight
    BY <2>1, SameTransfers
  <2> QED
    BY <1>12, <2>2 DEF CancelOne, dev, OutstandingExact
<1>13. CASE CancelPassEnd
  BY <1>13 DEF CancelPassEnd, dev, xfers, reader, app, world, InFlight, OutstandingExact
<1>14. CASE Drain
  <2>1. \A s \in Slots : phase'[s] = "idle" <=> phase[s] = "idle"
    BY <1>14, CancelKeepsFlight DEF Drain, TypeOK
  <2>2. InFlight' = InFlight
    BY <2>1, SameTransfers
  <2> QED
    BY <1>14, <2>2 DEF Drain, dev, OutstandingExact
<1>15. CASE FreeBuffers
  BY <1>15 DEF FreeBuffers, OutstandingExact
<1>16. CASE ReadAsyncReturn
  BY <1>16 DEF ReadAsyncReturn, dev, xfers, reader, app, world, InFlight, OutstandingExact
<1>17. CASE \E e \in {"OK", "FAILED", "INTERRUPTED"} : EventsReturn(e)
  BY <1>17 DEF EventsReturn, dev, xfers, reader, app, world, InFlight, OutstandingExact
<1>18. CASE CancelCall
  BY <1>18 DEF CancelCall, dev, xfers, reader, app, world, InFlight, OutstandingExact
<1>19. CASE SaveCall
  BY <1>19 DEF SaveCall, dev, xfers, reader, app, world, InFlight, OutstandingExact
<1>20. CASE CloseCall
  BY <1>20 DEF CloseCall, dev, xfers, reader, app, world, InFlight, OutstandingExact
<1>21. CASE CancelRead
  BY <1>21 DEF CancelRead, dev, xfers, reader, app, world, InFlight, OutstandingExact
<1>22. CASE CancelMark
  BY <1>22 DEF CancelMark, dev, xfers, reader, app, world, InFlight, OutstandingExact
<1>23. CASE CancelFlag
  BY <1>23 DEF CancelFlag, dev, xfers, reader, app, world, InFlight, OutstandingExact
<1>24. CASE SaveReturn
  BY <1>24 DEF SaveReturn, dev, xfers, reader, app, world, InFlight, OutstandingExact
<1>25. CASE CloseWaitEnds
  BY <1>25 DEF CloseWaitEnds, dev, xfers, reader, app, world, InFlight, OutstandingExact
<1>26. CASE DeinitReaps
  BY <1>26 DEF DeinitReaps, reader, NoCloseUnderReader, OutstandingExact
<1>27. CASE DeinitEnds
  BY <1>27 DEF DeinitEnds, dev, xfers, reader, app, world, InFlight, OutstandingExact
<1>28. CASE CloseDevice
  BY <1>28 DEF CloseDevice, reader, NoCloseUnderReader, OutstandingExact
<1>29. CASE Rest
  BY <1>29 DEF Rest, vars, dev, xfers, reader, app, world, InFlight, OutstandingExact
<1>30. CASE UNCHANGED vars
  BY <1>30 DEF vars, dev, xfers, reader, app, world, InFlight, OutstandingExact
<1> QED
  BY <1>1, <1>2, <1>3, <1>4, <1>5, <1>6, <1>7, <1>8, <1>9, <1>10, <1>11, <1>12, <1>13, <1>14, <1>15, <1>16, <1>17, <1>18, <1>19, <1>20, <1>21, <1>22, <1>23, <1>24, <1>25, <1>26, <1>27, <1>28, <1>29, <1>30 DEF Next, Reader, AppCalls, AppBusy

-----------------------------------------------------------------------------
(* How a run ends: the second inductive invariant, on top of IInv.         *)

(* The transfers the submit loop never reached: it broke off before them.  *)
Unsubmitted == {s \in Slots : status[s] = "NEW" /\ phase[s] = "idle"}

(* The loop fills the slots in order, so where it broke off before any     *)
(* transfer it broke off before the last.                                  *)
BreaksAtTail ==
    /\ pc = "submit" => \A s \in Slots :
          IF s < i THEN phase[s] # "idle" ELSE status[s] = "NEW"
    /\ pc \in {"loop", "events", "check", "cancel", "drain", "free"} =>
          (Unsubmitted # {} => N \in Unsubmitted)

(* The reader has left its loop, or the cancel pass is past the last slot. *)
LeavesLoop ==
    \/ pc \in {"drain", "free"}
    \/ pc = "events" /\ after \in {"drain", "drained"}
    \/ pc = "cancel" /\ i = N + 1
    \/ pc = "events" /\ after = "cancel" /\ i = N + 1

(* The last libusb call that set r was refused, since the cancel pass ends *)
(* on a transfer that was never submitted.                                 *)
BreakHeard == LeavesLoop /\ N \in Unsubmitted => r # "OK"

EInv == BreaksAtTail /\ BreakHeard /\ RunEndsInactive

LEMMA InitEInv == Init => EInv
  BY DEF Init, EInv, BreaksAtTail, BreakHeard, LeavesLoop, RunEndsInactive

(* A transfer that was never submitted is not touched by cancelling or by  *)
(* completions, and nothing else joins it.                                 *)
LEMMA ReapKeepsUnsubmitted ==
    ASSUME TypeOK, orphans = 0, ReapOne
    PROVE  Unsubmitted' = Unsubmitted
<1>1. PICK s \in Slots, rearmed \in BOOLEAN : Reap(s, rearmed)
  BY DEF ReapOne, ReapOrphan
<1>2. PICK st \in {result[s]} \cup (IF unplugged THEN {"NO_DEVICE"} ELSE {}) :
        /\ phase[s] # "idle" /\ st # "none"
        /\ phase' = [phase EXCEPT ![s] = IF rearmed THEN "flying" ELSE "idle"]
        /\ status' = [status EXCEPT ![s] = st]
  BY <1>1 DEF Reap
<1>3. st # "NEW"
  BY <1>2 DEF TypeOK, Results
<1>4. \A t \in Slots :
        (status'[t] = "NEW" /\ phase'[t] = "idle") <=> (status[t] = "NEW" /\ phase[t] = "idle")
  BY <1>2, <1>3 DEF TypeOK
<1> QED
  BY <1>4 DEF Unsubmitted

(* What a step of a sound environment does to how a run ends. *)
LEMMA NextEInv ==
    ASSUME SoundEnv, IInv, EInv, [Next]_vars
    PROVE  EInv'
<1> USE ConstantsAssumption DEF IInv
<1>a. N \in Slots
  BY DEF Slots
<1>1. CASE UNCHANGED <<pc, i, r, next_status, after, phase, status, orphans>>
  BY <1>1 DEF EInv, BreaksAtTail, BreakHeard, LeavesLoop, RunEndsInactive, Unsubmitted
<1>2. CASE pc' \in {"idle", "entry", "arm", "clear"}
  BY <1>2 DEF EInv, BreaksAtTail, BreakHeard, LeavesLoop, RunEndsInactive
<1>3. CASE ReadAsyncClear
  <2>1. pc' = "submit" /\ i' = 1 /\ status' = [s \in Slots |-> "NEW"]
    BY <1>3 DEF ReadAsyncClear
  <2> QED
    BY <2>1 DEF EInv, BreaksAtTail, BreakHeard, LeavesLoop, RunEndsInactive, Slots
<1>4. CASE SubmitOk
  <2>1. /\ phase' = [phase EXCEPT ![i] = "flying"] /\ status' = status /\ i' = i + 1
        /\ pc' = IF i = N THEN "loop" ELSE "submit"
        /\ i \in Slots /\ i \in Nat /\ pc = "submit"
    BY <1>4 DEF SubmitOk, xfers, SlotsInOrder, Slots
  <2>2. \A s \in Slots : IF s < i' THEN phase'[s] # "idle" ELSE status'[s] = "NEW"
    BY <2>1 DEF EInv, BreaksAtTail, TypeOK, Slots
  <2>3. i = N => Unsubmitted' = {}
    BY <2>1, <2>2 DEF Unsubmitted, Slots
  <2> QED
    BY <2>1, <2>2, <2>3 DEF EInv, BreaksAtTail, BreakHeard, LeavesLoop, RunEndsInactive
<1>5. CASE SubmitFails
  <2>1. pc = "submit" /\ pc' = "loop" /\ phase' = phase /\ status' = status /\ i \in Slots
    BY <1>5 DEF SubmitFails, xfers, SlotsInOrder
  <2>2. N \in Unsubmitted'
    BY <1>a, <2>1 DEF EInv, BreaksAtTail, SlotsInOrder, Unsubmitted, Slots
  <2> QED
    BY <2>1, <2>2 DEF EInv, BreaksAtTail, BreakHeard, LeavesLoop, RunEndsInactive
<1>6. CASE LoopTop
  <2>1. pc = "loop" /\ pc' \in {"check", "events"} /\ after' = "check"
        /\ Unsubmitted' = Unsubmitted
    BY <1>6 DEF LoopTop, xfers, Unsubmitted
  <2> QED
    BY <2>1 DEF EInv, BreaksAtTail, BreakHeard, LeavesLoop, RunEndsInactive
<1>7. CASE EventsReap
  <2>1. pc = "events" /\ UNCHANGED reader /\ ReapOne
    BY <1>7 DEF EventsReap
  <2>2. orphans = 0
    BY <2>1 DEF NoStrangers, TypeOK
  <2>3. Unsubmitted' = Unsubmitted
    BY <2>1, <2>2, ReapKeepsUnsubmitted
  <2> QED
    BY <2>1, <2>3 DEF reader, EInv, BreaksAtTail, BreakHeard, LeavesLoop, RunEndsInactive
<1>8. CASE \E e \in {"OK", "FAILED", "INTERRUPTED"} : EventsReturn(e)
  <2>1. PICK e \in {"OK", "FAILED", "INTERRUPTED"} : EventsReturn(e)
    BY <1>8
  <2>2. /\ pc = "events" /\ after' = after /\ i' = i
        /\ Unsubmitted' = Unsubmitted
        /\ pc' \in {"check", "cancel", "drain", "free"}
        /\ after # "check" => r' = r
        /\ after # "drained" => pc' = after
    BY <2>1 DEF EventsReturn, xfers, TypeOK, Unsubmitted
  <2>3. after \in {"check", "cancel", "drain", "drained"}
    BY DEF TypeOK
  <2>4. CASE after = "check"
    BY <2>2, <2>4 DEF EInv, BreaksAtTail, BreakHeard, LeavesLoop, RunEndsInactive
  <2>5. CASE after = "cancel"
    BY <2>2, <2>5 DEF EInv, BreaksAtTail, BreakHeard, LeavesLoop, RunEndsInactive
  <2>6. CASE after \in {"drain", "drained"}
    BY <2>2, <2>6 DEF EInv, BreaksAtTail, BreakHeard, LeavesLoop, RunEndsInactive
  <2> QED
    BY <2>3, <2>4, <2>5, <2>6
<1>9. CASE Check
  <2>1. /\ pc = "check" /\ Unsubmitted' = Unsubmitted /\ r' = r
        /\ \/ pc' = "loop"
           \/ r = "FAILED" /\ pc' = "drain"
           \/ i' = 1 /\ pc' = "cancel"
    BY <1>9 DEF Check, xfers, Unsubmitted
  <2> QED
    BY <2>1 DEF EInv, BreaksAtTail, BreakHeard, LeavesLoop, RunEndsInactive
<1>10. CASE CancelOne
  <2>1. pc = "cancel" /\ i \in Slots /\ i' = i + 1 /\ status' = status
    BY <1>10 DEF CancelOne, TypeOK, Slots
  <2>2. \A s \in Slots : phase'[s] = "idle" <=> phase[s] = "idle"
    BY <1>10, <2>1, CancelKeepsFlight DEF CancelOne, TypeOK
  <2>3. Unsubmitted' = Unsubmitted
    BY <2>1, <2>2 DEF Unsubmitted
  <2>4. i = N /\ N \in Unsubmitted => r' # "OK"
    BY <1>10 DEF CancelOne, CancelReturn, Unsubmitted
  <2>5. pc' = "cancel" \/ (pc' = "events" /\ after' = "cancel")
    BY <1>10 DEF CancelOne
  <2> QED
    BY <2>1, <2>3, <2>4, <2>5 DEF EInv, BreaksAtTail, BreakHeard, LeavesLoop, RunEndsInactive, Slots
<1>11. CASE CancelPassEnd
  <2>1. /\ pc = "cancel" /\ i = N + 1 /\ r' = r
        /\ Unsubmitted' = Unsubmitted
        /\ pc' = "loop" \/ (pc' = "events" /\ after' = "drain")
    BY <1>11 DEF CancelPassEnd, xfers, TypeOK, Unsubmitted
  <2> QED
    BY <2>1 DEF EInv, BreaksAtTail, BreakHeard, LeavesLoop, RunEndsInactive
<1>12. CASE Drain
  <2>1. \A s \in Slots : phase'[s] = "idle" <=> phase[s] = "idle"
    BY <1>12, CancelKeepsFlight DEF Drain, TypeOK
  <2>2. /\ pc = "drain" /\ r' = r /\ status' = status
        /\ pc' = "free" \/ (pc' = "events" /\ after' = "drained")
    BY <1>12 DEF Drain
  <2>3. Unsubmitted' = Unsubmitted
    BY <2>1, <2>2 DEF Unsubmitted
  <2> QED
    BY <2>2, <2>3 DEF EInv, BreaksAtTail, BreakHeard, LeavesLoop, RunEndsInactive
<1>13. CASE FreeBuffers
  <2>1. pc' = "finish"
    BY <1>13 DEF FreeBuffers
  <2>2. orphans' = 0 => next_status' = "INACTIVE"
    <3>1. CASE outstanding = 0
      BY <1>13, <3>1 DEF FreeBuffers
    <3>2. CASE outstanding # 0
      <4>1. outstanding = Cardinality(InFlight) /\ Cardinality(InFlight) \in Nat
        BY <1>13, CountIsNatural DEF FreeBuffers, OutstandingExact, InFlight
      <4>2. orphans' = orphans + Cardinality(InFlight) /\ orphans \in Nat
        BY <1>13, <3>2 DEF FreeBuffers, TypeOK
      <4> QED
        BY <3>2, <4>1, <4>2
    <3> QED
      BY <3>1, <3>2
  <2> QED
    BY <2>1, <2>2 DEF EInv, BreaksAtTail, BreakHeard, LeavesLoop, RunEndsInactive
<1>14. CASE DeinitReaps \/ CloseDevice
  <2>1. pc' = "idle"
    BY <1>14 DEF DeinitReaps, CloseDevice, reader, NoCloseUnderReader
  <2> QED
    BY <1>2, <2>1
<1>15. CASE ReadAsyncCall \/ ReadAsyncEntry \/ ReadAsyncArm \/ ReadAsyncReturn
  <2>1. pc' \in {"idle", "entry", "arm", "clear"}
    BY <1>15 DEF ReadAsyncCall, ReadAsyncEntry, ReadAsyncArm, ReadAsyncReturn
  <2> QED
    BY <1>2, <2>1
<1>16. CASE (\E s \in Slots, st \in Results : KernelCompletes(s, st)) \/ Unplug \/ AppCalls
  BY <1>1, <1>16 DEF KernelCompletes, Unplug, AppCalls, CancelCall, SaveCall, CloseCall,
                     reader, xfers
<1>17. CASE CancelRead \/ CancelMark \/ CancelFlag \/ SaveReturn \/ CloseWaitEnds \/ DeinitEnds
  BY <1>1, <1>17 DEF CancelRead, CancelMark, CancelFlag, SaveReturn, CloseWaitEnds, DeinitEnds,
                     reader, xfers
<1>18. CASE Rest \/ UNCHANGED vars
  BY <1>1, <1>18 DEF Rest, vars, reader, xfers
<1> QED
  BY <1>3, <1>4, <1>5, <1>6, <1>7, <1>8, <1>9, <1>10, <1>11, <1>12, <1>13, <1>14,
     <1>15, <1>16, <1>17, <1>18 DEF Next, Reader, AppBusy

-----------------------------------------------------------------------------
(* The drain of a stopped run.                                             *)

(* While handle_events does not fail the loop is left only through the     *)
(* cancel pass, and a run that is being cancelled is no longer RUNNING.    *)
DInv ==
    /\ pc = "check" => r = "OK"
    /\ \/ pc \in {"cancel", "drain", "free"}
       \/ pc = "events" /\ after # "check"
       => async_status = "CANCELING"

(* _libusb_callback() never takes back a cancellation, and never declares  *)
(* a stopped run RUNNING.                                                  *)
LEMMA CallbackKeepsCanceling ==
    ASSUME NEW st, NEW rearmed \in BOOLEAN, Callback(st, rearmed)
    PROVE  /\ async_status = "CANCELING" => async_status' = "CANCELING"
           /\ async_status # "RUNNING" => async_status' # "RUNNING"
  BY DEF Callback, CallbackRearms, CallbackResubmitFails, CallbackUserCancels,
         CallbackWindsDown, CallbackFailed, CallbackCancelled

LEMMA ReapKeepsCanceling ==
    ASSUME ReapOne
    PROVE  /\ async_status = "CANCELING" => async_status' = "CANCELING"
           /\ async_status # "RUNNING" => async_status' # "RUNNING"
  BY CallbackKeepsCanceling DEF ReapOne, Reap, ReapOrphan

LEMMA InitDInv == Init => DInv
  BY DEF Init, DInv

LEMMA NextDInv ==
    ASSUME "event_error" \notin Env, SoundEnv, IInv, DInv, [Next]_vars
    PROVE  DInv'
<1> USE DEF IInv
<1>1. CASE UNCHANGED <<pc, r, after, async_status>>
  BY <1>1 DEF DInv
<1>2. CASE pc' \in {"idle", "entry", "arm", "clear", "submit", "loop", "finish"}
  BY <1>2 DEF DInv
<1>3. CASE LoopTop
  BY <1>3 DEF LoopTop, DInv
<1>4. CASE EventsReap
  BY <1>4, ReapKeepsCanceling DEF EventsReap, reader, DInv
<1>5. CASE \E e \in {"OK", "FAILED", "INTERRUPTED"} : EventsReturn(e)
  <2>1. PICK e \in {"OK", "FAILED", "INTERRUPTED"} : EventsReturn(e)
    BY <1>5
  <2>2. e = "OK"
    BY <2>1 DEF EventsReturn, Fault
  <2>3. after \in {"check", "cancel", "drain", "drained"}
    BY DEF TypeOK
  <2>4. pc = "events" /\ after' = after /\ async_status' = async_status
    BY <2>1 DEF EventsReturn, dev
  <2>5. CASE after = "check"
    BY <2>1, <2>2, <2>4, <2>5 DEF EventsReturn, DInv
  <2>6. CASE after # "check"
    <3>1. pc' \in {"cancel", "drain", "free"}
      BY <2>1, <2>3, <2>6 DEF EventsReturn
    <3> QED
      BY <2>4, <2>6, <3>1 DEF DInv
  <2> QED
    BY <2>5, <2>6
<1>6. CASE Check
  <2>1. pc' = "loop" \/ (pc' = "cancel" /\ async_status' = "CANCELING")
    BY <1>6 DEF Check, DInv
  <2> QED
    BY <2>1 DEF DInv
<1>7. CASE CancelOne \/ CancelPassEnd \/ Drain
  BY <1>7 DEF CancelOne, CancelPassEnd, Drain, dev, DInv
<1>8. CASE \/ ReadAsyncCall \/ ReadAsyncEntry \/ ReadAsyncArm \/ ReadAsyncClear
           \/ SubmitOk \/ SubmitFails \/ FreeBuffers \/ ReadAsyncReturn
  <2>1. pc' \in {"idle", "entry", "arm", "clear", "submit", "loop", "finish"}
    BY <1>8 DEF ReadAsyncCall, ReadAsyncEntry, ReadAsyncArm, ReadAsyncClear,
                SubmitOk, SubmitFails, FreeBuffers, ReadAsyncReturn
  <2> QED
    BY <1>2, <2>1
<1>9. CASE DeinitReaps \/ CloseDevice
  <2>1. pc' = "idle"
    BY <1>9 DEF DeinitReaps, CloseDevice, reader, NoCloseUnderReader
  <2> QED
    BY <1>2, <2>1
<1>10. CASE CancelMark
  BY <1>10 DEF CancelMark, reader, DInv
<1>11. CASE (\E s \in Slots, st \in Results : KernelCompletes(s, st)) \/ Unplug \/ AppCalls
  BY <1>1, <1>11 DEF KernelCompletes, Unplug, AppCalls, CancelCall, SaveCall, CloseCall,
                     reader, dev
<1>12. CASE CancelRead \/ CancelFlag \/ SaveReturn \/ CloseWaitEnds \/ DeinitEnds
  BY <1>1, <1>12 DEF CancelRead, CancelFlag, SaveReturn, CloseWaitEnds, DeinitEnds,
                     reader, dev
<1>13. CASE Rest \/ UNCHANGED vars
  BY <1>1, <1>13 DEF Rest, vars, reader, dev
<1> QED
  BY <1>3, <1>4, <1>5, <1>6, <1>7, <1>8, <1>9, <1>10, <1>11, <1>12, <1>13
  DEF Next, Reader, AppBusy

(* No step taken inside the drain's handle_events puts a transfer back in  *)
(* flight.                                                                 *)
LEMMA DrainStep ==
    ASSUME IInv, DInv, [Next]_vars, pc = "events", after = "drained", NEW s \in Slots,
           phase'[s] = "flying"
    PROVE  phase[s] = "flying"
<1>1. CASE UNCHANGED phase
  BY <1>1
<1>2. CASE EventsReap
  <2>1. async_status = "CANCELING"
    BY DEF DInv
  <2>2. CASE \E t \in Slots, rearmed \in BOOLEAN : Reap(t, rearmed)
    <3>1. PICK t \in Slots, rearmed \in BOOLEAN : Reap(t, rearmed)
      BY <2>2
    <3>2. ~rearmed
      BY <2>1, <3>1 DEF Reap, Callback, CallbackRearms
    <3>3. phase' = [phase EXCEPT ![t] = "idle"]
      BY <3>1, <3>2 DEF Reap
    <3> QED
      BY <3>3 DEF IInv, TypeOK
  <2>3. CASE \E st \in Results, rearmed \in BOOLEAN : ReapOrphan(st, rearmed)
    BY <1>1, <2>3 DEF ReapOrphan
  <2> QED
    BY <1>2, <2>2, <2>3 DEF EventsReap, ReapOne
<1>3. CASE \E e \in {"OK", "FAILED", "INTERRUPTED"} : EventsReturn(e)
  BY <1>1, <1>3 DEF EventsReturn, xfers
<1>4. CASE DeinitReaps \/ CloseDevice
  BY <1>4 DEF DeinitReaps, CloseDevice
<1>5. CASE (\E t \in Slots, st \in Results : KernelCompletes(t, st)) \/ Unplug \/ AppCalls
  BY <1>1, <1>5 DEF KernelCompletes, Unplug, AppCalls, CancelCall, SaveCall, CloseCall, xfers
<1>6. CASE \/ CancelRead \/ CancelMark \/ CancelFlag \/ SaveReturn \/ CloseWaitEnds
           \/ DeinitEnds
  BY <1>1, <1>6 DEF CancelRead, CancelMark, CancelFlag, SaveReturn, CloseWaitEnds,
                    DeinitEnds, xfers
<1>7. CASE Rest \/ UNCHANGED vars
  BY <1>1, <1>7 DEF Rest, vars, xfers
<1>8. CASE \/ ReadAsyncCall \/ ReadAsyncEntry \/ ReadAsyncArm \/ ReadAsyncClear
           \/ SubmitOk \/ SubmitFails \/ LoopTop \/ Check \/ CancelOne \/ CancelPassEnd
           \/ Drain \/ FreeBuffers \/ ReadAsyncReturn
  BY <1>8 DEF ReadAsyncCall, ReadAsyncEntry, ReadAsyncArm, ReadAsyncClear, SubmitOk,
              SubmitFails, LoopTop, Check, CancelOne, CancelPassEnd, Drain, FreeBuffers,
              ReadAsyncReturn
<1> QED
  BY <1>2, <1>3, <1>4, <1>5, <1>6, <1>7, <1>8 DEF Next, Reader, AppBusy

-----------------------------------------------------------------------------
(* The step simulation: one rtlsdr_read_async() against StreamContract.    *)

(* The stage, read off where the reader is. *)
Looping == pc \in {"loop", "check", "cancel"} \/ (pc = "events" /\ after # "drained")

LEMMA StageIs ==
    /\ pc \in {"idle", "entry", "finish"} => Stage = "idle"
    /\ pc \in {"arm", "clear", "submit"} => Stage = "starting"
    /\ pc \in {"drain", "free"} => Stage = "ending"
    /\ pc = "events" /\ after = "drained" => Stage = "ending"
    /\ Looping => Stage = IF async_status = "RUNNING" THEN "streaming" ELSE "stopping"
  BY DEF Stage, Winding, Looping

LEMMA StageBecomes ==
    /\ pc' \in {"idle", "entry", "finish"} => Stage' = "idle"
    /\ pc' \in {"arm", "clear", "submit"} => Stage' = "starting"
    /\ pc' \in {"drain", "free"} => Stage' = "ending"
    /\ pc' = "events" /\ after' = "drained" => Stage' = "ending"
    /\ Looping' => Stage' = IF async_status' = "RUNNING" THEN "streaming" ELSE "stopping"
  BY DEF Stage, Winding, Looping

LEMMA InitMaps == Init => Contract!CInit
<1> SUFFICES ASSUME Init PROVE Contract!CInit
  OBVIOUS
<1>1. Stage = "idle" /\ InFlight = {} /\ orphans = 0
  BY StageIs DEF Init, InFlight
<1> QED
  BY <1>1 DEF Contract!CInit

(* A completion the reader handles takes the transfer back or re-arms it. *)
LEMMA ReapShrinks ==
    ASSUME TypeOK, ReapOne
    PROVE  InFlight' \subseteq InFlight
  BY ReapTypes DEF InFlight

(* Every step of the threads is a step of the contract, or leaves what it  *)
(* speaks of alone.                                                        *)
LEMMA StepMaps ==
    ASSUME SoundEnv, IInv, [Next]_vars
    PROVE  [Contract!CNext]_<<Stage, InFlight, orphans>>
<1> USE ConstantsAssumption DEF IInv
<1>0. CASE UNCHANGED <<pc, after, async_status, phase, orphans>>
  BY <1>0 DEF Stage, Winding, InFlight
<1>1. CASE ReadAsyncEntry
  <2>1. InFlight' = InFlight /\ orphans' = orphans /\ Stage = "idle" /\ orphans = 0
    BY <1>1, StageIs DEF ReadAsyncEntry, xfers, InFlight, NoStrangers, TypeOK
  <2>2. Stage' \in {"idle", "starting"}
    BY <1>1, StageBecomes DEF ReadAsyncEntry
  <2> QED
    BY <2>1, <2>2 DEF Contract!CNext, Contract!Start
<1>2. CASE ReadAsyncCall \/ ReadAsyncArm \/ ReadAsyncClear \/ ReadAsyncReturn
  <2>1. InFlight' = InFlight /\ orphans' = orphans
    BY <1>2 DEF ReadAsyncCall, ReadAsyncArm, ReadAsyncClear, ReadAsyncReturn, xfers, InFlight
  <2>2. Stage' = Stage
    BY <1>2, StageIs, StageBecomes
    DEF ReadAsyncCall, ReadAsyncArm, ReadAsyncClear, ReadAsyncReturn
  <2> QED
    BY <2>1, <2>2
<1>3. CASE SubmitOk
  <2>1. i \in Slots /\ phase[i] = "idle" /\ phase' = [phase EXCEPT ![i] = "flying"]
        /\ orphans' = orphans
    BY <1>3 DEF SubmitOk, SlotsInOrder, Slots
  <2>2. InFlight' = InFlight \cup {i} /\ i \in Slots \ InFlight
    BY <2>1 DEF InFlight, TypeOK
  <2>3. Stage = "starting" /\ Stage' \in {"starting", "streaming", "stopping"}
    BY <1>3, StageIs, StageBecomes DEF SubmitOk, Looping
  <2> QED
    BY <2>1, <2>2, <2>3 DEF Contract!CNext, Contract!Submit
<1>4. CASE SubmitFails
  <2>1. InFlight' = InFlight /\ orphans' = orphans
    BY <1>4 DEF SubmitFails, xfers, InFlight
  <2>2. Stage = "starting" /\ Stage' = "stopping"
    BY <1>4, StageIs, StageBecomes DEF SubmitFails, Looping
  <2> QED
    BY <2>1, <2>2 DEF Contract!CNext, Contract!Submit
<1>5. CASE LoopTop
  <2>1. InFlight' = InFlight /\ orphans' = orphans
    BY <1>5 DEF LoopTop, xfers, InFlight
  <2>2. Looping /\ Looping' /\ async_status' = async_status
    BY <1>5 DEF LoopTop, dev, Looping
  <2>3. Stage' = Stage
    BY <2>2, StageIs, StageBecomes
  <2> QED
    BY <2>1, <2>3
<1>6. CASE EventsReap
  <2>1. InFlight' \subseteq InFlight /\ orphans' = orphans
    BY <1>6, ReapShrinks, ReapTypes DEF EventsReap, NoStrangers, TypeOK
  <2>2. pc = "events" /\ pc' = pc /\ after' = after
        /\ (async_status # "RUNNING" => async_status' # "RUNNING")
    BY <1>6, ReapKeepsCanceling DEF EventsReap, reader
  <2>3. Stage \in {"streaming", "stopping", "ending"}
        /\ (Stage' = Stage \/ (Stage = "streaming" /\ Stage' = "stopping"))
    BY <2>2, StageIs, StageBecomes DEF Looping
  <2> QED
    BY <2>1, <2>3 DEF Contract!CNext, Contract!ComeBack
<1>7. CASE \E e \in {"OK", "FAILED", "INTERRUPTED"} : EventsReturn(e)
  <2>1. InFlight' = InFlight /\ orphans' = orphans
    BY <1>7 DEF EventsReturn, xfers, InFlight
  <2>2. /\ pc = "events" /\ async_status' = async_status
        /\ \/ after # "drained" /\ pc' = after
           \/ after = "drained" /\ pc' \in {"drain", "free"}
    BY <1>7 DEF EventsReturn, dev
  <2>3. after \in {"check", "cancel", "drain", "drained"}
    BY DEF TypeOK
  <2>4. \/ Stage' = Stage
        \/ Stage \in {"streaming", "stopping"} /\ Stage' = "ending"
    BY <2>2, <2>3, StageIs, StageBecomes DEF Looping
  <2> QED
    BY <2>1, <2>4 DEF Contract!CNext, Contract!Quit
<1>8. CASE Check
  <2>1. InFlight' = InFlight /\ orphans' = orphans /\ pc = "check"
    BY <1>8 DEF Check, xfers, InFlight
  <2>2. \/ pc' = "drain"
        \/ /\ pc' \in {"loop", "cancel"}
           /\ async_status' = async_status \/ async_status' = "CANCELING"
    BY <1>8 DEF Check
  <2>3. CASE pc' = "drain"
    <3>1. Stage \in {"streaming", "stopping"} /\ Stage' = "ending"
      BY <2>1, <2>3, StageIs, StageBecomes DEF Looping
    <3> QED
      BY <2>1, <3>1 DEF Contract!CNext, Contract!Quit
  <2>4. CASE pc' # "drain"
    <3>1. Stage \in {"streaming", "stopping"}
          /\ (Stage' = Stage \/ (Stage = "streaming" /\ Stage' = "stopping"))
      BY <2>1, <2>2, <2>4, StageIs, StageBecomes DEF Looping
    <3> QED
      BY <2>1, <3>1 DEF Contract!CNext, Contract!ComeBack
  <2> QED
    BY <2>3, <2>4
<1>9. CASE CancelOne \/ CancelPassEnd
  <2>1. /\ pc = "cancel" /\ async_status' = async_status /\ orphans' = orphans
        /\ pc' \in {"cancel", "loop"} \/ (pc' = "events" /\ after' # "drained")
    BY <1>9 DEF CancelOne, CancelPassEnd, dev, xfers
  <2>2. \A s \in Slots : phase'[s] = "idle" <=> phase[s] = "idle"
    BY <1>9, CancelKeepsFlight DEF CancelOne, CancelPassEnd, xfers, TypeOK, Slots
  <2>3. Stage' = Stage
    BY <2>1, StageIs, StageBecomes DEF Looping
  <2> QED
    BY <2>1, <2>2, <2>3, SameTransfers
<1>10. CASE Drain
  <2>1. \A s \in Slots : phase'[s] = "idle" <=> phase[s] = "idle"
    BY <1>10, CancelKeepsFlight DEF Drain, TypeOK
  <2>2. Stage' = Stage /\ orphans' = orphans
    BY <1>10, StageIs, StageBecomes DEF Drain
  <2> QED
    BY <2>1, <2>2, SameTransfers
<1>11. CASE FreeBuffers
  <2>1. outstanding = Cardinality(InFlight) /\ Cardinality(InFlight) \in Nat /\ orphans \in Nat
    BY <1>11, CountIsNatural DEF FreeBuffers, OutstandingExact, InFlight, TypeOK
  <2>2. orphans' = orphans + Cardinality(InFlight) /\ InFlight' = {}
    BY <1>11, <2>1 DEF FreeBuffers, InFlight
  <2>3. Stage = "ending" /\ Stage' = "idle"
    BY <1>11, StageIs, StageBecomes DEF FreeBuffers
  <2>4. Contract!Cardinality(InFlight) = Cardinality(InFlight)
    BY Zenon DEF Contract!Cardinality, Cardinality, Contract!IsFiniteSet, IsFiniteSet
  <2> QED
    BY <2>2, <2>3, <2>4 DEF Contract!CNext, Contract!End
<1>12. CASE DeinitReaps \/ CloseDevice
  <2>1. pc = "idle" /\ pc' = "idle"
    BY <1>12 DEF DeinitReaps, CloseDevice, reader, NoCloseUnderReader
  <2>2. Stage = "idle" /\ Stage' = "idle"
    BY <2>1, StageIs, StageBecomes
  <2>3. InFlight = {}
    BY <2>1 DEF InFlight, SlotsInOrder, Idle
  <2>4. InFlight' = {}
    BY <1>12, <2>3, ReapShrinks DEF DeinitReaps, CloseDevice, InFlight
  <2>5. orphans' \in 0 .. orphans
    <3>1. CASE CloseDevice
      BY <3>1 DEF CloseDevice, TypeOK
    <3>2. CASE DeinitReaps
      <4>1. PICK st \in Results, rearmed \in BOOLEAN : ReapOrphan(st, rearmed)
        BY <2>3, <3>2 DEF DeinitReaps, ReapOne, Reap, InFlight
      <4> QED
        BY <4>1 DEF ReapOrphan, TypeOK
    <3> QED
      BY <1>12, <3>1, <3>2
  <2> QED
    BY <2>2, <2>3, <2>4, <2>5 DEF Contract!CNext, Contract!Settle
<1>13. CASE CancelMark
  <2>1. InFlight' = InFlight /\ orphans' = orphans
    BY <1>13 DEF CancelMark, xfers, InFlight
  <2>2. pc' = pc /\ after' = after /\ async_status' = "CANCELING"
    BY <1>13 DEF CancelMark, reader
  <2>3. CASE Looping
    <3>1. Stage \in {"streaming", "stopping"} /\ Stage' = "stopping"
      BY <2>2, <2>3, StageIs, StageBecomes DEF Looping
    <3> QED
      BY <2>1, <3>1 DEF Contract!CNext, Contract!ComeBack
  <2>4. CASE ~Looping
    <3>1. Stage' = Stage
      BY <2>2, <2>4, StageIs, StageBecomes DEF Looping, TypeOK
    <3> QED
      BY <2>1, <3>1
  <2> QED
    BY <2>3, <2>4
<1>14. CASE (\E s \in Slots, st \in Results : KernelCompletes(s, st)) \/ Unplug \/ AppCalls
  BY <1>0, <1>14 DEF KernelCompletes, Unplug, AppCalls, CancelCall, SaveCall, CloseCall,
                     reader, dev, xfers
<1>15. CASE CancelRead \/ CancelFlag \/ SaveReturn \/ CloseWaitEnds \/ DeinitEnds
  BY <1>0, <1>15 DEF CancelRead, CancelFlag, SaveReturn, CloseWaitEnds, DeinitEnds,
                     reader, dev, xfers
<1>16. CASE Rest \/ UNCHANGED vars
  BY <1>0, <1>16 DEF Rest, vars, reader, dev, xfers
<1> QED
  BY <1>1, <1>2, <1>3, <1>4, <1>5, <1>6, <1>7, <1>8, <1>9, <1>10, <1>11, <1>12, <1>13,
     <1>14, <1>15, <1>16 DEF Next, Reader, AppBusy

-----------------------------------------------------------------------------
(* The flow of samples.                                                    *)

WaitsForSamples == pc \in {"loop", "check"} \/ (pc = "events" /\ after = "check")

GivingUp == pc = "cancel" \/ (pc = "events" /\ after \in {"cancel", "drain"})

(* While no transfer fails, one leaves the stream for good only through a  *)
(* callback that ends the run, through a cancellation of a run that has    *)
(* been ended, or with the device.                                         *)
FlowInv ==
    /\ \A s \in Slots : result[s] \notin {"ERROR", "OTHER"}
    /\ \A s \in Slots : result[s] = "CANCELLED" => phase[s] = "cancelled"
    /\ GivingUp => async_status # "RUNNING"
    /\ async_status = "RUNNING" /\ ~Winding => \A s \in Slots : phase[s] # "cancelled"
    /\ WaitsForSamples /\ async_status = "RUNNING" /\ ~dev_lost => InFlight # {}

LEMMA InitFlow == Init => FlowInv
  BY DEF Init, FlowInv, GivingUp, WaitsForSamples, Winding

(* A completion that takes a transfer out of the stream of a run that is   *)
(* still RUNNING afterwards has given up the device.                       *)
LEMMA ReapFlows ==
    ASSUME TypeOK, FlowInv, ReapOne, UNCHANGED <<pc, after>>
    PROVE  FlowInv'
<1>1. async_status # "RUNNING" => async_status' # "RUNNING"
  BY ReapKeepsCanceling
<1>2. GivingUp' = GivingUp /\ Winding' = Winding /\ WaitsForSamples' = WaitsForSamples
  BY DEF GivingUp, Winding, WaitsForSamples
<1>3. CASE \E s \in Slots, rearmed \in BOOLEAN : Reap(s, rearmed)
  <2>1. PICK s \in Slots, rearmed \in BOOLEAN : Reap(s, rearmed)
    BY <1>3
  <2>2. PICK st \in {result[s]} \cup (IF unplugged THEN {"NO_DEVICE"} ELSE {}) :
          /\ phase[s] # "idle" /\ st # "none" /\ Callback(st, rearmed)
          /\ phase' = [phase EXCEPT ![s] = IF rearmed THEN "flying" ELSE "idle"]
          /\ result' = [result EXCEPT ![s] = "none"]
    BY <2>1 DEF Reap
  <2>3. st \notin {"ERROR", "OTHER"} /\ (st = "CANCELLED" => phase[s] = "cancelled")
    BY <2>2 DEF FlowInv
  <2>4. \A t \in Slots : /\ t # s => phase'[t] = phase[t] /\ result'[t] = result[t]
                         /\ result'[s] = "none" /\ phase'[s] \in {"flying", "idle"}
    BY <2>2 DEF TypeOK
  <2>5. /\ \A t \in Slots : result'[t] \notin {"ERROR", "OTHER"}
        /\ \A t \in Slots : result'[t] = "CANCELLED" => phase'[t] = "cancelled"
        /\ (\A t \in Slots : phase[t] # "cancelled") => \A t \in Slots : phase'[t] # "cancelled"
    BY <2>4 DEF FlowInv
  <2>6. CASE rearmed
    <3>1. phase'[s] = "flying"
      BY <2>2, <2>6 DEF TypeOK
    <3>2. s \in InFlight'
      BY <3>1 DEF InFlight
    <3> QED
      BY <1>1, <1>2, <2>5, <3>2 DEF FlowInv
  <2>7. CASE ~rearmed
    <3>1. async_status' # "RUNNING" \/ dev_lost' \/ (st = "CANCELLED" /\ async_status' = async_status)
      BY <2>2, <2>3, <2>7, CallbackKeepsCanceling
      DEF Callback, CallbackResubmitFails, CallbackUserCancels, CallbackWindsDown,
          CallbackCancelled, CallbackFailed
    <3>2. CASE st = "CANCELLED" /\ async_status' = async_status
      <4>1. async_status = "RUNNING" => Winding
        BY <2>3, <3>2 DEF FlowInv
      <4>2. Winding => ~WaitsForSamples
        BY DEF Winding, WaitsForSamples
      <4> QED
        BY <1>1, <1>2, <2>5, <3>2, <4>1, <4>2 DEF FlowInv
    <3> QED
      BY <1>1, <1>2, <2>5, <3>1, <3>2 DEF FlowInv
  <2> QED
    BY <2>6, <2>7
<1>4. CASE \E st \in Results, rearmed \in BOOLEAN : ReapOrphan(st, rearmed)
  <2>1. PICK st \in Results, rearmed \in BOOLEAN : ReapOrphan(st, rearmed)
    BY <1>4
  <2>2. phase' = phase /\ result' = result /\ InFlight' = InFlight
    BY <2>1 DEF ReapOrphan, InFlight
  <2>3. dev_lost => dev_lost'
    BY <2>1 DEF ReapOrphan, Callback, CallbackRearms, CallbackResubmitFails, CallbackUserCancels,
                CallbackWindsDown, CallbackCancelled, CallbackFailed
  <2> QED
    BY <1>1, <1>2, <2>2, <2>3 DEF FlowInv
<1> QED
  BY <1>3, <1>4 DEF ReapOne

(* Cancelling moves what is in flight; a result that is there stays one of *)
(* a transfer that has not been discarded.                                 *)
LEMMA CancelFlows ==
    ASSUME TypeOK, FlowInv, NEW s \in Slots
    PROVE  result[s] = "CANCELLED" => CancelledPhase(s) = "cancelled"
  BY DEF FlowInv, CancelledPhase

LEMMA NextFlow ==
    ASSUME "xfer_error" \notin Env, SoundEnv, IInv, FlowInv, [Next]_vars
    PROVE  FlowInv'
<1> USE DEF IInv
<1>1. ASSUME UNCHANGED <<async_status, dev_lost, phase, result, pc, after>>
      PROVE  FlowInv'
  BY <1>1 DEF FlowInv, GivingUp, WaitsForSamples, Winding, InFlight
<1>2. ASSUME UNCHANGED <<phase, result>>, async_status' = "RUNNING" => async_status = "RUNNING",
             ~GivingUp' \/ async_status' # "RUNNING", Winding => Winding',
             WaitsForSamples' /\ async_status' = "RUNNING" /\ ~dev_lost' =>
                WaitsForSamples /\ ~dev_lost
      PROVE  FlowInv'
  BY <1>2 DEF FlowInv, InFlight
<1>3. ASSUME \A s \in Slots : phase'[s] = "idle", \A s \in Slots : result'[s] = "none",
             pc' \in {"idle", "entry", "arm", "clear", "finish"}
      PROVE  FlowInv'
  BY <1>3 DEF FlowInv, GivingUp, WaitsForSamples
<1>4. CASE EventsReap \/ DeinitReaps
  BY <1>4, ReapFlows DEF EventsReap, DeinitReaps, reader
<1>5. CASE \E s \in Slots, st \in Results : KernelCompletes(s, st)
  <2>1. PICK s \in Slots, st \in Results : KernelCompletes(s, st)
    BY <1>5
  <2>2. /\ st \notin {"ERROR", "OTHER"} /\ (st = "CANCELLED" => phase[s] = "cancelled")
        /\ result' = [result EXCEPT ![s] = st]
    BY <2>1 DEF KernelCompletes, Fault
  <2>3. UNCHANGED <<async_status, dev_lost, phase, pc, after>>
    BY <2>1 DEF KernelCompletes, dev, reader
  <2>4. \A t \in Slots : result'[t] = IF t = s THEN st ELSE result[t]
    BY <2>2 DEF TypeOK
  <2> QED
    BY <2>2, <2>3, <2>4 DEF FlowInv, GivingUp, WaitsForSamples, Winding, InFlight
<1>6. CASE ReadAsyncCall \/ ReadAsyncEntry
  BY <1>2, <1>6 DEF ReadAsyncCall, ReadAsyncEntry, xfers, dev, GivingUp, WaitsForSamples, Winding
<1>7. CASE ReadAsyncArm
  <2>1. \A s \in Slots : phase[s] = "idle"
    BY <1>7 DEF ReadAsyncArm, SlotsInOrder, Idle
  <2>2. pc' = "clear" /\ phase' = phase /\ result' = result
    BY <1>7 DEF ReadAsyncArm, xfers
  <2> QED
    BY <2>1, <2>2 DEF FlowInv, GivingUp, WaitsForSamples
<1>8. CASE ReadAsyncClear
  BY <1>2, <1>8 DEF ReadAsyncClear, GivingUp, WaitsForSamples, Winding
<1>9. CASE SubmitOk
  <2>1. /\ i \in Slots /\ phase[i] = "idle" /\ phase' = [phase EXCEPT ![i] = "flying"]
        /\ UNCHANGED <<async_status, dev_lost, result>>
        /\ pc = "submit" /\ pc' \in {"loop", "submit"}
    BY <1>9 DEF SubmitOk, SlotsInOrder, TypeOK, Slots
  <2>2. phase'[i] = "flying" /\ \A t \in Slots : t # i => phase'[t] = phase[t]
    BY <2>1 DEF TypeOK
  <2>3. i \in InFlight'
    BY <2>1, <2>2 DEF InFlight
  <2>4. ~Winding /\ ~GivingUp'
    BY <2>1 DEF Winding, GivingUp
  <2> QED
    BY <2>1, <2>2, <2>3, <2>4 DEF FlowInv
<1>10. CASE SubmitFails
  BY <1>2, <1>10 DEF SubmitFails, xfers, GivingUp, WaitsForSamples, Winding
<1>11. CASE LoopTop
  BY <1>2, <1>11 DEF LoopTop, dev, xfers, GivingUp, WaitsForSamples, Winding
<1>12. CASE \E e \in {"OK", "FAILED", "INTERRUPTED"} : EventsReturn(e)
  <2>1. PICK e \in {"OK", "FAILED", "INTERRUPTED"} : EventsReturn(e)
    BY <1>12
  <2>2. /\ pc = "events" /\ after' = after
        /\ UNCHANGED <<async_status, dev_lost, phase, result>>
        /\ pc' = CASE after # "drained"                     -> after
                   [] after = "drained" /\ e = "FAILED"      -> "free"
                   [] after = "drained" /\ e # "FAILED"      -> "drain"
    BY <2>1 DEF EventsReturn, dev, xfers
  <2>3. after \in {"check", "cancel", "drain", "drained"}
    BY DEF TypeOK
  <2>4. /\ after = "check" => pc' = "check"
        /\ after = "cancel" => pc' = "cancel"
        /\ after = "drain" => pc' = "drain"
        /\ after = "drained" => pc' \in {"drain", "free"}
    BY <2>2
  <2>5. ~GivingUp' \/ async_status' # "RUNNING"
    BY <2>2, <2>3, <2>4 DEF FlowInv, GivingUp
  <2>6. Winding => Winding'
    BY <2>2, <2>4 DEF Winding
  <2>7. WaitsForSamples' => WaitsForSamples
    BY <2>2, <2>3, <2>4 DEF WaitsForSamples
  <2> QED
    BY <1>2, <2>2, <2>5, <2>6, <2>7
<1>13. CASE Check
  <2>1. /\ pc = "check" /\ UNCHANGED <<dev_lost, phase, result>>
        /\ async_status' = "RUNNING" => async_status = "RUNNING"
        /\ pc' \in {"loop", "drain", "cancel"}
        /\ pc' = "cancel" => async_status' # "RUNNING"
    BY <1>13 DEF Check, xfers
  <2>2. ~Winding /\ WaitsForSamples
    BY <2>1 DEF Winding, WaitsForSamples
  <2>3. GivingUp' => async_status' # "RUNNING"
    BY <2>1 DEF GivingUp
  <2> QED
    BY <1>2, <2>1, <2>2, <2>3
<1>14. CASE CancelOne
  <2>1. /\ pc = "cancel" /\ i \in Slots /\ UNCHANGED <<async_status, dev_lost, result>>
        /\ phase' = phase \/ phase' = [phase EXCEPT ![i] = CancelledPhase(i)]
    BY <1>14 DEF CancelOne, dev, TypeOK, Slots
  <2>2. async_status # "RUNNING"
    BY <2>1 DEF FlowInv, GivingUp
  <2>3. \A t \in Slots : phase'[t] = phase[t] \/ phase'[t] = CancelledPhase(t)
    BY <2>1 DEF TypeOK
  <2>4. \A t \in Slots : result[t] = "CANCELLED" => phase'[t] = "cancelled"
    BY <2>3, CancelFlows DEF FlowInv
  <2> QED
    BY <2>1, <2>2, <2>4 DEF FlowInv
<1>15. CASE CancelPassEnd
  <2>1. pc = "cancel" /\ UNCHANGED <<async_status, dev_lost, phase, result>>
    BY <1>15 DEF CancelPassEnd, dev, xfers
  <2>2. async_status # "RUNNING"
    BY <2>1 DEF FlowInv, GivingUp
  <2> QED
    BY <2>1, <2>2 DEF FlowInv
<1>16. CASE Drain
  <2>1. /\ UNCHANGED <<async_status, dev_lost, result>>
        /\ pc' = "free" \/ (pc' = "events" /\ after' = "drained")
        /\ phase' = phase \/ \A t \in Slots : phase'[t] \in {phase[t], CancelledPhase(t)}
    BY <1>16 DEF Drain, dev
  <2>2. Winding' /\ ~GivingUp' /\ ~WaitsForSamples'
    BY <2>1 DEF Winding, GivingUp, WaitsForSamples
  <2>3. \A t \in Slots : result[t] = "CANCELLED" => phase'[t] = "cancelled"
    BY <2>1, CancelFlows DEF FlowInv
  <2> QED
    BY <2>1, <2>2, <2>3 DEF FlowInv
<1>17. CASE FreeBuffers
  <2>1. /\ phase' = [s \in Slots |-> "idle"] /\ result' = [s \in Slots |-> "none"]
        /\ pc' = "finish"
    BY <1>17 DEF FreeBuffers
  <2> QED
    BY <1>3, <2>1
<1>18. CASE ReadAsyncReturn
  <2>1. /\ pc = "finish" /\ pc' = "idle" /\ async_status' # "RUNNING"
        /\ UNCHANGED <<dev_lost, phase, result>>
    BY <1>18 DEF ReadAsyncReturn, xfers, TypeOK
  <2> QED
    BY <1>2, <2>1 DEF GivingUp, WaitsForSamples, Winding
<1>19. CASE CloseDevice
  <2>1. pc' = "idle"
    BY <1>19 DEF CloseDevice, reader, NoCloseUnderReader
  <2>2. /\ phase' = [s \in Slots |-> "idle"] /\ result' = [s \in Slots |-> "none"]
    BY <1>19 DEF CloseDevice
  <2> QED
    BY <1>3, <2>1, <2>2
<1>20. CASE CancelMark
  BY <1>2, <1>20 DEF CancelMark, xfers, reader, GivingUp, WaitsForSamples, Winding
<1>21. CASE Unplug \/ AppCalls
  BY <1>1, <1>21 DEF Unplug, AppCalls, CancelCall, SaveCall, CloseCall, dev, xfers, reader
<1>22. CASE CancelRead \/ CancelFlag \/ SaveReturn \/ CloseWaitEnds \/ DeinitEnds
  BY <1>1, <1>22 DEF CancelRead, CancelFlag, SaveReturn, CloseWaitEnds, DeinitEnds,
                     dev, xfers, reader
<1>23. CASE Rest \/ UNCHANGED vars
  BY <1>1, <1>23 DEF Rest, vars, dev, xfers, reader
<1> QED
  BY <1>4, <1>5, <1>6, <1>7, <1>8, <1>9, <1>10, <1>11, <1>12, <1>13, <1>14, <1>15, <1>16,
     <1>17, <1>18, <1>19, <1>20, <1>21, <1>22, <1>23 DEF Next, Reader, AppBusy

-----------------------------------------------------------------------------
(* The theorems. *)

(* xfer_outstanding is exact, and with it everything else IInv says, in    *)
(* every reachable state of a sound environment.                           *)
THEOREM Inductive == ASSUME SoundEnv PROVE Spec => []IInv
<1>1. IInv /\ [Next]_vars => IInv'
  BY NextTypeOK, NextControl, NextCounter DEF IInv, Control
<1> QED
  BY InitIInv, <1>1, PTL DEF Spec

(* The types hold in every reachable state. *)
THEOREM TypeCorrect == ASSUME SoundEnv PROVE Spec => []TypeOK
<1>1. IInv => TypeOK
  BY DEF IInv
<1> QED
  BY Inductive, <1>1, PTL

(* The counter is exact: _rtlsdr_free_async_buffers() may trust it. *)
THEOREM CounterExact == ASSUME SoundEnv PROVE Spec => []OutstandingExact
<1>1. IInv => OutstandingExact
  BY DEF IInv
<1> QED
  BY Inductive, <1>1, PTL

(* No transfer is freed while libusb has it in flight. *)
THEOREM FreeIsSafe == ASSUME SoundEnv PROVE Spec => []NoFreeInFlight
<1>1. IInv => NoFreeInFlight
  <2> SUFFICES ASSUME IInv, pc = "free", outstanding = 0 PROVE InFlight = {}
    BY DEF NoFreeInFlight
  <2>1. Cardinality(InFlight) = 0
    BY DEF IInv, OutstandingExact
  <2>2. IsFiniteSet(InFlight)
    BY CountIsNatural DEF InFlight
  <2> QED
    BY <2>1, <2>2, FS_EmptySet
<1> QED
  BY Inductive, <1>1, PTL

(* rtlsdr_close() tears nothing down under a running reader. *)
THEOREM CloseIsSafe == ASSUME SoundEnv PROVE Spec => []NoCloseUnderReader
<1>1. IInv => NoCloseUnderReader
  BY DEF IInv
<1> QED
  BY Inductive, <1>1, PTL

(* How a run ends, in every reachable state of a sound environment. *)
THEOREM EndsWell == ASSUME SoundEnv PROVE Spec => []EInv
<1>1. IInv /\ EInv /\ [Next]_vars => EInv'
  BY NextEInv
<1> QED
  BY Inductive, InitEInv, <1>1, PTL DEF Spec

(* A run that has leaked nothing hands the device back INACTIVE, ready for *)
(* the next rtlsdr_read_async(): next_status is right on every way out.    *)
THEOREM EndsInactive == ASSUME SoundEnv PROVE Spec => []RunEndsInactive
<1>1. EInv => RunEndsInactive
  BY DEF EInv
<1> QED
  BY EndsWell, <1>1, PTL

(* A run whose submit loop broke off does not return 0, although r has     *)
(* been overwritten by every libusb call since.                            *)
THEOREM StartFailureHeard == ASSUME SoundEnv PROVE Spec => []FailedStartReported
<1>1. EInv => FailedStartReported
  BY DEF EInv, BreaksAtTail, BreakHeard, LeavesLoop, FailedStartReported, Unsubmitted
<1> QED
  BY EndsWell, <1>1, PTL

(* While handle_events does not fail, the drain at the end of a run puts   *)
(* nothing back in flight: it cannot be outrun by the callbacks.           *)
THEOREM DrainRearmsNothing ==
    ASSUME SoundEnv, "event_error" \notin Env
    PROVE  Spec => DrainNeverRearms
<1>1. IInv /\ DInv /\ [Next]_vars => DInv'
  BY NextDInv
<1>2. Spec => [](IInv /\ DInv)
  BY Inductive, InitDInv, <1>1, PTL DEF Spec
<1>3. IInv /\ DInv /\ [Next]_vars =>
        [pc = "events" /\ after = "drained" =>
           \A s \in Slots : phase'[s] = "flying" => phase[s] = "flying"]_vars
  BY DrainStep
<1> QED
  BY <1>2, <1>3, PTL DEF Spec, DrainNeverRearms

(* While transfers do not fail, a reader that waits for samples of a       *)
(* running stream on a present device has a transfer that can bring some:  *)
(* no order of cancellations, unplug, lost submissions and callbacks lets  *)
(* the last transfer go while the run stays RUNNING.                       *)
THEOREM FlowsAlways ==
    ASSUME SoundEnv, "xfer_error" \notin Env
    PROVE  Spec => []StreamNotStalled
<1>1. IInv /\ FlowInv /\ [Next]_vars => FlowInv'
  BY NextFlow
<1>2. FlowInv => StreamNotStalled
  BY DEF FlowInv, WaitsForSamples, StreamNotStalled
<1> QED
  BY Inductive, InitFlow, <1>1, <1>2, PTL DEF Spec

(* Every run of rtlsdr_read_async() starts as the contract starts, and     *)
(* every step of the threads is one of its steps or a stutter: the safety  *)
(* half of MeetsContract.                                                  *)
THEOREM Simulates ==
    ASSUME SoundEnv
    PROVE  Spec => Contract!CInit /\ [][Contract!CNext]_(Contract!cvars)
<1>1. IInv /\ [Next]_vars => [Contract!CNext]_(Contract!cvars)
  BY StepMaps DEF Contract!cvars
<1> QED
  BY Inductive, InitMaps, <1>1, PTL DEF Spec

=============================================================================
