---------------------------- MODULE BoardProofs ----------------------------
(***************************************************************************)
(* Board for an EEPROM of any size, any pins and any failures: what is     *)
(* written to the EEPROM, what drives the bias tee, and where the strings  *)
(* come from.                                                              *)
(*                                                                         *)
(* While rtlsdr_write_eeprom() met no failure, the bytes before the one it *)
(* is at are written (Done), and the EEPROM's address counter points at    *)
(* that one when it is read back.                                          *)
(***************************************************************************)
EXTENDS Board, SequenceTheorems, TLAPS

(* The fields of a job: those of a call at rest, or of a write. *)
Rests == [op : {"none"}, r : Int]

Writes ==
  [op : {"none", "write"}, r : Int, offset : Nat, data : Seq(Bytes), i : Nat,
   pc : {"address", "read", "write"}, last : Int, clean : BOOLEAN]

\* The cells a write goes to are cells, and its values may be in them.
Fits ==
  /\ job.offset + Len(job.data) <= EepromSize
  /\ job.i <= Len(job.data)
  /\ \A k \in 1..Len(job.data) : job.data[k] \in before[job.offset + k - 1]

\* The part that is written.
Done ==
  job.clean =>
    /\ \A k \in 1..job.i : rom[job.offset + k - 1] = job.data[k]
    /\ job.op = "write" /\ job.pc = "read" => rptr = job.i + job.offset

BoardTypeOK ==
  /\ rom \in [Cells -> Nat]
  /\ rptr \in Cells
  /\ before \in [Cells -> SUBSET Nat]
  /\ gpo \subseteq Pins /\ gpoe \subseteq Pins
  /\ wanted \in BOOLEAN /\ garbled \in BOOLEAN
  /\ bdev \in [open : BOOLEAN, forced : BOOLEAN]

JobInv ==
  \/ job \in Rests
  \/ /\ job \in Writes
     /\ Fits /\ Done
     /\ job.op = "write" /\ job.pc # "address" => job.i < Len(job.data)
     /\ job.op = "none" => job.i = Len(job.data)

IInv ==
  /\ BoardTypeOK
  /\ \A a \in Cells : rom[a] \in before[a]
  /\ JobInv

-----------------------------------------------------------------------------
(* The EEPROM. *)

(* A step that leaves the EEPROM and the call alone leaves the invariant. *)
LEMMA PinStep ==
    ASSUME IInv, BoardTypeOK', UNCHANGED <<romVars, job>>
    PROVE  IInv'
  BY DEF IInv, JobInv, Fits, Done, romVars

(* A write begins with nothing written, and with its bytes allowed. *)
LEMMA WriteEepromStep ==
    ASSUME BoardConstants, IInv, NEW offset \in Cells, NEW data \in Seq(Bytes),
           WriteEeprom(offset, data)
    PROVE  IInv'
<1> USE DEF BoardConstants, Cells
<1>1. CASE offset + Len(data) > EepromSize
  BY <1>1, SMTT(30) DEF WriteEeprom, IInv, BoardTypeOK, JobInv, Rests, Resting, pinVars
<1>2. CASE offset + Len(data) <= EepromSize
  <2> DEFINE j == [op |-> "write", r |-> 0, offset |-> offset, data |-> data, i |-> 0,
                   pc |-> "address", last |-> -1, clean |-> TRUE]
  <2>1. /\ job' = j
        /\ before' = [a \in Cells |->
             IF a - offset \in 0..Len(data) - 1
             THEN before[a] \cup {data[a - offset + 1]} ELSE before[a]]
        /\ UNCHANGED <<rom, rptr, pinVars, bdev>>
    BY <1>2 DEF WriteEeprom, StartJob
  <2>2. j \in Writes
    BY DEF Writes
  <2>3. /\ before' \in [Cells -> SUBSET Nat]
        /\ \A a \in Cells : before[a] \subseteq before'[a]
    <3>1. \A a \in Cells : a - offset \in 0..Len(data) - 1 => data[a - offset + 1] \in Nat
      <4>1. Len(data) \in Nat /\ Bytes \subseteq Nat
        OBVIOUS
      <4>2. \A k \in 1..Len(data) : data[k] \in Nat
        BY <4>1, ElementOfSeq
      <4> QED
        BY <4>1, <4>2
    <3>2. before \in [Cells -> SUBSET Nat]
      BY DEF IInv, BoardTypeOK
    <3> QED
      BY <2>1, <3>1, <3>2
  <2>4. \A k \in 1..Len(data) : data[k] \in before'[offset + k - 1]
    <3> TAKE k \in 1..Len(data)
    <3> DEFINE a == offset + k - 1
    <3>1. a \in Cells /\ a - offset \in 0..Len(data) - 1 /\ a - offset + 1 = k
      BY <1>2
    <3> QED
      BY <2>1, <3>1
  <2>5. BoardTypeOK'
    BY <2>1, <2>3 DEF IInv, BoardTypeOK, pinVars
  <2>6. \A a \in Cells : rom'[a] \in before'[a]
    BY <2>1, <2>3 DEF IInv
  <2>7. Fits' /\ Done'
    <3>1. /\ job'.offset = offset /\ job'.data = data /\ job'.i = 0
          /\ job'.pc = "address"
      BY <2>1
    <3>2. Len(data) \in Nat
      OBVIOUS
    <3> QED
      BY <1>2, <2>4, <3>1, <3>2 DEF Fits, Done
  <2> QED
    BY <2>1, <2>2, <2>5, <2>6, <2>7 DEF IInv, JobInv
<1> QED
  BY <1>1, <1>2

(* The fields of a write in progress. *)
LEMMA Writing ==
    ASSUME BoardConstants, IInv, job.op = "write"
    PROVE  /\ job \in Writes /\ Fits /\ Done
           /\ Len(job.data) \in Nat /\ job.i \in Nat /\ job.offset \in Nat
           /\ job.i + job.offset = job.offset + (job.i + 1) - 1
           /\ job.pc # "address" => job.i < Len(job.data)
           /\ job.i < Len(job.data) =>
                /\ job.i + 1 \in 1..Len(job.data)
                /\ job.i + job.offset \in Cells
                /\ job.data[job.i + 1] \in Nat
<1>1. job \in Writes
  BY DEF IInv, JobInv, Rests
<1>2. /\ job \notin Rests
      /\ job.data \in Seq(Bytes) /\ Len(job.data) \in Nat /\ job.i \in Nat /\ job.offset \in Nat
  BY <1>1 DEF Rests, Writes
<1>3. Fits /\ Done /\ (job.pc # "address" => job.i < Len(job.data))
  BY <1>2 DEF IInv, JobInv
<1>4. job.i < Len(job.data) =>
        /\ job.i + 1 \in 1..Len(job.data)
        /\ job.i + job.offset \in Cells
  BY <1>2, <1>3, SMTT(30) DEF Fits, Cells, BoardConstants
<1>5. job.i < Len(job.data) => job.data[job.i + 1] \in Nat
  <2>1. \A d \in Seq(Bytes) : \A k \in 1..Len(d) : d[k] \in Nat
    BY ElementOfSeq DEF BoardConstants
  <2> QED
    BY <1>2, <1>4, <2>1
<1> QED
  BY <1>1, <1>2, <1>3, <1>4, <1>5

(* The address is set; when that fails the call is not clean. *)
LEMMA WriteAddressStep ==
    ASSUME BoardConstants, IInv, NEW ok \in BOOLEAN, WriteAddress(ok)
    PROVE  IInv'
<1>1. /\ job.op = "write" /\ job.i < Len(job.data)
      /\ job' = [job EXCEPT !.pc = "read", !.clean = job.clean /\ ok]
      /\ rptr' \in {Cell} \cup (IF ok THEN {} ELSE {rptr})
      /\ UNCHANGED <<rom, before, pinVars, bdev>>
  BY DEF WriteAddress
<1>2. /\ job' \in Writes
      /\ job'.op = "write" /\ job'.pc = "read" /\ job'.i = job.i
      /\ job'.offset = job.offset /\ job'.data = job.data
      /\ job'.clean => job.clean /\ ok
  BY <1>1, Writing DEF Writes
<1>3. BoardTypeOK' /\ \A a \in Cells : rom'[a] \in before'[a]
  BY <1>1, Writing DEF IInv, BoardTypeOK, pinVars, Cell
<1>4. Fits'
  BY <1>1, <1>2, Writing DEF Fits
<1>5. Done'
  BY <1>1, <1>2, Writing DEF Done, Cell
<1> QED
  BY <1>1, <1>2, <1>3, <1>4, <1>5 DEF IInv, JobInv

(* A byte is in its cell: found there, or written there. *)
LEMMA NextByte ==
    ASSUME BoardConstants, IInv, job.op = "write", job.i < Len(job.data),
           job' \in Writes, job'.op = "write", job'.pc = "address", job'.i = job.i + 1,
           job'.offset = job.offset, job'.data = job.data,
           UNCHANGED before,
           job'.clean => /\ job.clean
                         /\ rom'[job.i + job.offset] = job.data[job.i + 1]
                         /\ \A a \in Cells : a # job.i + job.offset => rom'[a] = rom[a]
    PROVE  Fits' /\ Done'
<1>1. Fits'
  BY Writing DEF Fits
<1>2. ASSUME job'.clean, NEW k \in 1..job'.i
      PROVE  rom'[job.offset + k - 1] = job.data[k]
  <2>1. CASE k = job.i + 1
    BY <1>2, <2>1, Writing
  <2>2. CASE k # job.i + 1
    <3>1. /\ k \in 1..job.i /\ job.offset + k - 1 \in Cells
          /\ job.offset + k - 1 # job.i + job.offset
      <4> DEFINE i == job.i
                 o == job.offset
                 n == Len(job.data)
      <4>1. i \in Nat /\ o \in Nat /\ n \in Nat /\ EepromSize \in Nat
        BY Writing DEF BoardConstants
      <4>2. o + n <= EepromSize /\ i < n /\ k \in 1..i + 1
        BY <1>2, Writing DEF Fits
      <4> HIDE DEF i, o, n
      <4>3. k \in 1..i
        BY <2>2, <4>1, <4>2 DEF i
      <4>4. o + k - 1 \in 0..EepromSize - 1 /\ o + k - 1 # i + o
        BY <4>1, <4>2, <4>3
      <4> QED
        BY <4>3, <4>4 DEF Cells, i, o
    <3> QED
      BY <1>2, <3>1, Writing DEF Done
  <2> QED
    BY <2>1, <2>2
<1> QED
  BY <1>1, <1>2 DEF Done

(* The byte is read back: the one the counter points at, when it works. *)
LEMMA ReadBackStep ==
    ASSUME BoardConstants, IInv, NEW ok \in BOOLEAN, ReadBack(ok)
    PROVE  IInv'
<1>1. /\ job.op = "write" /\ job.pc = "read"
      /\ UNCHANGED <<rom, before, pinVars, bdev>>
  BY DEF ReadBack
<1> DEFINE clean == job.clean /\ ok
<1>2. PICK b \in IF ok THEN {rom[rptr]} ELSE Stale :
        job' = [job EXCEPT !.last = b, !.clean = clean,
                           !.pc = IF b = job.data[job.i + 1] THEN "address" ELSE "write",
                           !.i = IF b = job.data[job.i + 1] THEN job.i + 1 ELSE job.i]
  BY DEF ReadBack
<1>3. job \in Writes /\ job.i < Len(job.data) /\ job.i \in Nat
  BY <1>1, Writing
<1>4. ok /\ job.clean => b = rom[job.i + job.offset]
  BY <1>1, <1>2, Writing DEF Done
<1>5. BoardTypeOK' /\ \A a \in Cells : rom'[a] \in before'[a]
  <2>1. rptr \in Cells /\ rptr + 1 \in Nat
    BY DEF IInv, BoardTypeOK, Cells, BoardConstants
  <2>2. rptr' \in Cells
    BY <2>1 DEF ReadBack, Wrap, Cells, BoardConstants
  <2> QED
    BY <1>1, <2>2 DEF IInv, BoardTypeOK, pinVars
<1>6. b \in Int
  BY <1>1, <1>3 DEF IInv, BoardTypeOK, Stale, Writes, BoardConstants
<1>a. clean \in BOOLEAN /\ (clean => job.clean /\ ok)
  BY <1>3 DEF Writes
<1> HIDE DEF clean
<1>7. CASE b = job.data[job.i + 1]
  <2>1. /\ job' \in Writes /\ job'.op = "write" /\ job'.pc = "address"
        /\ job'.i = job.i + 1 /\ job'.offset = job.offset /\ job'.data = job.data
        /\ job'.clean = clean
    <3>1. job' = [job EXCEPT !.last = b, !.clean = clean, !.pc = "address", !.i = job.i + 1]
      BY <1>2, <1>7
    <3>2. job \in Writes /\ job.op = "write" /\ job.i + 1 \in Nat
      BY <1>1, <1>3
    <3> QED
      BY <1>6, <1>a, <3>1, <3>2 DEF Writes
  <2>2. Fits' /\ Done'
    BY <1>1, <1>3, <1>4, <1>7, <1>a, <2>1, NextByte
  <2> QED
    BY <1>5, <2>1, <2>2 DEF IInv, JobInv
<1>8. CASE b # job.data[job.i + 1]
  <2>1. /\ job' \in Writes /\ job'.op = "write" /\ job'.pc = "write"
        /\ job'.i = job.i /\ job'.offset = job.offset /\ job'.data = job.data
        /\ job'.clean = clean
    <3>1. job' = [job EXCEPT !.last = b, !.clean = clean, !.pc = "write", !.i = job.i]
      BY <1>2, <1>8
    <3>2. job \in Writes /\ job.op = "write" /\ job.i \in Nat
      BY <1>1, <1>3
    <3> QED
      BY <1>6, <1>a, <3>1, <3>2 DEF Writes
  <2>2. Fits' /\ Done'
    BY <1>1, <1>a, <2>1, Writing DEF Fits, Done
  <2> QED
    BY <1>3, <1>5, <2>1, <2>2 DEF IInv, JobInv
<1> QED
  BY <1>7, <1>8

(* The byte is written, with a value its cell may hold. *)
LEMMA WriteByteStep ==
    ASSUME BoardConstants, IInv, NEW ok \in BOOLEAN, WriteByte(ok)
    PROVE  IInv'
<1> DEFINE a == job.i + job.offset
           b == job.data[job.i + 1]
<1>1. /\ job.op = "write" /\ job.pc = "write"
      /\ rom' \in {[rom EXCEPT ![a] = b]} \cup (IF ok THEN {} ELSE {rom})
      /\ rptr' = Wrap(a + 1)
      /\ job' = IF ok THEN [job EXCEPT !.pc = "address", !.last = b, !.i = job.i + 1]
                ELSE [Resting EXCEPT !.r = -3]
      /\ UNCHANGED <<before, pinVars, bdev>>
  BY DEF WriteByte, Cell
<1>2. /\ job \in Writes /\ a \in Cells /\ b \in Nat /\ job.i < Len(job.data) /\ job.i \in Nat
  BY <1>1, Writing
<1>3. b \in before[a]
  BY <1>1, <1>2, Writing DEF Fits
<1>4. rptr' \in Cells
  BY <1>1, <1>2, SMTT(30) DEF Wrap, Cells, BoardConstants
<1>5. BoardTypeOK' /\ \A c \in Cells : rom'[c] \in before'[c]
  <2>1. /\ rom \in [Cells -> Nat] /\ before' = before
        /\ \A c \in Cells : rom[c] \in before[c]
        /\ rom' = [rom EXCEPT ![a] = b] \/ rom' = rom
    BY <1>1 DEF IInv, BoardTypeOK
  <2>2. rom' \in [Cells -> Nat] /\ \A c \in Cells : rom'[c] \in before'[c]
    BY <1>2, <1>3, <2>1
  <2> QED
    BY <1>1, <1>4, <2>2 DEF IInv, BoardTypeOK, pinVars
<1>6. CASE ok
  <2>1. /\ job' \in Writes /\ job'.op = "write" /\ job'.pc = "address"
        /\ job'.i = job.i + 1 /\ job'.offset = job.offset /\ job'.data = job.data
        /\ job'.clean = job.clean
    <3>1. job' = [job EXCEPT !.pc = "address", !.last = b, !.i = job.i + 1]
      BY <1>1, <1>6
    <3>2. job \in Writes /\ job.op = "write" /\ job.i + 1 \in Nat /\ b \in Int
      BY <1>1, <1>2
    <3> HIDE DEF b
    <3> QED
      BY <3>1, <3>2 DEF Writes
  <2>2. rom'[a] = b /\ \A c \in Cells : c # a => rom'[c] = rom[c]
    BY <1>1, <1>2, <1>6 DEF IInv, BoardTypeOK
  <2>3. Fits' /\ Done'
    BY <1>1, <1>2, <2>1, <2>2, NextByte
  <2> QED
    BY <1>5, <2>1, <2>3 DEF IInv, JobInv
<1>7. CASE ~ok
  BY <1>1, <1>5, <1>7 DEF IInv, JobInv, Rests, Resting
<1> QED
  BY <1>6, <1>7

(* The call ends with every byte behind it. *)
LEMMA WriteDoneStep ==
    ASSUME BoardConstants, IInv, WriteDone
    PROVE  IInv'
<1>1. /\ job.op = "write" /\ job.pc = "address" /\ job.i = Len(job.data)
      /\ job' = [job EXCEPT !.op = "none", !.r = 0]
      /\ UNCHANGED <<romVars, pinVars, bdev>>
  BY DEF WriteDone
<1>2. /\ job' \in Writes /\ job'.op = "none" /\ job'.i = job.i
      /\ job'.offset = job.offset /\ job'.data = job.data /\ job'.clean = job.clean
  <2>1. job \in Writes /\ job' = [job EXCEPT !.op = "none", !.r = 0]
    BY <1>1, Writing
  <2>2. /\ job'.op = "none" /\ job'.i = job.i /\ job'.offset = job.offset
        /\ job'.data = job.data /\ job'.clean = job.clean
    BY <2>1 DEF Writes
  <2>3. job' \in Writes
    <3> DEFINE j == [job EXCEPT !.op = "none"]
    <3>1. j \in Writes
      BY <2>1 DEF Writes
    <3>2. job' = [j EXCEPT !.r = 0]
      BY <2>1
    <3> HIDE DEF j
    <3> QED
      BY <3>1, <3>2 DEF Writes
  <2> QED
    BY <2>2, <2>3
<1>3. Fits' /\ Done'
  BY <1>1, <1>2, Writing DEF Fits, Done, romVars
<1> QED
  BY <1>1, <1>2, <1>3 DEF IInv, JobInv, BoardTypeOK, romVars, pinVars

-----------------------------------------------------------------------------
(* The pins and the strings. *)

(* What drives a pin leaves pins. *)
LEMMA DriveTypes ==
    ASSUME BoardTypeOK, NEW pin \in Pins, NEW on \in BOOLEAN, NEW ok \in Luck,
           Drive(pin, on, ok)
    PROVE  gpo' \subseteq Pins /\ gpoe' \subseteq Pins /\ garbled' \in BOOLEAN
  BY DEF BoardTypeOK, Drive, Register, Luck

(* A pin that was read right and driven is on, or off as it was to be. *)
LEMMA SetBiasTeeStep ==
    ASSUME BoardConstants, IInv, BiasTeeOnlyAsked,
           NEW pin \in Pins, NEW on \in BOOLEAN, NEW ok \in Luck, SetBiasTee(pin, on, ok)
    PROVE  IInv' /\ BiasTeeOnlyAsked'
<1> DEFINE f == Forced(pin, on)
<1>1. /\ Drive(pin, f, ok)
      /\ wanted' = IF pin = BiasPin THEN on \/ bdev.forced ELSE wanted
      /\ UNCHANGED <<romVars, bdev, job>>
  BY DEF SetBiasTee
<1>2. BoardTypeOK /\ f \in BOOLEAN /\ (pin = BiasPin => (f <=> on \/ bdev.forced))
  BY DEF IInv, Forced, BoardTypeOK
<1> HIDE DEF f
<1>3. gpo' \subseteq Pins /\ gpoe' \subseteq Pins /\ garbled' \in BOOLEAN
  BY <1>1, <1>2, DriveTypes
<1>4. BoardTypeOK'
  BY <1>1, <1>2, <1>3 DEF BoardTypeOK, romVars
<1>5. BiasTeeOnlyAsked'
  <2> SUFFICES ASSUME ~garbled', BiasPin \in gpo' \cap gpoe'
               PROVE  wanted'
    BY DEF BiasTeeOnlyAsked
  <2>1. /\ ok[1] /\ ok[3] /\ (ok[4] \/ f) /\ ~garbled
        /\ gpoe' \in {gpoe \cup {pin}} \cup (IF ok[2] THEN {} ELSE {gpoe})
        /\ gpo' \in {IF f THEN gpo \cup {pin} ELSE gpo \ {pin}} \cup
                    (IF ok[4] THEN {} ELSE {gpo})
    BY <1>1 DEF Drive, Register
  <2>2. CASE pin = BiasPin
    BY <1>1, <1>2, <2>1, <2>2
  <2>3. CASE pin # BiasPin
    BY <1>1, <2>1, <2>3 DEF BiasTeeOnlyAsked
  <2> QED
    BY <2>2, <2>3
<1> QED
  BY <1>1, <1>4, <1>5, PinStep

(* An EEPROM that was not read to its end forces nothing on. *)
LEMMA OpenStep ==
    ASSUME BoardConstants, IInv, BiasTeeOnlyAsked, NEW ok \in Luck, OpenBoard(ok)
    PROVE  IInv' /\ BiasTeeOnlyAsked'
<1>1. PICK e \in read_eeprom :
        /\ bdev' = [open |-> TRUE, forced |-> ForceBt(e)]
        /\ IF ForceBt(e) THEN Drive(BiasPin, TRUE, ok)
           ELSE UNCHANGED <<gpo, gpoe, garbled>>
  BY DEF OpenBoard
<1>2. /\ wanted' = (wanted \/ ~IrBit(rom[IrByte]))
      /\ rptr' = 0
      /\ UNCHANGED <<rom, before, job>>
      /\ job.op = "none"
  BY DEF OpenBoard
<1>3. ForceBt(e) => ~IrBit(rom[IrByte])
  BY DEF read_eeprom, Reads, ReadSome, ForceBt, Cells, BoardConstants
<1>4. gpo' \subseteq Pins /\ gpoe' \subseteq Pins /\ garbled' \in BOOLEAN
  BY <1>1, DriveTypes DEF IInv, BoardTypeOK, BoardConstants
<1>5. BoardTypeOK'
  BY <1>1, <1>2, <1>4 DEF IInv, BoardTypeOK, ForceBt, IrBit, Cells, BoardConstants
<1>6. IInv'
  BY <1>2, <1>5 DEF IInv, JobInv, Fits, Done, Rests
<1>7. BiasTeeOnlyAsked'
  <2>1. CASE ForceBt(e)
    BY <1>2, <1>3, <2>1 DEF BiasTeeOnlyAsked
  <2>2. CASE ~ForceBt(e)
    BY <1>1, <1>2, <2>2 DEF BiasTeeOnlyAsked
  <2> QED
    BY <2>1, <2>2
<1> QED
  BY <1>6, <1>7

(* The characters of a string, and where it ends. *)
LEMMA StringPlace ==
    ASSUME BoardConstants, NEW pos \in Nat, NEW data \in [Cells -> Nat]
    PROVE  LET m == get_string_descriptor(pos, data)
           IN /\ m.next \in Nat
              /\ \A a \in m.at : a \in Cells /\ a >= pos /\ a < m.next
<1>1. CASE pos >= EepromSize
  BY <1>1 DEF get_string_descriptor
<1>2. CASE pos < EepromSize
  <2> DEFINE len == StringLength(pos, data)
             next == pos + (IF len <= 2 THEN 2 ELSE len + (len % 2))
             at == {pos + i : i \in {j \in 2..EepromSize : j < len /\ j % 2 = 0}}
  <2>1. len \in Nat /\ len <= EepromSize - pos /\ EepromSize \in Nat
    <3>1. data[pos] \in Nat
      BY <1>2 DEF Cells, BoardConstants
    <3> QED
      BY <1>2, <3>1 DEF StringLength, BoardConstants
  <2>2. get_string_descriptor(pos, data) = [at |-> at, next |-> next]
    <3>1. ~(pos >= EepromSize)
      BY <1>2 DEF BoardConstants
    <3> QED
      BY <3>1, Zenon DEF get_string_descriptor
  <2> HIDE DEF len
  <2>3. len % 2 \in 0..1
    BY <2>1
  <2>4. next \in Nat
    BY <2>1, <2>3
  <2>5. \A j \in 2..EepromSize : j < len =>
          pos + j \in Cells /\ pos + j >= pos /\ pos + j < next
    BY <2>1, <2>3 DEF Cells
  <2> QED
    BY <2>2, <2>4, <2>5
<1> QED
  BY <1>1, <1>2 DEF BoardConstants

(* The strings read when the device is opened. *)
LEMMA StringsStep ==
    ASSUME BoardConstants, IInv, NEW ok \in Luck, OpenBoard(ok)
    PROVE  StringsInside'
<1>1. PICK e \in read_eeprom :
        strings' = IF e.r < 0 THEN <<>>
                   ELSE <<get_string_descriptor(StrOffset, e.image),
                          get_string_descriptor(get_string_descriptor(StrOffset, e.image).next,
                                                e.image)>>
  BY DEF OpenBoard
<1>2. e.image \in [Cells -> Nat]
  BY DEF read_eeprom, Reads, ReadSome, IInv, BoardTypeOK
<1> DEFINE m == get_string_descriptor(StrOffset, e.image)
           n == get_string_descriptor(m.next, e.image)
<1>3. StrOffset \in Nat
  BY DEF BoardConstants, Cells
<1>4. m.next \in Nat /\ \A a \in m.at : a \in Cells /\ a < m.next
  BY <1>2, <1>3, StringPlace
<1> HIDE DEF m
<1>5. \A a \in n.at : a \in Cells /\ a >= m.next
  BY <1>2, <1>4, StringPlace
<1> HIDE DEF n
<1>6. strings' = <<>> \/ strings' = <<m, n>>
  BY <1>1 DEF m, n
<1>7. CASE strings' = <<>>
  BY <1>7 DEF StringsInside
<1>8. CASE strings' = <<m, n>>
  <2>1. Len(strings') = 2 /\ strings'[1] = m /\ strings'[2] = n
    BY <1>8
  <2>2. \A a \in m.at, b \in n.at : a < b
    BY <1>4, <1>5 DEF Cells, BoardConstants
  <2> QED
    BY <1>4, <1>5, <2>1, <2>2 DEF StringsInside
<1> QED
  BY <1>6, <1>7, <1>8

-----------------------------------------------------------------------------
(* The whole. *)

AllInv == IInv /\ BiasTeeOnlyAsked /\ StringsInside

LEMMA InitInv == ASSUME BoardConstants, BoardInit PROVE AllInv
<1>1. rom \in [Cells -> Nat] /\ 0 \in Cells
  BY DEF BoardInit, BoardConstants, Cells
<1>2. IInv
  BY <1>1 DEF BoardInit, IInv, BoardTypeOK, JobInv, Rests, Resting
<1>3. BiasTeeOnlyAsked /\ StringsInside
  BY DEF BoardInit, BiasTeeOnlyAsked, StringsInside
<1> QED
  BY <1>2, <1>3 DEF AllInv

LEMMA NextInv ==
    ASSUME BoardConstants, AllInv, [BoardNext]_boardVars PROVE AllInv'
<1> USE DEF AllInv
<1>1. CASE UNCHANGED boardVars
  BY <1>1 DEF boardVars, IInv, BoardTypeOK, JobInv, Fits, Done, BiasTeeOnlyAsked, StringsInside
<1>2. ASSUME NEW ok \in Luck, OpenBoard(ok) PROVE AllInv'
  BY <1>2, OpenStep, StringsStep
<1>3. ASSUME NEW ok \in Luck, NEW pin \in Pins, NEW on \in BOOLEAN, SetBiasTee(pin, on, ok)
      PROVE  AllInv'
  <2>1. UNCHANGED strings
    BY <1>3 DEF SetBiasTee
  <2> QED
    BY <1>3, <2>1, SetBiasTeeStep DEF StringsInside
<1>4. ASSUME CloseBoard PROVE AllInv'
  <2>1. /\ UNCHANGED <<romVars, pinVars, strings, job>>
        /\ bdev' = [open |-> FALSE, forced |-> FALSE]
    BY <1>4 DEF CloseBoard
  <2>2. BoardTypeOK'
    BY <2>1 DEF IInv, BoardTypeOK, romVars, pinVars
  <2> QED
    BY <2>1, <2>2, PinStep DEF StringsInside, BiasTeeOnlyAsked, pinVars
<1>5. ASSUME NEW offset \in Cells, NEW n \in 1..2, NEW data \in [1..n -> Bytes],
             WriteEeprom(offset, data)
      PROVE  AllInv'
  <2>1. data \in Seq(Bytes)
    OBVIOUS
  <2>2. UNCHANGED <<pinVars, strings>>
    BY <1>5 DEF WriteEeprom
  <2> QED
    BY <1>5, <2>1, <2>2, WriteEepromStep DEF StringsInside, BiasTeeOnlyAsked, pinVars
<1>6. ASSUME NEW ok \in BOOLEAN, WriteAddress(ok) \/ ReadBack(ok) \/ WriteByte(ok)
      PROVE  AllInv'
  <2>1. UNCHANGED <<pinVars, strings>>
    BY <1>6 DEF WriteAddress, ReadBack, WriteByte
  <2> QED
    BY <1>6, <2>1, WriteAddressStep, ReadBackStep, WriteByteStep
       DEF StringsInside, BiasTeeOnlyAsked, pinVars
<1>7. ASSUME WriteDone PROVE AllInv'
  <2>1. UNCHANGED <<pinVars, strings>>
    BY <1>7 DEF WriteDone
  <2> QED
    BY <1>7, <2>1, WriteDoneStep DEF StringsInside, BiasTeeOnlyAsked, pinVars
<1> QED
  BY <1>1, <1>2, <1>3, <1>4, <1>5, <1>6, <1>7 DEF BoardNext

THEOREM Inductive == BoardSpec => []AllInv
<1>1. BoardInit => AllInv
  BY InitInv, BoardConstants
<1>2. AllInv /\ [BoardNext]_boardVars => AllInv'
  BY NextInv, BoardConstants
<1> QED
  BY <1>1, <1>2, PTL DEF BoardSpec

(* rtlsdr_write_eeprom() keeps every cell to what it held or what was to be *)
(* written there, and writes every byte when it meets no failure: for any   *)
(* EEPROM, any data and any number of failing transfers.                    *)
THEOREM EepromExactAlways == BoardSpec => []EepromExact
<1>1. AllInv => EepromExact
  <2> SUFFICES ASSUME AllInv, job.op = "none", job.r = 0, "clean" \in DOMAIN job, job.clean,
                      NEW i \in 1..Len(job.data)
               PROVE  rom[job.offset + i - 1] = job.data[i]
    BY DEF EepromExact, AllInv, IInv
  <2>1. job \notin Rests
    BY DEF Rests
  <2> QED
    BY <2>1 DEF AllInv, IInv, JobInv, Done
<1> QED
  BY <1>1, Inductive, PTL

(* The bias tee is on only when it was asked for.                           *)
THEOREM BiasTeeAlways == BoardSpec => []BiasTeeOnlyAsked
<1>1. AllInv => BiasTeeOnlyAsked
  BY DEF AllInv
<1> QED
  BY <1>1, Inductive, PTL

(* The strings come from inside the EEPROM, whatever it holds.              *)
THEOREM StringsAlways == BoardSpec => []StringsInside
<1>1. AllInv => StringsInside
  BY DEF AllInv
<1> QED
  BY <1>1, Inductive, PTL

=============================================================================
