-------------------------------- MODULE Board --------------------------------
(***************************************************************************)
(* What sits on the stick beside the tuner: the EEPROM with the strings    *)
(* and the bias tee's bit, and the GPIO pins, one of which switches the    *)
(* bias tee.  librtlsdr.c reaches both by control transfers whose results  *)
(* it mostly drops; rtlsdr_open2() of the Android bridge reads the EEPROM. *)
(*                                                                         *)
(* Any transfer may fail, a transfer that writes with or without having    *)
(* written.  A read that fails leaves its buffer as it was, and for        *)
(* rtlsdr_read_reg() that is whatever the stack held.  Reads are not short.*)
(* The application makes one call at a time.                               *)
(***************************************************************************)
EXTENDS Integers, Sequences, FiniteSets

CONSTANTS
  EepromSize, \* EEPROM_SIZE
  IrByte,     \* 7: the byte that holds the IR endpoint bit
  StrOffset,  \* STR_OFFSET: where the strings begin
  Bytes,      \* values of a byte
  Images,     \* what an EEPROM may hold when it is plugged in
  Pins,       \* GPIO pins in use, BiasPin among them
  MaxFaults,  \* bounds of the runs: transfers that fail,
  MaxJobs     \* and calls made

BiasPin == 0
Cells == 0..EepromSize - 1

ASSUME BoardConstants ==
  /\ EepromSize \in Nat
  /\ {IrByte, StrOffset} \subseteq Cells
  /\ 0 \in Bytes /\ Bytes \subseteq Nat
  /\ Images \subseteq [Cells -> Nat]
  /\ BiasPin \in Pins

VARIABLES
  rom,     \* the EEPROM's bytes
  rptr,    \* its address counter
  gpo,     \* pins driven high, register GPO
  gpoe,    \* pins that are outputs, register GPOE
  bdev,    \* [open, forced]: struct rtlsdr_dev
  strings, \* dev->manufact and dev->product: the addresses they were read from
  job,     \* the EEPROM call being made
  faults,  \* transfers that failed
  jobs,    \* calls made
  wanted,  \* history: whether the bias tee was asked for last, by a call or the EEPROM
  garbled, \* history: a GPIO register was written from a read that failed, or
           \* not written when a pin was to be switched off
  before   \* history: what the EEPROM held, per cell: all values it may rightly have

boardVars ==
  <<rom, rptr, gpo, gpoe, bdev, strings, job, faults, jobs, wanted, garbled, before>>
pinVars == <<gpo, gpoe, wanted, garbled>>
romVars == <<rom, rptr, before>>

Resting == [op |-> "none", r |-> 0]

BoardInit ==
  /\ rom \in Images
  /\ rptr = 0
  /\ gpo = {} /\ gpoe = {}
  /\ bdev = [open |-> FALSE, forced |-> FALSE]
  /\ strings = <<>>
  /\ job = Resting
  /\ faults = 0 /\ jobs = 0
  /\ wanted = FALSE /\ garbled = FALSE
  /\ before = [a \in Cells |-> {rom[a]}]

\* A transfer works or fails: at most MaxFaults fail.
Transfer(ok) == ok \/ faults < MaxFaults
Spent(n) == faults' = faults + n
Cost(ok) == IF ok THEN 0 ELSE 1

----------------------------------------------------------------------------
(* The EEPROM behind IICB.                                                 *)

Wrap(a) == a % EepromSize

\* Data left where it was: the buffer of byte 0 is not initialised.
Stale == IF job.last = -1 THEN Bytes ELSE {job.last}

StartJob(op, offset, data) ==
  /\ job.op = "none"
  /\ jobs < MaxJobs
  /\ jobs' = jobs + 1
  /\ job' = [op |-> op, r |-> 0, offset |-> offset, data |-> data, i |-> 0,
             pc |-> "address", last |-> -1, clean |-> TRUE]

\* rtlsdr_write_eeprom(): len + offset beyond the end is refused.
WriteEeprom(offset, data) ==
  /\ bdev.open
  /\ IF offset + Len(data) > EepromSize
     THEN job.op = "none" /\ job' = [Resting EXCEPT !.r = -2] /\ UNCHANGED <<jobs, before>>
     ELSE /\ StartJob("write", offset, data)
          /\ before' = [a \in Cells |->
               IF a - offset \in 0..Len(data) - 1
               THEN before[a] \cup {data[a - offset + 1]} ELSE before[a]]
  /\ UNCHANGED <<rom, rptr, pinVars, bdev, strings, faults>>

\* Mutant: the offset is forgotten.
CellByIndex == job.i

Cell == job.i + job.offset

\* Per byte: the address is set and the byte read back, both results dropped ...
WriteAddress(ok) ==
  /\ job.op = "write" /\ job.pc = "address"
  /\ job.i < Len(job.data)
  /\ Transfer(ok) /\ Spent(Cost(ok))
  /\ rptr' \in {Cell} \cup (IF ok THEN {} ELSE {rptr})
  /\ job' = [job EXCEPT !.pc = "read", !.clean = @ /\ ok]
  /\ UNCHANGED <<rom, before, pinVars, bdev, strings, jobs>>

ReadBack(ok) ==
  /\ job.op = "write" /\ job.pc = "read"
  /\ Transfer(ok) /\ Spent(Cost(ok))
  /\ \E b \in IF ok THEN {rom[rptr]} ELSE Stale :
       LET same == b = job.data[job.i + 1]
       IN job' = [job EXCEPT !.last = b, !.clean = @ /\ ok,
                             !.pc = IF same THEN "address" ELSE "write",
                             !.i = IF same THEN @ + 1 ELSE @]
  /\ rptr' = IF ok THEN Wrap(rptr + 1) ELSE rptr
  /\ UNCHANGED <<rom, before, pinVars, bdev, strings, jobs>>

\* ... and the byte written, with its address, unless it is there already.
WriteByte(ok) ==
  LET a == Cell
      b == job.data[job.i + 1]
  IN /\ job.op = "write" /\ job.pc = "write"
     /\ Transfer(ok) /\ Spent(Cost(ok))
     /\ rom' \in {[rom EXCEPT ![a] = b]} \cup (IF ok THEN {} ELSE {rom})
     /\ rptr' = Wrap(a + 1)
     /\ job' = IF ok THEN [job EXCEPT !.pc = "address", !.last = b, !.i = @ + 1]
               ELSE [Resting EXCEPT !.r = -3]
     /\ UNCHANGED <<before, pinVars, bdev, strings, jobs>>

WriteDone ==
  /\ job.op = "write" /\ job.pc = "address"
  /\ job.i = Len(job.data)
  /\ job' = [job EXCEPT !.op = "none", !.r = 0]
  /\ UNCHANGED <<romVars, pinVars, bdev, strings, faults, jobs>>

\* rtlsdr_read_eeprom() of everything: the address once, then byte by byte,
\* the first transfer that fails ends it.  Bytes not read stay 0.
Blanked == [a \in Cells |-> 0]

ReadSome(n) == [a \in Cells |-> IF a < n THEN rom[a] ELSE 0]

Reads(r, image) == [r |-> r, image |-> image]

read_eeprom ==
  {Reads(1, ReadSome(EepromSize))} \cup
  (IF faults < MaxFaults THEN {Reads(-3, ReadSome(n)) : n \in 0..EepromSize - 1} ELSE {})

\* Mutant: the length byte is believed.
UnboundedLength(pos, data) == data[pos]

StringLength(pos, data) ==
  IF data[pos] > EepromSize - pos THEN EepromSize - pos ELSE data[pos]

\* get_string_descriptor(): the addresses a string's characters are read
\* from, and where the next one begins.
get_string_descriptor(pos, data) ==
  LET len == StringLength(pos, data)
      chars == {i \in 2..EepromSize : i < len /\ i % 2 = 0}
  IN IF pos >= EepromSize THEN [at |-> {}, next |-> pos]
     ELSE [at |-> {pos + i : i \in chars},
           next |-> pos + (IF len <= 2 THEN 2 ELSE len + (len % 2))]

----------------------------------------------------------------------------
(* The GPIO pins.                                                          *)

\* rtlsdr_read_reg(): a failed read yields any value.
Register(ok, reg) == IF ok THEN {reg} ELSE SUBSET Pins

\* rtlsdr_set_gpio_output(), then rtlsdr_set_gpio_bit(): read, change, write
\* back; no result is looked at.  ok tells which of the four transfers work
\* that touch GPOE and GPO (the two on GPD leave no trace here).
Drive(pin, on, ok) ==
  /\ Transfer(\A k \in 1..4 : ok[k])
  /\ Spent(Cost(\A k \in 1..4 : ok[k]))
  /\ \E e \in Register(ok[1], gpoe), o \in Register(ok[3], gpo) :
       /\ gpoe' \in {e \cup {pin}} \cup (IF ok[2] THEN {} ELSE {gpoe})
       /\ gpo' \in {IF on THEN o \cup {pin} ELSE o \ {pin}} \cup (IF ok[4] THEN {} ELSE {gpo})
  /\ garbled' = (garbled \/ ~ok[1] \/ ~ok[3] \/ (~ok[4] /\ ~on))

\* At most one transfer of a call fails.
Luck == {k \in [1..4 -> BOOLEAN] : Cardinality({i \in 1..4 : ~k[i]}) <= 1}

\* rtlsdr_set_bias_tee_gpio(): what the EEPROM forces on stays on.
Forced(pin, on) == on \/ (pin = BiasPin /\ bdev.forced)

SetBiasTee(pin, on, ok) ==
  /\ bdev.open /\ job.op = "none" /\ jobs < MaxJobs
  /\ jobs' = jobs + 1
  /\ Drive(pin, Forced(pin, on), ok)
  /\ wanted' = IF pin = BiasPin THEN on \/ bdev.forced ELSE wanted
  /\ UNCHANGED <<romVars, bdev, strings, job>>

----------------------------------------------------------------------------
(* rtlsdr_open2() and rtlsdr_close().                                      *)

\* The IR endpoint bit, 0x02, 1 by default.
IrBit(byte) == (byte \div 2) % 2 = 1

\* Mutant: an image that could not be read counts.
ForceBtUnread(e) == ~IrBit(e.image[IrByte])

ForceBt(e) == e.r >= 0 /\ ~IrBit(e.image[IrByte])

\* The strings and the bias tee bit are taken from an EEPROM that was read
\* to its end only; a forced bias tee is switched on at once.
OpenBoard(ok) ==
  /\ ~bdev.open /\ job.op = "none" /\ jobs < MaxJobs
  /\ jobs' = jobs + 1
  /\ \E e \in read_eeprom :
       LET m == get_string_descriptor(StrOffset, e.image)
       IN /\ strings' = IF e.r < 0 THEN <<>>
                        ELSE <<m, get_string_descriptor(m.next, e.image)>>
          /\ bdev' = [open |-> TRUE, forced |-> ForceBt(e)]
          /\ IF ForceBt(e) THEN Drive(BiasPin, TRUE, ok)
             ELSE Spent(Cost(e.r >= 0)) /\ UNCHANGED <<gpo, gpoe, garbled>>
  /\ wanted' = (wanted \/ ~IrBit(rom[IrByte]))
  /\ rptr' = 0
  /\ UNCHANGED <<rom, before, job>>

\* Closing leaves the pins as they are.
CloseBoard ==
  /\ bdev.open /\ job.op = "none"
  /\ bdev' = [open |-> FALSE, forced |-> FALSE]
  /\ UNCHANGED <<romVars, pinVars, strings, job, faults, jobs>>

BoardNext ==
  \/ \E ok \in Luck :
       \/ OpenBoard(ok)
       \/ \E pin \in Pins, on \in BOOLEAN : SetBiasTee(pin, on, ok)
  \/ CloseBoard
  \/ \E offset \in Cells, n \in 1..2 : \E data \in [1..n -> Bytes] : WriteEeprom(offset, data)
  \/ \E ok \in BOOLEAN : WriteAddress(ok) \/ ReadBack(ok) \/ WriteByte(ok)
  \/ WriteDone

BoardSpec == BoardInit /\ [][BoardNext]_boardVars

----------------------------------------------------------------------------

(* Whatever transfers fail in rtlsdr_write_eeprom(), and however often it  *)
(* is called, a cell holds what it held or what was to be written there;   *)
(* and after a call that returns 0 and met no failure every byte is there. *)
\* (When a read-back fails the byte may be taken for written already.)
EepromExact ==
  /\ \A a \in Cells : rom[a] \in before[a]
  /\ job.op = "none" /\ job.r = 0 /\ "clean" \in DOMAIN job =>
       (job.clean => \A i \in 1..Len(job.data) : rom[job.offset + i - 1] = job.data[i])

(* The bias tee puts its voltage on the antenna only when a call or the    *)
(* EEPROM asked for it: not because the EEPROM could not be read, nor      *)
(* because another pin was switched.  A GPIO register that could not be    *)
(* read is written back garbled, and one that could not be written keeps   *)
(* the pin on; neither is reported, and then anything may be on.           *)
BiasTeeOnlyAsked ==
  ~garbled /\ BiasPin \in gpo \cap gpoe => wanted

(* The strings of any EEPROM, corrupt ones included, come from inside the  *)
(* image, the second from behind the first.                                *)
StringsInside ==
  \A k \in 1..Len(strings) :
    /\ strings[k].at \subseteq Cells
    /\ k > 1 => \A a \in strings[1].at, b \in strings[k].at : a < b

=============================================================================
