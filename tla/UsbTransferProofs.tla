--------------------------- MODULE UsbTransferProofs ---------------------------
(***************************************************************************)
(* The safety of UsbTransfer, for any threads, any transfers, any number   *)
(* of URBs and any surroundings in which a transfer that is submitted is   *)
(* not submitted again (SingleUse; libusb answers that with BUSY, but      *)
(* between a refused submission and its removal from the list nothing      *)
(* guards the transfer).                                                   *)
(*                                                                         *)
(* The heart is FreshInv: an URB that still carries its transfer has one   *)
(* that waits for it.  It makes a completion find its transfer in flight,  *)
(* so that a callback is never run twice, and it holds because the places  *)
(* that drop the URBs (tpriv->urbs) leave none with the kernel.            *)
(***************************************************************************)
EXTENDS UsbTransfer, FiniteSetTheorems, SequenceTheorems, TLAPS

SingleUse == "double" \notin Env

(* The URBs the kernel has for a transfer, by the usercontext they carry. *)
FreshQueued(t) == \E u \in Nat : <<t, u, TRUE>> \in queued
FreshIn(q, t)  == {k \in DOMAIN q : q[k][1] = t /\ q[k][3]}
FreshDone(t)   == FreshIn(done, t)
HasFresh(t)    == FreshQueued(t) \/ FreshDone(t) # {}

HasUrbs(t) == x[t].urbs

(* p is submitting t; past the list and before the ioctl has been refused. *)
Submits(p, t) == cur[p] = t /\ pc[p] \in Submitting
Fills(p, t)   == cur[p] = t /\ pc[p] \in {"urbs", "submitted"}

(* p has allocated the control transfer t and will free it. *)
Owns(p, t) ==
    p # "E" /\ t \in Control /\ cur[p] = t /\ pc[p] \in Submitting \cup {"wait", "expire", "mark"}

(* Where each thread may be, and with which kind of transfer. *)
Places ==
    /\ pc["E"] # "wait" /\ back["E"] # "wait"
    /\ pc["E"] \in Submitting => cur["E"] \in Bulk
    /\ pc["E"] \in {"expire", "mark"} => back["E"] = "rest"
    /\ \A p \in Callers :
         /\ pc[p] \in Submitting \cup {"rest", "wait", "expire", "mark"}
         /\ back[p] # "unref"
         /\ pc[p] \in Submitting => (back[p] = "wait" <=> cur[p] \in Control)
         /\ pc[p] = "wait" => cur[p] \in Control
         /\ pc[p] \in {"expire", "mark"} => back[p] = "wait" /\ cur[p] \in Control
    /\ ~open => \A p \in Threads : pc[p] = "rest"

Counting ==
    \A p \in Threads :
        /\ pc[p] \notin {"urbs", "submitted"} => n[p] = 1
        /\ pc[p] = "urbs" => n[p] <= Urbs(cur[p])

(* A transfer has one submitter, and none while its callback is awaited. *)
OneSubmitter ==
    /\ \A p, q \in Threads : pc[p] \in Submitting /\ Submits(q, cur[p]) => p = q
    /\ \A p \in Threads : pc[p] \in Submitting => held[cur[p]] = 0

(* A control transfer has one owner, and no callback is due without one. *)
OneOwner ==
    /\ \A p, q \in Callers : Owns(p, cur[p]) /\ Owns(q, cur[p]) => p = q
    /\ \A p \in Callers : Owns(p, cur[p]) => cur[p] \in alive
    /\ \A t \in Control \ alive : held[t] = 0

(* A callback is due while the transfer is in flight, and while it runs. *)
HeldInv ==
    /\ \A t \in Transfers :
         held[t] = IF InFlight(t) \/ (pc["E"] = "callback" /\ cur["E"] = t) THEN 1 ELSE 0
    /\ pc["E"] \in {"late", "remove", "clear", "clearpriv"} => InFlight(cur["E"])
    /\ pc["E"] = "callback" => ~InFlight(cur["E"])

(* A URB that carries its transfer has one that waits for it. *)
FreshInv ==
    /\ \A t \in Transfers : HasFresh(t) =>
         HasUrbs(t) /\ (InFlight(t) \/ \E p \in Threads : Fills(p, t))
    /\ \A p \in Threads : pc[p] = "urbs" /\ n[p] = 1 => ~HasFresh(cur[p])
    /\ \A p \in Threads : pc[p] \in {"urbs", "submitted"} => HasUrbs(cur[p])
    /\ pc["E"] \in {"late", "remove", "clear"} => ~HasUrbs(cur["E"])
    /\ pc["E"] = "complete" => done # <<>> /\ Head(done)[3] /\ cur["E"] = Head(done)[1]

(* A control transfer has one URB. *)
ControlOnce ==
    \A t \in Control :
        /\ \A u \in Nat : <<t, u, TRUE>> \in queued => u = 1 /\ FreshDone(t) = {}
        /\ \A j, k \in FreshDone(t) : j = k

(* The list holds what is in flight or being submitted. *)
ListInv ==
    /\ open => \A t \in Transfers :
         InFlight(t) => t \in flying \/ (pc["E"] = "clear" /\ cur["E"] = t)
    /\ \A p \in Threads : pc[p] \in {"urbs", "submitted"} => cur[p] \in flying
    /\ \A t \in flying : InFlight(t) \/ \E p \in Threads : cur[p] = t /\ pc[p] \in {"urbs", "submitted", "undo"}
    /\ pc["E"] = "clear" => cur["E"] \notin flying
    /\ todo \subseteq flying
    /\ pc["E"] # "scanning" => todo = {}
    /\ \A p \in Threads : pc[p] = "mark" => exp \in flying

(* What the disconnect has still to find. *)
Dangling(t) ==
    InFlight(t) \/ \E p \in Threads : Fills(p, t) /\ (pc[p] = "submitted" \/ n[p] > 1)

ScanInv ==
    /\ poll # "live" => unplugged
    /\ pc["E"] \in {"scan", "scanning", "clearpriv"} => poll = "scan"
    /\ pc["E"] = "scanning" => \A t \in Transfers : Dangling(t) => t \in todo
    /\ poll = "removed" =>
         /\ \A t \in Transfers : ~Dangling(t)
         /\ pc["E"] \in Submitting \cup {"rest", "expire", "mark"}
         /\ pc["E"] \in Submitting => back["E"] = "rest"

UInv ==
    /\ TypeOK /\ LocksExact /\ Places /\ Counting /\ OneSubmitter /\ OneOwner
    /\ HeldInv /\ FreshInv /\ ControlOnce /\ ListInv /\ ScanInv

Endings == Transfers \X (1 .. U) \X BOOLEAN \X UrbStatus

Pcs == {"rest", "list", "enlist", "urbs", "submitted", "undo", "wait", "expire",
        "mark", "reap", "complete", "late", "remove", "clear", "callback", "unref",
        "scan", "scanning", "clearpriv"}

(* The part of TypeOK that most steps need. *)
Basics ==
    /\ pc \in [Threads -> Pcs] /\ cur \in [Threads -> Transfers]
    /\ back \in [Threads -> {"rest", "wait", "unref"}]
    /\ n \in [Threads -> 1 .. U + 1]
    /\ fl \in Threads \cup {"none"} /\ tl \in [Transfers -> Threads \cup {"none"}]
    /\ held \in [Transfers -> Int]
    /\ flying \subseteq Transfers /\ alive \subseteq Control /\ todo \subseteq Transfers
    /\ Transfers = Bulk \cup Control
    /\ "E" \in Threads /\ "none" \notin Threads /\ "E" \notin Callers
    /\ U \in Nat \ {0} /\ Bulk \cap Control = {}
    /\ \A t \in Transfers : Urbs(t) \in 1 .. U /\ (t \in Control => Urbs(t) = 1)

Fields == [flags : SUBSET {"IN_FLIGHT", "CANCELLING", "DISAPPEARED"},
           expiry : SUBSET {"HANDLED", "TIMED_OUT"}, urbs : BOOLEAN,
           retired : Nat, action : Actions, status : Statuses]

(* What a step may do to the views of the transfers. *)
KeepsFlags ==
    \A t \in Transfers : (InFlight(t)' <=> InFlight(t)) /\ (HasUrbs(t)' <=> HasUrbs(t))
AddsNoFresh == \A t \in Transfers : HasFresh(t)' => HasFresh(t)
HeadStays   == done # <<>> => done' # <<>> /\ Head(done') = Head(done)

-----------------------------------------------------------------------------
(* Sequences and their views. *)

LEMMA TypesGiveBasics == TypeOK => Basics
<1>1. U \in Nat \ {0}
  BY UsbConstants
<1>2. \A t \in Transfers : Urbs(t) \in 1 .. U /\ (t \in Control => Urbs(t) = 1)
  BY <1>1 DEF Urbs
<1> QED
  BY <1>1, <1>2, UsbConstants DEF TypeOK, Basics, Pcs, Threads, Transfers

(* A function on 1 .. m is a sequence of length m. *)
LEMMA IsSeq == ASSUME NEW S, NEW m \in Nat, NEW f \in [1 .. m -> S]
  PROVE f \in Seq(S) /\ Len(f) = m
<1>1. f \in Seq(S)
  BY SeqDef, Zenon
<1> QED
  BY <1>1

(* Clearing the usercontext of a transfer's URBs keeps their order. *)
LEMMA StaleSeq == ASSUME NEW s \in Seq(Endings), NEW t \in Transfers
  PROVE /\ StaleDone(t, s) \in Seq(Endings)
        /\ Len(StaleDone(t, s)) = Len(s)
        /\ \A k \in 1 .. Len(s) : StaleDone(t,s)[k] = IF s[k][1] = t THEN <<t, s[k][2], FALSE, s[k][4]>> ELSE s[k]
<1>1. DOMAIN s = 1 .. Len(s) /\ Len(s) \in Nat
  OBVIOUS
<1>2. \A k \in 1 .. Len(s) : s[k] \in Endings
  OBVIOUS
<1>3. \A k \in 1 .. Len(s) : (IF s[k][1] = t THEN <<t, s[k][2], FALSE, s[k][4]>> ELSE s[k]) \in Endings
  BY <1>2 DEF Endings
<1>4. StaleDone(t, s) \in [1 .. Len(s) -> Endings] 
      /\ \A k \in 1 .. Len(s) : StaleDone(t,s)[k] = IF s[k][1] = t THEN <<t, s[k][2], FALSE, s[k][4]>> ELSE s[k]
  BY <1>1, <1>3 DEF StaleDone
<1> QED
  BY <1>1, <1>4, IsSeq

(* Every element of a finite set of numbers has a rank, and every rank an  *)
(* element: the URBs that discard_urbs() takes back can be put in order.   *)
LEMMA Ranked == ASSUME NEW hit, IsFiniteSet(hit), hit \subseteq Int, NEW k \in 1 .. Cardinality(hit)
  PROVE \E u \in hit : Cardinality({v \in hit : v > u}) = k - 1
<1> DEFINE above(u) == {v \in hit : v > u}
           rank == [u \in hit |-> Cardinality(above(u))]
           C == Cardinality(hit)
<1>1. C \in Nat
  BY FS_CardinalityType
<1>2. \A u \in hit : IsFiniteSet(above(u)) /\ Cardinality(above(u)) \in Nat /\ Cardinality(above(u)) < C
  <2> TAKE u \in hit
  <2>1. above(u) \in SUBSET hit /\ u \notin above(u)
    OBVIOUS
  <2>2. above(u) # hit
    BY <2>1
  <2> QED
    BY <2>1, <2>2, FS_Subset, FS_CardinalityType
<1>3. ASSUME NEW u \in hit, NEW w \in hit, u < w PROVE rank[u] # rank[w]
  <2>a. u \in Int /\ w \in Int
    OBVIOUS
  <2>b. \A v \in hit : v > w => v > u
    BY <1>3, <2>a
  <2>c. w > u /\ ~(w > w)
    BY <1>3, <2>a
  <2>1. above(w) \in SUBSET above(u) /\ w \in above(u) /\ w \notin above(w)
    BY <2>b, <2>c
  <2>2. Cardinality(above(w)) # Cardinality(above(u))
    BY <2>1, <1>2, FS_Subset
  <2> QED
    BY <2>2
<1>4. rank \in [hit -> 0 .. C - 1]
  BY <1>1, <1>2
<1>5. rank \in Injection(hit, 0 .. C - 1)
  <2>1. \A u, w \in hit : rank[u] = rank[w] => u = w
    BY <1>3
  <2> QED
    BY <1>4, <2>1 DEF Injection, IsInjective
<1>6. IsFiniteSet(0 .. C - 1) /\ Cardinality(0 .. C - 1) = C
  <2>1. 0 \in Int /\ C - 1 \in Int
    BY <1>1
  <2>2. IsFiniteSet(0 .. C - 1) /\ Cardinality(0 .. C - 1) = IF 0 > C - 1 THEN 0 ELSE (C - 1) - 0 + 1
    BY <2>1, FS_Interval
  <2> HIDE DEF C
  <2> QED
    BY <1>1, <2>2
<1>7. rank \in Surjection(hit, 0 .. C - 1)
  BY <1>5, <1>6, FS_Injection
<1>8. k - 1 \in 0 .. C - 1
  BY <1>1
<1>9. PICK u \in hit : rank[u] = k - 1
  BY <1>7, <1>8 DEF Surjection
<1> QED
  BY <1>9

(* What has been appended to done changes nothing of what was there. *)
LEMMA FreshAppend ==
    ASSUME done \in Seq(Endings), NEW e \in Endings, done' = Append(done, e)
    PROVE  /\ done' \in Seq(Endings)
           /\ \A t : FreshDone(t)' =
                FreshDone(t) \cup (IF e[1] = t /\ e[3] THEN {Len(done) + 1} ELSE {})
           /\ HeadStays
  BY DEF FreshDone, FreshIn, HeadStays

LEMMA FreshTail ==
    ASSUME done \in Seq(Endings), done # <<>>, NEW q, q = Tail(done)
    PROVE  /\ q \in Seq(Endings)
           /\ \A t : \A k \in Nat :
                k \in FreshIn(q, t) <=> k \in Nat \ {0} /\ k + 1 \in FreshDone(t)
  BY DEF FreshDone, FreshIn, FreshIn

(* Steps that leave the transfers and the URBs alone. *)
LEMMA ViewsStay ==
    ASSUME UNCHANGED <<x, queued, done>>
    PROVE  /\ KeepsFlags /\ AddsNoFresh /\ HeadStays
           /\ \A t : FreshDone(t)' = FreshDone(t)
  BY DEF KeepsFlags, AddsNoFresh, HeadStays, InFlight, HasUrbs, HasFresh, FreshQueued,
         FreshDone, FreshIn

LEMMA FreshStay ==
    ASSUME UNCHANGED <<queued, done>>
    PROVE  /\ AddsNoFresh /\ HeadStays
           /\ \A t : FreshDone(t)' = FreshDone(t)
  BY DEF AddsNoFresh, HeadStays, HasFresh, FreshQueued, FreshDone, FreshIn

(* discard_urbs() moves URBs of t that carry it from the queue to done.    *)
TakesBack(t, first, last, q) ==
    \E s \in Seq(Endings) :
        /\ done' = q \o s
        /\ \A k \in 1 .. Len(s) : s[k][1] = t /\ s[k][3]
        /\ Len(s) # 0 => \E u \in first .. last :
               <<t, u, TRUE>> \in queued /\ <<t, u, TRUE>> \notin queued'
        /\ first = last => Len(s) \in {0, 1}

LEMMA Discards ==
    ASSUME TypeOK, NEW t \in Transfers, NEW first \in 1 .. U + 1, NEW last \in 0 .. U,
           NEW st \in {"full", "unlinked"}, NEW q \in Seq(Endings),
           Discard(t, first, last, st, q)
    PROVE  queued' \subseteq queued /\ TakesBack(t, first, last, q)
<1> USE DEF TakesBack
<1>1. CASE unplugged
  <2> DEFINE s == <<>>
  <2>1. s \in Seq(Endings) /\ Len(s) = 0 /\ q \o s = q /\ s = <<>>
    OBVIOUS
  <2> HIDE DEF s
  <2>2. queued' = queued /\ done' = q \o s
    BY <1>1, <2>1 DEF Discard
  <2>3. 1 .. Len(s) = {}
    BY <2>1
  <2>4. queued' \subseteq queued
    BY <2>2
  <2> QED
    BY <2>1, <2>2, <2>3, <2>4, Zenon
<1>2. CASE ~unplugged
  <2> DEFINE hit == {u \in first .. last : <<t, u, TRUE>> \in queued}
             nth(k) == CHOOSE u \in hit : Cardinality({v \in hit : v > u}) = k - 1
             C == Cardinality(hit)
             s == [k \in 1 .. C |-> <<t, nth(k), TRUE, IF k = C THEN st ELSE "unlinked">>]
  <2>1. queued' = queued \ {<<t, u, TRUE>> : u \in hit} /\ done' = q \o s
    BY <1>2 DEF Discard
  <2>2. IsFiniteSet(first .. last) /\ first \in Int /\ last \in Int
    BY UsbConstants, FS_Interval
  <2>a. first .. last \subseteq Int
    BY <2>2
  <2>b. hit \in SUBSET (first .. last)
    BY Zenon
  <2>3. hit \in SUBSET (first .. last) /\ hit \subseteq Int
    BY <2>a, <2>b, Zenon
  <2>4. IsFiniteSet(hit) /\ C \in Nat /\ C <= Cardinality(first .. last)
    BY <2>2, <2>3, FS_Subset, FS_CardinalityType
  <2>5. \A k \in 1 .. C : nth(k) \in hit
    <3> TAKE k \in 1 .. C
    <3>1. \E u \in hit : Cardinality({v \in hit : v > u}) = k - 1
      BY <2>3, <2>4, Ranked
    <3> QED
      BY <3>1
  <2>c. first .. last \subseteq 1 .. U
    BY UsbConstants
  <2>6. hit \subseteq 1 .. U
    BY <2>b, <2>c, Zenon
  <2> HIDE DEF nth, hit
  <2>7. s \in [1 .. C -> Endings]
    <3> SUFFICES ASSUME NEW k \in 1 .. C
        PROVE <<t, nth(k), TRUE, IF k = C THEN st ELSE "unlinked">> \in Endings
      OBVIOUS
    <3> QED
      BY <2>5, <2>6 DEF Endings, UrbStatus
  <2>8. \A k \in 1 .. C : s[k][1] = t /\ s[k][3]
    OBVIOUS
  <2> HIDE DEF s
  <2>9. s \in Seq(Endings) /\ Len(s) = C
    BY <2>4, <2>7, IsSeq
  <2>10. ASSUME Len(s) # 0
         PROVE  \E u \in first .. last : <<t, u, TRUE>> \in queued /\ <<t, u, TRUE>> \notin queued'
    <3>1. C # 0
      BY <2>9, <2>10
    <3>2. nth(1) \in hit
      BY <2>4, <2>5, <3>1
    <3> QED
      BY <2>1, <3>2 DEF hit
  <2>d. first = last => Cardinality(first .. last) = 1
    <3> SUFFICES ASSUME first = last PROVE Cardinality(first .. last) = 1
      OBVIOUS
    <3>1. first .. last = {first}
      BY <2>2
    <3> QED
      BY <3>1, FS_Singleton
  <2> HIDE DEF C
  <2>11. first = last => C \in {0, 1}
    BY <2>4, <2>d
  <2> QED
    BY <2>1, <2>8, <2>9, <2>10, <2>11
<1> QED
  BY <1>1, <1>2

(* What it does to the URBs of each transfer. *)
FreshAfter(t, first, last, q) ==
    /\ done' \in Seq(Endings) /\ queued' \subseteq queued
    /\ \A s \in Transfers \ {t} : FreshIn(done', s) = FreshIn(q, s)
    /\ FreshIn(done', t) # FreshIn(q, t) =>
         \E u \in first .. last : <<t, u, TRUE>> \in queued /\ <<t, u, TRUE>> \notin queued'
    /\ q # <<>> => done' # <<>> /\ Head(done') = Head(q)
    /\ first = last => \E m : FreshIn(done', t) \subseteq FreshIn(q, t) \cup {m}

LEMMA DiscardFresh ==
    ASSUME TypeOK, NEW t \in Transfers, NEW first \in 1 .. U + 1, NEW last \in 0 .. U,
           NEW st \in {"full", "unlinked"}, NEW q \in Seq(Endings),
           Discard(t, first, last, st, q)
    PROVE  FreshAfter(t, first, last, q)
<1>0. TakesBack(t, first, last, q)
  BY Discards
<1>1. PICK s \in Seq(Endings) :
        /\ done' = q \o s
        /\ \A k \in 1 .. Len(s) : s[k][1] = t /\ s[k][3]
        /\ Len(s) # 0 => \E u \in first .. last :
               <<t, u, TRUE>> \in queued /\ <<t, u, TRUE>> \notin queued'
        /\ first = last => Len(s) \in {0, 1}
  BY <1>0 DEF TakesBack
<1>2. queued' \subseteq queued
  BY Discards
<1>3. /\ done' \in Seq(Endings) /\ Len(done') = Len(q) + Len(s)
      /\ Len(q) \in Nat /\ Len(s) \in Nat
      /\ \A k \in 1 .. Len(q) + Len(s) : done'[k] = IF k <= Len(q) THEN q[k] ELSE s[k - Len(q)]
      /\ DOMAIN done' = 1 .. Len(q) + Len(s) /\ DOMAIN q = 1 .. Len(q)
  BY <1>1, ConcatProperties
<1>4. \A r \in Transfers \ {t} : FreshIn(done', r) = FreshIn(q, r)
  <2> TAKE r \in Transfers \ {t}
  <2>1. ASSUME NEW k \in FreshIn(done', r) PROVE k \in FreshIn(q, r)
    <3>1. k \in 1 .. Len(q) + Len(s) /\ done'[k][1] = r /\ done'[k][3]
      BY <1>3 DEF FreshIn
    <3>2. CASE k <= Len(q)
      BY <1>3, <3>1, <3>2 DEF FreshIn
    <3>3. CASE ~(k <= Len(q))
      <4>1. k - Len(q) \in 1 .. Len(s) /\ done'[k] = s[k - Len(q)]
        BY <1>3, <3>1, <3>3, SMTT(30)
      <4> QED
        BY <1>1, <3>1, <4>1
    <3> QED
      BY <3>2, <3>3
  <2>2. ASSUME NEW k \in FreshIn(q, r) PROVE k \in FreshIn(done', r)
    BY <1>3 DEF FreshIn
  <2> QED
    BY <2>1, <2>2
<1>5. FreshIn(done', t) \subseteq FreshIn(q, t) \cup {Len(q) + k : k \in 1 .. Len(s)}
  <2> SUFFICES ASSUME NEW k \in FreshIn(done', t), k \notin FreshIn(q, t)
      PROVE \E j \in 1 .. Len(s) : k = Len(q) + j
    OBVIOUS
  <2>1. k \in 1 .. Len(q) + Len(s) /\ ~(k <= Len(q))
    BY <1>3 DEF FreshIn
  <2>2. k - Len(q) \in 1 .. Len(s) /\ k = Len(q) + (k - Len(q))
    BY <1>3, <2>1
  <2> QED
    BY <2>2
<1>6. Len(s) = 0 => done' = q
  BY <1>1, <1>3
<1>7. FreshIn(done', t) # FreshIn(q, t) =>
        \E u \in first .. last : <<t, u, TRUE>> \in queued /\ <<t, u, TRUE>> \notin queued'
  BY <1>1, <1>6
<1>8. q # <<>> => done' # <<>> /\ Head(done') = Head(q)
  BY <1>3
<1>9. first = last => \E m : FreshIn(done', t) \subseteq FreshIn(q, t) \cup {m}
  <2> SUFFICES ASSUME first = last PROVE FreshIn(done', t) \subseteq FreshIn(q, t) \cup {Len(q) + 1}
    BY Zenon
  <2>1. Len(s) \in {0, 1}
    BY <1>1
  <2>2. {Len(q) + k : k \in 1 .. Len(s)} \subseteq {Len(q) + 1}
    BY <1>3, <2>1, SMTT(30)
  <2> QED
    BY <1>5, <2>2, Zenon
<1> QED
  BY <1>2, <1>3, <1>4, <1>7, <1>8, <1>9 DEF FreshAfter

(* Discarding behind what is there keeps a control transfer's one URB one. *)
LEMMA DiscardKeeps ==
    ASSUME TypeOK, ControlOnce, NEW t \in Transfers, NEW last \in 1 .. U,
           t \in Control => last = 1,
           NEW st \in {"full", "unlinked"}, Discard(t, 1, last, st, done)
    PROVE  /\ done' \in Seq(Endings) /\ queued' \subseteq queued
           /\ AddsNoFresh /\ HeadStays /\ ControlOnce'
<1>1. done \in Seq(Endings) /\ 1 \in 1 .. U + 1 /\ last \in 0 .. U
  BY UsbConstants DEF TypeOK, Endings
<1>2. /\ done' \in Seq(Endings) /\ queued' \subseteq queued
      /\ \A s \in Transfers \ {t} : FreshIn(done', s) = FreshIn(done, s)
      /\ FreshIn(done', t) # FreshIn(done, t) =>
           \E u \in 1 .. last : <<t, u, TRUE>> \in queued /\ <<t, u, TRUE>> \notin queued'
      /\ done # <<>> => done' # <<>> /\ Head(done') = Head(done)
      /\ 1 = last => \E m : FreshIn(done', t) \subseteq FreshIn(done, t) \cup {m}
  <2>1. PICK q \in Seq(Endings) : q = done
    BY <1>1
  <2>2. Discard(t, 1, last, st, q)
    BY <2>1
  <2>3. FreshAfter(t, 1, last, q)
    BY <1>1, <2>2, DiscardFresh
  <2> QED
    BY <2>1, <2>3 DEF FreshAfter
<1>3. 1 .. last \subseteq Nat
  OBVIOUS
<1>4. \A s \in Transfers : HasFresh(s)' => HasFresh(s)
  <2> SUFFICES ASSUME NEW s \in Transfers, HasFresh(s)' PROVE HasFresh(s)
    OBVIOUS
  <2>1. CASE FreshQueued(s)'
    BY <1>2, <2>1 DEF HasFresh, FreshQueued
  <2>2. CASE FreshIn(done', s) # {}
    <3>1. CASE FreshIn(done', s) = FreshIn(done, s)
      BY <2>2, <3>1 DEF HasFresh, FreshDone
    <3>2. CASE FreshIn(done', s) # FreshIn(done, s)
      <4>1. s = t /\ \E u \in 1 .. last : <<t, u, TRUE>> \in queued
        BY <1>2, <3>2
      <4> QED
        BY <1>3, <4>1 DEF HasFresh, FreshQueued
    <3> QED
      BY <3>1, <3>2
  <2> QED
    BY <2>1, <2>2 DEF HasFresh, FreshDone
<1>5. ControlOnce'
  <2> SUFFICES ASSUME NEW s \in Control
      PROVE  /\ \A u \in Nat : <<s, u, TRUE>> \in queued' => u = 1 /\ FreshIn(done', s) = {}
             /\ \A j, k \in FreshIn(done', s) : j = k
    BY DEF ControlOnce, FreshDone
  <2>1. /\ \A u \in Nat : <<s, u, TRUE>> \in queued => u = 1 /\ FreshIn(done, s) = {}
        /\ \A j, k \in FreshIn(done, s) : j = k
    BY DEF ControlOnce, FreshDone
  <2>2. s \in Transfers
    BY DEF Transfers
  <2>3. CASE FreshIn(done', s) = FreshIn(done, s)
    BY <1>2, <2>1, <2>3
  <2>4. CASE FreshIn(done', s) # FreshIn(done, s)
    <3>1. s = t /\ 1 = last
      BY <1>2, <2>2, <2>4
    <3>2. PICK v \in 1 .. last : <<t, v, TRUE>> \in queued /\ <<t, v, TRUE>> \notin queued'
      BY <1>2, <2>4, <3>1
    <3>3. v = 1 /\ FreshIn(done, s) = {}
      BY <1>3, <2>1, <3>1, <3>2
    <3>4. PICK m : FreshIn(done', s) \subseteq {m}
      BY <1>2, <3>1, <3>3
    <3>5. \A u \in Nat : <<s, u, TRUE>> \notin queued'
      BY <1>2, <2>1, <3>1, <3>2, <3>3
    <3> QED
      BY <3>4, <3>5
  <2> QED
    BY <2>3, <2>4
<1> QED
  BY <1>2, <1>4, <1>5 DEF AddsNoFresh, HeadStays


LEMMA Negation == ASSUME NEW b \in BOOLEAN PROVE \E c \in BOOLEAN : c = ~b
<1>1. CASE b = TRUE
  <2>1. FALSE = ~b
    BY <1>1
  <2> QED
    BY <2>1
<1>2. CASE b = FALSE
  <2>1. TRUE = ~b
    BY <1>2
  <2> QED
    BY <2>1
<1> QED
  BY <1>1, <1>2

(* A cancel moves URBs of its transfer and marks it.                       *)
Cancelled == x' \in [Transfers -> Fields] /\ accepted' \in [Transfers -> {"none", "user", "timeout"}]
             /\ done' \in Seq(Endings) /\ queued' \subseteq queued
             /\ KeepsFlags /\ AddsNoFresh /\ HeadStays /\ ControlOnce'

LEMMA CancelKeeps ==
    ASSUME TypeOK, ControlOnce, NEW t \in Transfers, NEW st \in {"full", "unlinked"},
           NEW by \in {"user", "timeout"}, Cancel(t, st, by)
    PROVE  Cancelled
<1> DEFINE r == CancelReturn(t)
           hit == InFlight(t) /\ ~Cancelling(t)
           e == x[t].expiry \cup IF by = "timeout" THEN {"HANDLED"} ELSE {}
           f == x[t].flags \cup {"CANCELLING"} \cup IF r = "NO_DEVICE" THEN {"DISAPPEARED"} ELSE {}
           a == IF r = "OK" /\ ~(t \in Bulk /\ x[t].action = "ERROR") THEN "CANCELLED" ELSE x[t].action
           w == [x[t] EXCEPT !.flags = f, !.expiry = e, !.action = a]
           v == [x[t] EXCEPT !.expiry = e]
<1>1. Basics
  BY TypesGiveBasics
<1>2. x \in [Transfers -> Fields] /\ x[t] \in Fields
  BY DEF TypeOK, Fields
<1>3. e \in SUBSET {"HANDLED", "TIMED_OUT"} /\ f \in SUBSET {"IN_FLIGHT", "CANCELLING", "DISAPPEARED"}
      /\ a \in Actions
  <2> HIDE DEF r
  <2> QED
    BY <1>2 DEF Fields, Actions
<1>4. "IN_FLIGHT" \in f <=> "IN_FLIGHT" \in x[t].flags
  <2> HIDE DEF r
  <2>1. CASE hit
    BY <2>1 DEF InFlight
  <2>2. CASE ~hit
    BY <2>2
  <2> QED
    BY <2>1, <2>2
<1>5. w \in Fields /\ w.flags = f /\ w.urbs = x[t].urbs
  <2> HIDE DEF e, f, a
  <2> QED
    BY <1>2, <1>3 DEF Fields
<1>6. v \in Fields /\ v.flags = x[t].flags /\ v.urbs = x[t].urbs
  <2> HIDE DEF e, f, a
  <2> QED
    BY <1>2, <1>3 DEF Fields
<1>7. CASE hit
  <2>1. x' = [x EXCEPT ![t] = w] /\ Discard(t, 1, Urbs(t), st, done)
    BY <1>7 DEF Cancel
  <2>2. accepted' \in [Transfers -> {"none", "user", "timeout"}]
    BY <1>7 DEF Cancel, TypeOK
  <2>3. /\ done' \in Seq(Endings) /\ queued' \subseteq queued
        /\ AddsNoFresh /\ HeadStays /\ ControlOnce'
    <3>1. PICK l \in 1 .. U : l = Urbs(t)
      BY <1>1 DEF Basics
    <3>2. t \in Control => l = 1
      BY <1>1, <3>1 DEF Basics
    <3>3. Discard(t, 1, l, st, done)
      BY <2>1, <3>1
    <3> QED
      BY <3>2, <3>3, DiscardKeeps
  <2> HIDE DEF w, f
  <2>4. x' \in [Transfers -> Fields]
    BY <1>2, <1>5, <2>1
  <2>5. \A s \in Transfers : x'[s] = IF s = t THEN w ELSE x[s]
    BY <1>2, <2>1
  <2>6. KeepsFlags
    BY <1>4, <1>5, <2>5 DEF KeepsFlags, InFlight, HasUrbs
  <2> QED
    BY <2>2, <2>3, <2>4, <2>6 DEF Cancelled
<1>8. CASE ~hit
  <2>1. x' = [x EXCEPT ![t] = v] /\ queued' = queued /\ done' = done /\ accepted' = accepted
    BY <1>8 DEF Cancel
  <2> HIDE DEF v
  <2>2. x' \in [Transfers -> Fields]
    BY <1>2, <1>6, <2>1
  <2>3. \A s \in Transfers : x'[s] = IF s = t THEN v ELSE x[s]
    BY <1>2, <2>1
  <2>4. KeepsFlags
    BY <1>6, <2>3 DEF KeepsFlags, InFlight, HasUrbs
  <2>5. AddsNoFresh /\ HeadStays /\ \A s : FreshDone(s)' = FreshDone(s)
    BY <2>1, FreshStay
  <2>6. ControlOnce'
    BY <2>1, <2>5 DEF ControlOnce
  <2> QED
    BY <2>1, <2>2, <2>4, <2>5, <2>6 DEF Cancelled, TypeOK, Endings
<1> QED
  BY <1>7, <1>8

(* Freeing the URBs of t leaves none that carries it, and the others'      *)
(* where they were in q.                                                   *)
Freed(t, q) ==
    /\ done' \in Seq(Endings) /\ queued' \subseteq Transfers \X (1 .. U) \X BOOLEAN
    /\ FreshIn(done', t) = {} /\ ~FreshQueued(t)'
    /\ \A s \in Transfers \ {t} : FreshIn(done', s) = FreshIn(q, s)
    /\ \A s \in Transfers \ {t}, u \in Nat : <<s, u, TRUE>> \in queued' => <<s, u, TRUE>> \in queued

LEMMA FreesUrbs ==
    ASSUME TypeOK, NEW t \in Transfers, NEW q \in Seq(Endings),
           queued' = Stale(t, queued), done' = StaleDone(t, q)
    PROVE  Freed(t, q)
<1>1. /\ done' \in Seq(Endings) /\ Len(done') = Len(q)
      /\ \A k \in 1 .. Len(q) : done'[k] = IF q[k][1] = t THEN <<t, q[k][2], FALSE, q[k][4]>> ELSE q[k]
  <2>1. /\ StaleDone(t, q) \in Seq(Endings) /\ Len(StaleDone(t, q)) = Len(q)
        /\ \A k \in 1 .. Len(q) : StaleDone(t, q)[k] = IF q[k][1] = t THEN <<t, q[k][2], FALSE, q[k][4]>> ELSE q[k]
    BY StaleSeq
  <2> QED
    BY <2>1, Zenon
<1>2. DOMAIN done' = 1 .. Len(q) /\ DOMAIN q = 1 .. Len(q)
  BY <1>1
<1>3. FreshIn(done', t) = {}
  <2> SUFFICES ASSUME NEW k \in 1 .. Len(q), done'[k][1] = t, done'[k][3] PROVE FALSE
    BY <1>2 DEF FreshIn
  <2>1. CASE q[k][1] = t
    <3>1. done'[k] = <<t, q[k][2], FALSE, q[k][4]>>
      BY <1>1, <2>1
    <3>2. done'[k][3] = FALSE
      BY <3>1
    <3> QED
      BY <3>2, Zenon
  <2>2. CASE q[k][1] # t
    BY <1>1, <2>2
  <2> QED
    BY <2>1, <2>2
<1>4. ASSUME NEW s \in Transfers \ {t} PROVE FreshIn(done', s) = FreshIn(q, s)
  <2>1. \A k \in 1 .. Len(q) : (done'[k][1] = s /\ done'[k][3]) <=> (q[k][1] = s /\ q[k][3])
    <3> TAKE k \in 1 .. Len(q)
    <3>1. CASE q[k][1] = t
      <4>1. done'[k] = <<t, q[k][2], FALSE, q[k][4]>>
        BY <1>1, <3>1
      <4>2. done'[k][1] = t
        BY <4>1
      <4> QED
        BY <3>1, <4>2
    <3>2. CASE q[k][1] # t
      BY <1>1, <3>2
    <3> QED
      BY <3>1, <3>2
  <2> QED
    BY <1>2, <2>1 DEF FreshIn
<1>5. \A e \in queued' : \E f \in queued : e = IF f[1] = t THEN <<t, f[2], FALSE>> ELSE f
  <2> SUFFICES ASSUME NEW f \in queued, f[1] = t
      PROVE <<f[1], f[2], FALSE>> = <<t, f[2], FALSE>>
    BY DEF Stale
  <2> QED
    OBVIOUS
<1>6. \A f \in queued : f = <<f[1], f[2], f[3]>> /\ f[1] \in Transfers /\ f[2] \in 1 .. U /\ f[3] \in BOOLEAN
  BY SMTT(30) DEF TypeOK
<1>7. queued' \subseteq Transfers \X (1 .. U) \X BOOLEAN
  <2> SUFFICES ASSUME NEW e \in queued' PROVE e \in Transfers \X (1 .. U) \X BOOLEAN
    OBVIOUS
  <2>1. PICK f \in queued : e = IF f[1] = t THEN <<t, f[2], FALSE>> ELSE f
    BY <1>5
  <2> QED
    BY <1>6, <2>1 DEF TypeOK
<1>8. ~FreshQueued(t)'
  <2> SUFFICES ASSUME NEW u \in Nat, <<t, u, TRUE>> \in queued' PROVE FALSE
    BY DEF FreshQueued
  <2>1. PICK f \in queued : <<t, u, TRUE>> = IF f[1] = t THEN <<t, f[2], FALSE>> ELSE f
    BY <1>5
  <2>2. CASE f[1] = t
    <3>1. <<t, u, TRUE>> = <<t, f[2], FALSE>>
      BY <2>1, <2>2
    <3>2. TRUE = FALSE
      BY <3>1
    <3> QED
      BY <3>2
  <2>3. CASE f[1] # t
    BY <2>1, <2>3
  <2> QED
    BY <2>2, <2>3
<1>9. ASSUME NEW s \in Transfers \ {t}, NEW u \in Nat, <<s, u, TRUE>> \in queued'
      PROVE  <<s, u, TRUE>> \in queued
  <2>1. PICK f \in queued : <<s, u, TRUE>> = IF f[1] = t THEN <<t, f[2], FALSE>> ELSE f
    BY <1>5, <1>9
  <2> QED
    BY <2>1
<1> QED
  BY <1>1, <1>3, <1>4, <1>7, <1>8, <1>9 DEF Freed

(* The URB that E handles carries its transfer, which is in flight.        *)
Handled(t, q) ==
    /\ t = cur["E"] /\ done # <<>> /\ q = Tail(done) /\ q \in Seq(Endings)
    /\ InFlight(t) /\ HasUrbs(t) /\ HasFresh(t)
    /\ \A s : \A k \in Nat : k \in FreshIn(q, s) <=> k \in Nat \ {0} /\ k + 1 \in FreshDone(s)
    /\ \A s : FreshIn(q, s) \subseteq Nat \ {0}
    /\ t \in Control => FreshIn(q, t) = {} /\ ~FreshQueued(t)

LEMMA HeadIsFresh ==
    ASSUME UInv, pc["E"] = "complete", tl[cur["E"]] = "none"
    PROVE  \E t \in Transfers, q \in Seq(Endings) : Handled(t, q)
<1> USE DEF UInv
<1>1. Basics
  BY TypesGiveBasics
<1>2. PICK t \in Transfers : t = cur["E"]
  BY <1>1 DEF Basics
<1>3. done \in Seq(Endings) /\ done # <<>> /\ Head(done)[3] /\ Head(done)[1] = t
  BY <1>2 DEF FreshInv, TypeOK, Endings
<1>4. Tail(done) \in Seq(Endings)
  BY <1>3
<1>5. PICK q \in Seq(Endings) : q = Tail(done)
  BY <1>4, Zenon
<1>6. 1 \in FreshDone(t)
  BY <1>3 DEF FreshDone, FreshIn
<1>7. HasFresh(t)
  BY <1>6 DEF HasFresh
<1>8. \A p \in Threads : ~Fills(p, t)
  BY <1>1, <1>2 DEF LocksExact, Fills, Basics
<1>9. InFlight(t) /\ HasUrbs(t)
  BY <1>7, <1>8 DEF FreshInv
<1>10. \A s : \A k \in Nat : k \in FreshIn(q, s) <=> k \in Nat \ {0} /\ k + 1 \in FreshDone(s)
  BY <1>3, <1>5, FreshTail
<1>11. \A s : FreshIn(q, s) \subseteq Nat \ {0}
  BY DEF FreshIn
<1>12. ASSUME t \in Control PROVE FreshIn(q, t) = {} /\ ~FreshQueued(t)
  <2>1. \A k \in FreshDone(t) : k = 1
    BY <1>6, <1>12 DEF ControlOnce
  <2>2. FreshIn(q, t) = {}
    <3> SUFFICES ASSUME NEW k \in FreshIn(q, t) PROVE FALSE
      OBVIOUS
    <3>1. k \in Nat \ {0} /\ k + 1 \in FreshDone(t)
      BY <1>10, <1>11
    <3>2. k + 1 = 1
      BY <2>1, <3>1
    <3> QED
      BY <3>1, <3>2
  <2>3. ~FreshQueued(t)
    BY <1>6, <1>12 DEF ControlOnce, FreshQueued
  <2> QED
    BY <2>2, <2>3
<1> QED
  BY <1>2, <1>3, <1>5, <1>7, <1>9, <1>10, <1>11, <1>12 DEF Handled

(* A thread that moves outside the submission of URBs, and outside the     *)
(* handling of one, keeps FreshInv.                                        *)
LEMMA FreshMoves ==
    ASSUME Basics, FreshInv, KeepsFlags, AddsNoFresh, UNCHANGED <<cur, n, done>>,
           \A q \in Threads :
               \/ pc'[q] = pc[q]
               \/ /\ pc[q] \notin {"urbs", "submitted"}
                  /\ pc'[q] \notin {"urbs", "submitted", "complete"}
                  /\ pc'[q] \in {"late", "remove", "clear"} => pc[q] \in {"late", "remove", "clear"}
    PROVE  FreshInv'
<1>1. \A q \in Threads, s \in Transfers : Fills(q, s) => Fills(q, s)'
  BY DEF Fills
<1>2. \A s \in Transfers : HasFresh(s)' =>
        HasUrbs(s)' /\ (InFlight(s)' \/ \E q \in Threads : Fills(q, s)')
  BY <1>1 DEF FreshInv, KeepsFlags, AddsNoFresh
<1>3. \A q \in Threads : cur[q] \in Transfers
  BY DEF Basics
<1>4. \A q \in Threads : pc'[q] = "urbs" /\ n'[q] = 1 => ~HasFresh(cur[q])'
  BY <1>3 DEF FreshInv, AddsNoFresh
<1>5. \A q \in Threads : pc'[q] \in {"urbs", "submitted"} => HasUrbs(cur[q])'
  BY <1>3 DEF FreshInv, KeepsFlags
<1>6. "E" \in Threads
  BY DEF Basics
<1>7. pc'["E"] \in {"late", "remove", "clear"} => ~HasUrbs(cur["E"])'
  BY <1>3, <1>6 DEF FreshInv, KeepsFlags
<1>8. pc'["E"] = "complete" => done' # <<>> /\ Head(done')[3] /\ cur'["E"] = Head(done')[1]
  BY <1>6 DEF FreshInv
<1> QED
  BY <1>2, <1>4, <1>5, <1>7, <1>8 DEF FreshInv

-----------------------------------------------------------------------------
(* One lemma per action: it keeps the invariant.  <1>2 says what the step  *)
(* does to the three views of the transfers, whether each is in flight,    *)
(* has its URBs, and has one with the kernel that carries it; the parts of *)
(* the invariant speak of nothing else of x, queued and done.              *)


LEMMA UnplugKeeps ==
    ASSUME UInv, Unplug
    PROVE  UInv'
<1> USE DEF UInv
<1>1. Basics
  BY TypesGiveBasics
<1>2. KeepsFlags /\ AddsNoFresh /\ HeadStays /\ \A s : FreshDone(s)' = FreshDone(s)
  BY ViewsStay DEF Unplug, kernel
<1>10. TypeOK'
  BY <1>1 DEF TypeOK, Basics, Pcs, Unplug, locks, thread, event, ghost
<1>11. LocksExact'
  BY <1>1 DEF LocksExact, Basics, Pcs, Unplug, locks, thread, event, ghost
<1>12. Places'
  BY <1>1 DEF Places, Basics, Threads, Submitting, Unplug, locks, thread, event, ghost
<1>13. Counting'
  BY <1>1 DEF Counting, Basics, Unplug, locks, thread, event, ghost
<1>14. OneSubmitter'
  BY <1>1 DEF OneSubmitter, Submits, Places, Basics, Submitting, Unplug, locks, thread, event,
         ghost
<1>15. OneOwner'
  BY <1>1 DEF OneOwner, Owns, Places, Basics, Submitting, Threads, Unplug, locks, thread,
         event, ghost
<1>16. HeldInv'
  BY <1>1, <1>2 DEF HeldInv, Basics, KeepsFlags, Unplug, locks, thread, event, ghost
<1>17. FreshInv'
  BY <1>1, <1>2 DEF FreshInv, Fills, Basics, KeepsFlags, AddsNoFresh, HeadStays, Unplug,
         locks, thread, event, ghost
<1>18. ControlOnce'
  BY <1>2 DEF ControlOnce, Unplug, kernel
<1>19. ListInv'
  BY <1>1, <1>2 DEF ListInv, Basics, KeepsFlags, Unplug, locks, thread, event, ghost
<1>20. ScanInv'
  BY <1>1, <1>2 DEF ScanInv, Dangling, Fills, Places, Basics, Submitting, KeepsFlags, Unplug,
         locks, thread, event, ghost
<1> QED
  BY <1>10, <1>11, <1>12, <1>13, <1>14, <1>15, <1>16, <1>17, <1>18, <1>19, <1>20

LEMMA SubmitTakeListKeeps ==
    ASSUME UInv, NEW p \in Threads, SubmitTakeList(p)
    PROVE  UInv'
<1> USE DEF UInv
<1>1. Basics
  BY TypesGiveBasics
<1>2. KeepsFlags /\ AddsNoFresh /\ HeadStays /\ \A s : FreshDone(s)' = FreshDone(s)
  BY ViewsStay DEF SubmitTakeList, kernel
<1>10. TypeOK'
  BY <1>1 DEF TypeOK, Basics, Pcs, SubmitTakeList, kernel, event, ghost, Go
<1>11. LocksExact'
  BY <1>1 DEF LocksExact, Basics, Pcs, SubmitTakeList, kernel, event, ghost, Go
<1>12. Places'
  BY <1>1 DEF Places, Basics, Threads, Submitting, SubmitTakeList, kernel, event, ghost, Go
<1>13. Counting'
  BY <1>1 DEF Counting, Basics, SubmitTakeList, kernel, event, ghost, Go
<1>14. OneSubmitter'
  BY <1>1 DEF OneSubmitter, Submits, Places, Basics, Submitting, SubmitTakeList, kernel,
         event, ghost, Go
<1>15. OneOwner'
  BY <1>1 DEF OneOwner, Owns, Places, Basics, Submitting, Threads, SubmitTakeList, kernel,
         event, ghost, Go
<1>16. HeldInv'
  BY <1>1, <1>2 DEF HeldInv, Basics, KeepsFlags, SubmitTakeList, kernel, event, ghost, Go
<1>17. FreshInv'
  BY <1>1, <1>2 DEF FreshInv, Fills, Basics, KeepsFlags, AddsNoFresh, HeadStays,
         SubmitTakeList, kernel, event, ghost, Go
<1>18. ControlOnce'
  BY <1>2 DEF ControlOnce, SubmitTakeList, kernel
<1>19. ListInv'
  BY <1>1, <1>2 DEF ListInv, Basics, KeepsFlags, SubmitTakeList, kernel, event, ghost, Go
<1>20. ScanInv'
  BY <1>1, <1>2 DEF ScanInv, Dangling, Fills, Places, Basics, Submitting, KeepsFlags,
         SubmitTakeList, kernel, event, ghost, Go
<1> QED
  BY <1>10, <1>11, <1>12, <1>13, <1>14, <1>15, <1>16, <1>17, <1>18, <1>19, <1>20

LEMMA SubmitBusyKeeps ==
    ASSUME UInv, NEW p \in Threads, SubmitBusy(p)
    PROVE  UInv'
<1> USE DEF UInv
<1>1. Basics
  BY TypesGiveBasics
<1>2. KeepsFlags /\ AddsNoFresh /\ HeadStays /\ \A s : FreshDone(s)' = FreshDone(s)
  BY ViewsStay DEF SubmitBusy, kernel
<1>3. back[p] \in {"rest", "wait", "unref"}
  BY <1>1 DEF Basics
<1>10. TypeOK'
  BY <1>1 DEF TypeOK, Basics, Pcs, SubmitBusy, kernel, event, ghost, Go
<1>11. LocksExact'
  BY <1>1 DEF LocksExact, Basics, Pcs, SubmitBusy, kernel, event, ghost, Go
<1>12. Places'
  BY <1>1 DEF Places, Basics, Threads, Submitting, SubmitBusy, kernel, event, ghost, Go
<1>13. Counting'
  BY <1>1 DEF Counting, Basics, SubmitBusy, kernel, event, ghost, Go
<1>14. OneSubmitter'
  BY <1>1 DEF OneSubmitter, Submits, Places, Basics, Submitting, SubmitBusy, kernel, event,
         ghost, Go
<1>15. OneOwner'
  BY <1>1 DEF OneOwner, Owns, Places, Basics, Submitting, Threads, SubmitBusy, kernel, event,
         ghost, Go
<1>16. HeldInv'
  BY <1>1, <1>2 DEF HeldInv, Basics, KeepsFlags, SubmitBusy, kernel, event, ghost, Go
<1>17. FreshInv'
  BY <1>1, <1>2, <1>3 DEF FreshInv, Fills, Basics, KeepsFlags, AddsNoFresh, HeadStays,
         SubmitBusy, kernel, event, ghost, Go
<1>18. ControlOnce'
  BY <1>2 DEF ControlOnce, SubmitBusy, kernel
<1>19. ListInv'
  BY <1>1, <1>2 DEF ListInv, Basics, KeepsFlags, SubmitBusy, kernel, event, ghost, Go
<1>20. ScanInv'
  BY <1>1, <1>2 DEF ScanInv, Dangling, Fills, Places, Basics, Submitting, KeepsFlags,
         SubmitBusy, kernel, event, ghost, Go
<1> QED
  BY <1>10, <1>11, <1>12, <1>13, <1>14, <1>15, <1>16, <1>17, <1>18, <1>19, <1>20

LEMMA SubmitUndoKeeps ==
    ASSUME UInv, NEW p \in Threads, SubmitUndo(p)
    PROVE  UInv'
<1> USE DEF UInv
<1>1. Basics
  BY TypesGiveBasics
<1>2. KeepsFlags /\ AddsNoFresh /\ HeadStays /\ \A s : FreshDone(s)' = FreshDone(s)
  BY ViewsStay DEF SubmitUndo, kernel
<1>10. TypeOK'
  BY <1>1 DEF TypeOK, Basics, Pcs, SubmitUndo, locks, kernel, event, ghost, Go
<1>11. LocksExact'
  BY <1>1 DEF LocksExact, Basics, Pcs, SubmitUndo, locks, kernel, event, ghost, Go
<1>12. Places'
  BY <1>1 DEF Places, Basics, Threads, Submitting, SubmitUndo, locks, kernel, event, ghost, Go
<1>13. Counting'
  BY <1>1 DEF Counting, Basics, SubmitUndo, locks, kernel, event, ghost, Go
<1>14. OneSubmitter'
  BY <1>1 DEF OneSubmitter, Submits, Places, Basics, Submitting, SubmitUndo, locks, kernel,
         event, ghost, Go
<1>15. OneOwner'
  BY <1>1, <1>2 DEF OneOwner, Owns, Places, Basics, Submitting, Threads, OneSubmitter,
         Submits, SubmitUndo, locks, kernel, event, ghost, Go
<1>16. HeldInv'
  BY <1>1, <1>2 DEF HeldInv, Basics, KeepsFlags, SubmitUndo, locks, kernel, event, ghost, Go
<1>17. FreshInv'
  BY <1>1, <1>2 DEF FreshInv, Fills, Basics, KeepsFlags, AddsNoFresh, HeadStays, SubmitUndo,
         locks, kernel, event, ghost, Go
<1>18. ControlOnce'
  BY <1>2 DEF ControlOnce, SubmitUndo, kernel
<1>19. ListInv'
  BY <1>1, <1>2 DEF ListInv, Basics, KeepsFlags, OneSubmitter, Submits, HeldInv, LocksExact,
         Submitting, SubmitUndo, locks, kernel, event, ghost, Go
<1>20. ScanInv'
  BY <1>1, <1>2 DEF ScanInv, Dangling, Fills, Places, Basics, Submitting, KeepsFlags,
         SubmitUndo, locks, kernel, event, ghost, Go
<1> QED
  BY <1>10, <1>11, <1>12, <1>13, <1>14, <1>15, <1>16, <1>17, <1>18, <1>19, <1>20

LEMMA TimeoutsEndKeeps ==
    ASSUME UInv, NEW p \in Threads, TimeoutsEnd(p)
    PROVE  UInv'
<1> USE DEF UInv
<1>1. Basics
  BY TypesGiveBasics
<1>2. KeepsFlags /\ AddsNoFresh /\ HeadStays /\ \A s : FreshDone(s)' = FreshDone(s)
  BY ViewsStay DEF TimeoutsEnd, kernel
<1>3. back[p] \in {"rest", "wait", "unref"}
  BY <1>1 DEF Basics
<1>10. TypeOK'
  BY <1>1 DEF TypeOK, Basics, Pcs, TimeoutsEnd, kernel, event, ghost, Go
<1>11. LocksExact'
  BY <1>1 DEF LocksExact, Basics, Pcs, TimeoutsEnd, kernel, event, ghost, Go
<1>12. Places'
  BY <1>1 DEF Places, Basics, Threads, Submitting, TimeoutsEnd, kernel, event, ghost, Go
<1>13. Counting'
  BY <1>1 DEF Counting, Basics, TimeoutsEnd, kernel, event, ghost, Go
<1>14. OneSubmitter'
  BY <1>1 DEF OneSubmitter, Submits, Places, Basics, Submitting, TimeoutsEnd, kernel, event,
         ghost, Go
<1>15. OneOwner'
  BY <1>1 DEF OneOwner, Owns, Places, Basics, Submitting, Threads, TimeoutsEnd, kernel, event,
         ghost, Go
<1>16. HeldInv'
  BY <1>1, <1>2 DEF HeldInv, Basics, KeepsFlags, TimeoutsEnd, kernel, event, ghost, Go
<1>17. FreshInv'
  BY <1>1, <1>2, <1>3 DEF FreshInv, Fills, Basics, KeepsFlags, AddsNoFresh, HeadStays,
         TimeoutsEnd, kernel, event, ghost, Go
<1>18. ControlOnce'
  BY <1>2 DEF ControlOnce, TimeoutsEnd, kernel
<1>19. ListInv'
  BY <1>1, <1>2 DEF ListInv, Basics, KeepsFlags, TimeoutsEnd, kernel, event, ghost, Go
<1>20. ScanInv'
  BY <1>1, <1>2 DEF ScanInv, Dangling, Fills, Places, Basics, Submitting, KeepsFlags,
         TimeoutsEnd, kernel, event, ghost, Go
<1> QED
  BY <1>10, <1>11, <1>12, <1>13, <1>14, <1>15, <1>16, <1>17, <1>18, <1>19, <1>20

LEMMA TimeoutsTakeListKeeps ==
    ASSUME UInv, NEW p \in Threads, TimeoutsTakeList(p)
    PROVE  UInv'
<1> USE DEF UInv
<1>1. Basics
  BY TypesGiveBasics
<1>2. KeepsFlags /\ AddsNoFresh /\ HeadStays /\ \A s : FreshDone(s)' = FreshDone(s)
  BY ViewsStay DEF TimeoutsTakeList, kernel
<1>10. TypeOK'
  BY <1>1 DEF TypeOK, Basics, Pcs, TimeoutsTakeList, kernel, event, ghost, Go
<1>11. LocksExact'
  BY <1>1 DEF LocksExact, Basics, Pcs, TimeoutsTakeList, kernel, event, ghost, Go
<1>12. Places'
  BY <1>1 DEF Places, Basics, Threads, Submitting, TimeoutsTakeList, kernel, event, ghost, Go
<1>13. Counting'
  BY <1>1 DEF Counting, Basics, TimeoutsTakeList, kernel, event, ghost, Go
<1>14. OneSubmitter'
  BY <1>1 DEF OneSubmitter, Submits, Places, Basics, Submitting, TimeoutsTakeList, kernel,
         event, ghost, Go
<1>15. OneOwner'
  BY <1>1 DEF OneOwner, Owns, Places, Basics, Submitting, Threads, TimeoutsTakeList, kernel,
         event, ghost, Go
<1>16. HeldInv'
  BY <1>1, <1>2 DEF HeldInv, Basics, KeepsFlags, TimeoutsTakeList, kernel, event, ghost, Go
<1>17. FreshInv'
  BY <1>1, <1>2 DEF FreshInv, Fills, Basics, KeepsFlags, AddsNoFresh, HeadStays,
         TimeoutsTakeList, kernel, event, ghost, Go
<1>18. ControlOnce'
  BY <1>2 DEF ControlOnce, TimeoutsTakeList, kernel
<1>19. ListInv'
  BY <1>1, <1>2 DEF ListInv, Basics, KeepsFlags, TimeoutsTakeList, kernel, event, ghost, Go
<1>20. ScanInv'
  BY <1>1, <1>2 DEF ScanInv, Dangling, Fills, Places, Basics, Submitting, KeepsFlags,
         TimeoutsTakeList, kernel, event, ghost, Go
<1> QED
  BY <1>10, <1>11, <1>12, <1>13, <1>14, <1>15, <1>16, <1>17, <1>18, <1>19, <1>20

LEMMA CancellationKeeps ==
    ASSUME UInv, Cancellation
    PROVE  UInv'
<1> USE DEF UInv
<1>1. Basics
  BY TypesGiveBasics
<1>2. KeepsFlags /\ AddsNoFresh /\ HeadStays /\ \A s : FreshDone(s)' = FreshDone(s)
  BY ViewsStay DEF Cancellation, kernel
<1>3. /\ \A q \in Threads : pc'[q] = pc[q] \/ (q = "E" /\ pc[q] = "late" /\ pc'[q] \in {"remove"})
      /\ UNCHANGED <<flying, fl, tl, cur, back, n, exp, todo, done, open>>
  BY <1>1 DEF Cancellation, Go, Basics, locks, kernel, event, ghost
<1>10. TypeOK'
  BY <1>1, <1>2 DEF TypeOK, Basics, Pcs, Statuses, Cancellation, locks, kernel, ghost, Go
<1>11. LocksExact'
  BY <1>3 DEF LocksExact
<1>12. Places'
  BY <1>1 DEF Places, Basics, Threads, Submitting, Cancellation, locks, kernel, ghost, Go
<1>13. Counting'
  BY <1>1 DEF Counting, Basics, Cancellation, locks, kernel, ghost, Go
<1>14. OneSubmitter'
  BY <1>1 DEF OneSubmitter, Submits, Places, Basics, Submitting, Cancellation, locks, kernel,
         ghost, Go
<1>15. OneOwner'
  BY <1>1 DEF OneOwner, Owns, Places, Basics, Submitting, Threads, Cancellation, locks,
         kernel, ghost, Go
<1>16. HeldInv'
  BY <1>1, <1>2 DEF HeldInv, Basics, KeepsFlags, Cancellation, locks, kernel, ghost, Go
<1>17. FreshInv'
  BY <1>1, <1>2, <1>3, FreshMoves
<1>18. ControlOnce'
  BY <1>2 DEF ControlOnce, Cancellation, kernel
<1>19. ListInv'
  BY <1>1, <1>2, <1>3 DEF ListInv, Basics, KeepsFlags
<1>20. ScanInv'
  BY <1>1, <1>2 DEF ScanInv, Dangling, Fills, Places, Basics, Submitting, KeepsFlags,
         Cancellation, locks, kernel, ghost, Go
<1> QED
  BY <1>10, <1>11, <1>12, <1>13, <1>14, <1>15, <1>16, <1>17, <1>18, <1>19, <1>20

LEMMA RemoveKeeps ==
    ASSUME UInv, Remove
    PROVE  UInv'
<1> USE DEF UInv
<1>1. Basics
  BY TypesGiveBasics
<1>2. KeepsFlags /\ AddsNoFresh /\ HeadStays /\ \A s : FreshDone(s)' = FreshDone(s)
  BY ViewsStay DEF Remove, kernel
<1>10. TypeOK'
  BY <1>1 DEF TypeOK, Basics, Pcs, Remove, locks, kernel, event, Go
<1>11. LocksExact'
  BY <1>1 DEF LocksExact, Basics, Pcs, Remove, locks, kernel, event, Go
<1>12. Places'
  BY <1>1 DEF Places, Basics, Threads, Submitting, Remove, locks, kernel, event, Go
<1>13. Counting'
  BY <1>1 DEF Counting, Basics, Remove, locks, kernel, event, Go
<1>14. OneSubmitter'
  BY <1>1 DEF OneSubmitter, Submits, Places, Basics, Submitting, Remove, locks, kernel, event,
         Go
<1>15. OneOwner'
  BY <1>1 DEF OneOwner, Owns, Places, Basics, Submitting, Threads, Remove, locks, kernel,
         event, Go
<1>16. HeldInv'
  BY <1>1, <1>2 DEF HeldInv, Basics, KeepsFlags, Remove, locks, kernel, event, Go
<1>17. FreshInv'
  BY <1>1, <1>2 DEF FreshInv, Fills, Basics, KeepsFlags, AddsNoFresh, HeadStays, Remove,
         locks, kernel, event, Go
<1>18. ControlOnce'
  BY <1>2 DEF ControlOnce, Remove, kernel
<1>19. ListInv'
  BY <1>1, <1>2 DEF ListInv, Basics, KeepsFlags, OneSubmitter, Submits, HeldInv, LocksExact,
         Submitting, Remove, locks, kernel, event, Go
<1>20. ScanInv'
  BY <1>1, <1>2 DEF ScanInv, Dangling, Fills, Places, Basics, Submitting, KeepsFlags, Remove,
         locks, kernel, event, Go
<1> QED
  BY <1>10, <1>11, <1>12, <1>13, <1>14, <1>15, <1>16, <1>17, <1>18, <1>19, <1>20

LEMMA CallbackKeeps ==
    ASSUME UInv, Callback
    PROVE  UInv'
<1> USE DEF UInv
<1>1. Basics
  BY TypesGiveBasics
<1>2. KeepsFlags /\ AddsNoFresh /\ HeadStays /\ \A s : FreshDone(s)' = FreshDone(s)
  BY ViewsStay DEF Callback, kernel
<1>10. TypeOK'
  <2>1. pc' \in [Threads -> Pcs] /\ back' \in [Threads -> {"rest", "wait", "unref"}]
    BY <1>1 DEF Callback, Go, Basics, Pcs
  <2>2. held' \in [Transfers -> Int] /\ out' \in Statuses
    BY <1>1 DEF Callback, Basics, Statuses
  <2> QED
    BY <2>1, <2>2 DEF Callback, locks, kernel, TypeOK, Pcs
<1>11. LocksExact'
  BY <1>1 DEF LocksExact, Basics, Pcs, Callback, locks, kernel, Go
<1>12. Places'
  BY <1>1 DEF Places, Basics, Threads, Submitting, Callback, locks, kernel, Go
<1>13. Counting'
  BY <1>1 DEF Counting, Basics, Callback, locks, kernel, Go
<1>14. OneSubmitter'
  BY <1>1, <1>2 DEF OneSubmitter, Submits, Places, Basics, Submitting, HeldInv, Callback,
         locks, kernel, Go
<1>15. OneOwner'
  BY <1>1, <1>2 DEF OneOwner, Owns, Places, Basics, Submitting, Threads, HeldInv, Callback,
         locks, kernel, Go
<1>16. HeldInv'
  BY <1>1, <1>2 DEF HeldInv, Basics, KeepsFlags, Callback, locks, kernel, Go
<1>17. FreshInv'
  <2>1. /\ \A q \in Threads : pc'[q] = pc[q] \/ (pc[q] = "callback" /\ pc'[q] \in {"unref", "list"})
        /\ UNCHANGED <<cur, n, done>>
    BY <1>1 DEF Callback, Go, Basics, kernel
  <2> QED
    BY <1>1, <1>2, <2>1, FreshMoves
<1>18. ControlOnce'
  BY <1>2 DEF ControlOnce, Callback, kernel
<1>19. ListInv'
  BY <1>1, <1>2 DEF ListInv, Basics, KeepsFlags, Callback, locks, kernel, Go
<1>20. ScanInv'
  BY <1>1, <1>2 DEF ScanInv, Dangling, Fills, Places, Basics, Submitting, KeepsFlags,
         Callback, locks, kernel, Go
<1> QED
  BY <1>10, <1>11, <1>12, <1>13, <1>14, <1>15, <1>16, <1>17, <1>18, <1>19, <1>20

LEMMA UnrefKeeps ==
    ASSUME UInv, Unref
    PROVE  UInv'
<1> USE DEF UInv
<1>1. Basics
  BY TypesGiveBasics
<1>2. KeepsFlags /\ AddsNoFresh /\ HeadStays /\ \A s : FreshDone(s)' = FreshDone(s)
  BY ViewsStay DEF Unref, kernel
<1>3. /\ \A q \in Threads : pc'[q] = pc[q] \/ (q = "E" /\ pc[q] = "unref" /\ pc'[q] \in {"scan", "reap"})
      /\ UNCHANGED <<flying, fl, tl, cur, back, n, exp, todo, done, open>>
  BY <1>1 DEF Unref, Go, Basics, locks, kernel, event, ghost
<1>10. TypeOK'
  <2>1. pc' \in [Threads -> Pcs]
    BY <1>1 DEF Unref, Go, Basics, Pcs
  <2>2. refs' \in Int
    BY DEF Unref, TypeOK
  <2>3. UNCHANGED <<flying, fl, tl, x, open, alive, queued, done, unplugged, cur, back, n, exp, poll, out, todo, held, accepted>>
    BY DEF Unref, locks, kernel, event, ghost
  <2> QED
    BY <2>1, <2>2, <2>3 DEF TypeOK, Pcs
<1>11. LocksExact'
  BY <1>3 DEF LocksExact
<1>12. Places'
  BY <1>1 DEF Places, Basics, Threads, Submitting, Unref, locks, kernel, event, ghost, Go
<1>13. Counting'
  BY <1>1 DEF Counting, Basics, Unref, locks, kernel, event, ghost, Go
<1>14. OneSubmitter'
  BY <1>1 DEF OneSubmitter, Submits, Places, Basics, Submitting, Unref, locks, kernel, event,
         ghost, Go
<1>15. OneOwner'
  BY <1>1 DEF OneOwner, Owns, Places, Basics, Submitting, Threads, Unref, locks, kernel,
         event, ghost, Go
<1>16. HeldInv'
  BY <1>1, <1>2 DEF HeldInv, Basics, KeepsFlags, Unref, locks, kernel, event, ghost, Go
<1>17. FreshInv'
  BY <1>1, <1>2, <1>3, FreshMoves
<1>18. ControlOnce'
  BY <1>2 DEF ControlOnce, Unref, kernel
<1>19. ListInv'
  BY <1>1, <1>2, <1>3 DEF ListInv, Basics, KeepsFlags
<1>20. ScanInv'
  BY <1>1, <1>2 DEF ScanInv, Dangling, Fills, Places, Basics, Submitting, KeepsFlags, Unref,
         locks, kernel, event, ghost, Go
<1> QED
  BY <1>10, <1>11, <1>12, <1>13, <1>14, <1>15, <1>16, <1>17, <1>18, <1>19, <1>20

LEMMA EventsStartKeeps ==
    ASSUME UInv, EventsStart
    PROVE  UInv'
<1> USE DEF UInv
<1>1. Basics
  BY TypesGiveBasics
<1>2. KeepsFlags /\ AddsNoFresh /\ HeadStays /\ \A s : FreshDone(s)' = FreshDone(s)
  BY ViewsStay DEF EventsStart, kernel
<1>3. /\ \A q \in Threads : pc'[q] = pc[q] \/ (q = "E" /\ pc[q] = "rest" /\ pc'[q] \in {"reap"})
      /\ UNCHANGED <<flying, fl, tl, cur, back, n, exp, todo, done, open>>
  BY <1>1 DEF EventsStart, Go, Basics, locks, kernel, event, ghost
<1>10. TypeOK'
  BY <1>1 DEF TypeOK, Basics, Pcs, EventsStart, locks, kernel, event, ghost, Go
<1>11. LocksExact'
  BY <1>3 DEF LocksExact
<1>12. Places'
  BY <1>1 DEF Places, Basics, Threads, Submitting, EventsStart, locks, kernel, event, ghost,
         Go
<1>13. Counting'
  BY <1>1 DEF Counting, Basics, EventsStart, locks, kernel, event, ghost, Go
<1>14. OneSubmitter'
  BY <1>1 DEF OneSubmitter, Submits, Places, Basics, Submitting, EventsStart, locks, kernel,
         event, ghost, Go
<1>15. OneOwner'
  BY <1>1 DEF OneOwner, Owns, Places, Basics, Submitting, Threads, EventsStart, locks, kernel,
         event, ghost, Go
<1>16. HeldInv'
  BY <1>1, <1>2 DEF HeldInv, Basics, KeepsFlags, EventsStart, locks, kernel, event, ghost, Go
<1>17. FreshInv'
  BY <1>1, <1>2, <1>3, FreshMoves
<1>18. ControlOnce'
  BY <1>2 DEF ControlOnce, EventsStart, kernel
<1>19. ListInv'
  BY <1>1, <1>2, <1>3 DEF ListInv, Basics, KeepsFlags
<1>20. ScanInv'
  BY <1>1, <1>2 DEF ScanInv, Dangling, Fills, Places, Basics, Submitting, KeepsFlags,
         EventsStart, locks, kernel, event, ghost, Go
<1> QED
  BY <1>10, <1>11, <1>12, <1>13, <1>14, <1>15, <1>16, <1>17, <1>18, <1>19, <1>20

LEMMA EventsErrorKeeps ==
    ASSUME UInv, EventsError
    PROVE  UInv'
<1> USE DEF UInv
<1>1. Basics
  BY TypesGiveBasics
<1>2. KeepsFlags /\ AddsNoFresh /\ HeadStays /\ \A s : FreshDone(s)' = FreshDone(s)
  BY ViewsStay DEF EventsError, kernel
<1>10. TypeOK'
  BY <1>1 DEF TypeOK, Basics, Pcs, EventsError, locks, kernel, ghost, Go
<1>11. LocksExact'
  BY <1>1 DEF LocksExact, Basics, Pcs, EventsError, locks, kernel, ghost, Go
<1>12. Places'
  BY <1>1 DEF Places, Basics, Threads, Submitting, EventsError, locks, kernel, ghost, Go
<1>13. Counting'
  BY <1>1 DEF Counting, Basics, EventsError, locks, kernel, ghost, Go
<1>14. OneSubmitter'
  BY <1>1 DEF OneSubmitter, Submits, Places, Basics, Submitting, EventsError, locks, kernel,
         ghost, Go
<1>15. OneOwner'
  BY <1>1 DEF OneOwner, Owns, Places, Basics, Submitting, Threads, EventsError, locks, kernel,
         ghost, Go
<1>16. HeldInv'
  BY <1>1, <1>2 DEF HeldInv, Basics, KeepsFlags, EventsError, locks, kernel, ghost, Go
<1>17. FreshInv'
  BY <1>1, <1>2 DEF FreshInv, Fills, Basics, KeepsFlags, AddsNoFresh, HeadStays, EventsError,
         locks, kernel, ghost, Go
<1>18. ControlOnce'
  BY <1>2 DEF ControlOnce, EventsError, kernel
<1>19. ListInv'
  BY <1>1, <1>2 DEF ListInv, Basics, KeepsFlags, EventsError, locks, kernel, ghost, Go
<1>20. ScanInv'
  BY <1>1, <1>2 DEF ScanInv, Dangling, Fills, Places, Basics, Submitting, KeepsFlags,
         EventsError, locks, kernel, ghost, Go
<1> QED
  BY <1>10, <1>11, <1>12, <1>13, <1>14, <1>15, <1>16, <1>17, <1>18, <1>19, <1>20

LEMMA ReapEndKeeps ==
    ASSUME UInv, ReapEnd
    PROVE  UInv'
<1> USE DEF UInv
<1>1. Basics
  BY TypesGiveBasics
<1>2. KeepsFlags /\ AddsNoFresh /\ HeadStays /\ \A s : FreshDone(s)' = FreshDone(s)
  BY ViewsStay DEF ReapEnd, kernel
<1>10. TypeOK'
  BY <1>1 DEF TypeOK, Basics, Pcs, ReapEnd, locks, kernel, ghost, Go
<1>11. LocksExact'
  BY <1>1 DEF LocksExact, Basics, Pcs, ReapEnd, locks, kernel, ghost, Go
<1>12. Places'
  BY <1>1 DEF Places, Basics, Threads, Submitting, ReapEnd, locks, kernel, ghost, Go
<1>13. Counting'
  BY <1>1 DEF Counting, Basics, ReapEnd, locks, kernel, ghost, Go
<1>14. OneSubmitter'
  BY <1>1 DEF OneSubmitter, Submits, Places, Basics, Submitting, ReapEnd, locks, kernel,
         ghost, Go
<1>15. OneOwner'
  BY <1>1 DEF OneOwner, Owns, Places, Basics, Submitting, Threads, ReapEnd, locks, kernel,
         ghost, Go
<1>16. HeldInv'
  BY <1>1, <1>2 DEF HeldInv, Basics, KeepsFlags, ReapEnd, locks, kernel, ghost, Go
<1>17. FreshInv'
  BY <1>1, <1>2 DEF FreshInv, Fills, Basics, KeepsFlags, AddsNoFresh, HeadStays, ReapEnd,
         locks, kernel, ghost, Go
<1>18. ControlOnce'
  BY <1>2 DEF ControlOnce, ReapEnd, kernel
<1>19. ListInv'
  BY <1>1, <1>2 DEF ListInv, Basics, KeepsFlags, ReapEnd, locks, kernel, ghost, Go
<1>20. ScanInv'
  BY <1>1, <1>2 DEF ScanInv, Dangling, Fills, Places, Basics, Submitting, KeepsFlags, ReapEnd,
         locks, kernel, ghost, Go
<1> QED
  BY <1>10, <1>11, <1>12, <1>13, <1>14, <1>15, <1>16, <1>17, <1>18, <1>19, <1>20

LEMMA ScanTakeListKeeps ==
    ASSUME UInv, ScanTakeList
    PROVE  UInv'
<1> USE DEF UInv
<1>1. Basics
  BY TypesGiveBasics
<1>2. KeepsFlags /\ AddsNoFresh /\ HeadStays /\ \A s : FreshDone(s)' = FreshDone(s)
  BY ViewsStay DEF ScanTakeList, kernel
<1>10. TypeOK'
  BY <1>1 DEF TypeOK, Basics, Pcs, ScanTakeList, kernel, ghost, Go
<1>11. LocksExact'
  BY <1>1 DEF LocksExact, Basics, Pcs, ScanTakeList, kernel, ghost, Go
<1>12. Places'
  BY <1>1 DEF Places, Basics, Threads, Submitting, ScanTakeList, kernel, ghost, Go
<1>13. Counting'
  BY <1>1 DEF Counting, Basics, ScanTakeList, kernel, ghost, Go
<1>14. OneSubmitter'
  BY <1>1 DEF OneSubmitter, Submits, Places, Basics, Submitting, ScanTakeList, kernel, ghost,
         Go
<1>15. OneOwner'
  BY <1>1 DEF OneOwner, Owns, Places, Basics, Submitting, Threads, ScanTakeList, kernel,
         ghost, Go
<1>16. HeldInv'
  BY <1>1, <1>2 DEF HeldInv, Basics, KeepsFlags, ScanTakeList, kernel, ghost, Go
<1>17. FreshInv'
  BY <1>1, <1>2 DEF FreshInv, Fills, Basics, KeepsFlags, AddsNoFresh, HeadStays, ScanTakeList,
         kernel, ghost, Go
<1>18. ControlOnce'
  BY <1>2 DEF ControlOnce, ScanTakeList, kernel
<1>19. ListInv'
  BY <1>1, <1>2 DEF ListInv, Basics, KeepsFlags, ScanTakeList, kernel, ghost, Go
<1>20. ScanInv'
  BY <1>1, <1>2 DEF ScanInv, Dangling, Fills, Places, Basics, Submitting, KeepsFlags, ListInv,
         ScanTakeList, kernel, ghost, Go
<1> QED
  BY <1>10, <1>11, <1>12, <1>13, <1>14, <1>15, <1>16, <1>17, <1>18, <1>19, <1>20

LEMMA ScanOneKeeps ==
    ASSUME UInv, NEW t \in Transfers, ScanOne(t)
    PROVE  UInv'
<1> USE DEF UInv
<1>1. Basics
  BY TypesGiveBasics
<1>2. KeepsFlags /\ AddsNoFresh /\ HeadStays /\ \A s : FreshDone(s)' = FreshDone(s)
  BY ViewsStay DEF ScanOne, kernel
<1>10. TypeOK'
  <2>1. pc' \in [Threads -> Pcs] /\ cur' \in [Threads -> Transfers]
    BY <1>1 DEF ScanOne, Go, Basics, Pcs
  <2>2. todo' \subseteq Transfers /\ fl' \in Threads \cup {"none"}
    BY <1>1 DEF ScanOne, Basics
  <2> QED
    BY <2>1, <2>2 DEF ScanOne, kernel, ghost, TypeOK, Pcs
<1>11. LocksExact'
  BY <1>1 DEF LocksExact, Basics, Pcs, ScanOne, kernel, ghost, Go
<1>12. Places'
  BY <1>1 DEF Places, Basics, Threads, Submitting, ScanOne, kernel, ghost, Go
<1>13. Counting'
  BY <1>1 DEF Counting, Basics, ScanOne, kernel, ghost, Go
<1>14. OneSubmitter'
  BY <1>1 DEF OneSubmitter, Submits, Places, Basics, Submitting, ScanOne, kernel, ghost, Go
<1>15. OneOwner'
  BY <1>1 DEF OneOwner, Owns, Places, Basics, Submitting, Threads, ScanOne, kernel, ghost, Go
<1>16. HeldInv'
  BY <1>1, <1>2 DEF HeldInv, Basics, KeepsFlags, ScanOne, kernel, ghost, Go
<1>17. FreshInv'
  <2>1. CASE ~InFlight(t)
    BY <1>1, <1>2, <2>1 DEF ScanOne, kernel, FreshInv, Fills, Basics, KeepsFlags, AddsNoFresh, HeadStays
  <2>2. CASE InFlight(t)
    <3>1. /\ pc["E"] = "scanning" /\ pc'["E"] = "clearpriv" /\ n' = n
          /\ \A q \in Threads \ {"E"} : pc'[q] = pc[q] /\ cur'[q] = cur[q]
      BY <1>1, <2>2 DEF ScanOne, Go, Basics
    <3> QED
      BY <1>1, <1>2, <3>1 DEF FreshInv, Fills, Basics, KeepsFlags, AddsNoFresh
  <2> QED
    BY <2>1, <2>2
<1>18. ControlOnce'
  BY <1>2 DEF ControlOnce, ScanOne, kernel
<1>19. ListInv'
  BY <1>1, <1>2 DEF ListInv, Basics, KeepsFlags, ScanOne, kernel, ghost, Go
<1>20. ScanInv'
  BY <1>1, <1>2 DEF ScanInv, Dangling, Fills, Places, Basics, Submitting, KeepsFlags,
         LocksExact, ScanOne, kernel, ghost, Go
<1> QED
  BY <1>10, <1>11, <1>12, <1>13, <1>14, <1>15, <1>16, <1>17, <1>18, <1>19, <1>20

LEMMA ScanEndKeeps ==
    ASSUME UInv, ScanEnd
    PROVE  UInv'
<1> USE DEF UInv
<1>1. Basics
  BY TypesGiveBasics
<1>2. KeepsFlags /\ AddsNoFresh /\ HeadStays /\ \A s : FreshDone(s)' = FreshDone(s)
  BY ViewsStay DEF ScanEnd, kernel
<1>10. TypeOK'
  BY <1>1 DEF TypeOK, Basics, Pcs, ScanEnd, kernel, ghost, Go
<1>11. LocksExact'
  BY <1>1 DEF LocksExact, Basics, Pcs, ScanEnd, kernel, ghost, Go
<1>12. Places'
  BY <1>1 DEF Places, Basics, Threads, Submitting, ScanEnd, kernel, ghost, Go
<1>13. Counting'
  BY <1>1 DEF Counting, Basics, ScanEnd, kernel, ghost, Go
<1>14. OneSubmitter'
  BY <1>1 DEF OneSubmitter, Submits, Places, Basics, Submitting, ScanEnd, kernel, ghost, Go
<1>15. OneOwner'
  BY <1>1 DEF OneOwner, Owns, Places, Basics, Submitting, Threads, ScanEnd, kernel, ghost, Go
<1>16. HeldInv'
  BY <1>1, <1>2 DEF HeldInv, Basics, KeepsFlags, ScanEnd, kernel, ghost, Go
<1>17. FreshInv'
  <2>1. /\ \A q \in Threads : pc'[q] = pc[q] \/ (pc[q] = "scanning" /\ pc'[q] = "rest")
        /\ UNCHANGED <<cur, n, done>>
    BY <1>1 DEF ScanEnd, Go, Basics, kernel
  <2> QED
    BY <1>1, <1>2, <2>1, FreshMoves
<1>18. ControlOnce'
  BY <1>2 DEF ControlOnce, ScanEnd, kernel
<1>19. ListInv'
  BY <1>1, <1>2 DEF ListInv, Basics, KeepsFlags, ScanEnd, kernel, ghost, Go
<1>20. ScanInv'
  BY <1>1, <1>2 DEF ScanInv, Dangling, Fills, Places, Basics, Submitting, KeepsFlags, ScanEnd,
         kernel, ghost, Go
<1> QED
  BY <1>10, <1>11, <1>12, <1>13, <1>14, <1>15, <1>16, <1>17, <1>18, <1>19, <1>20

LEMMA WaitEndsKeeps ==
    ASSUME UInv, NEW p \in Callers, WaitEnds(p)
    PROVE  UInv'
<1> USE DEF UInv
<1>1. Basics
  BY TypesGiveBasics
<1>2. KeepsFlags /\ AddsNoFresh /\ HeadStays /\ \A s : FreshDone(s)' = FreshDone(s)
  BY ViewsStay DEF WaitEnds, kernel
<1>10. TypeOK'
  BY <1>1 DEF TypeOK, Basics, Pcs, WaitEnds, locks, kernel, event, ghost, Go
<1>11. LocksExact'
  BY <1>1 DEF LocksExact, Basics, Pcs, WaitEnds, locks, kernel, event, ghost, Go
<1>12. Places'
  BY <1>1 DEF Places, Basics, Threads, Submitting, WaitEnds, locks, kernel, event, ghost, Go
<1>13. Counting'
  BY <1>1 DEF Counting, Basics, WaitEnds, locks, kernel, event, ghost, Go
<1>14. OneSubmitter'
  BY <1>1 DEF OneSubmitter, Submits, Places, Basics, Submitting, WaitEnds, locks, kernel,
         event, ghost, Go
<1>15. OneOwner'
  BY <1>1 DEF OneOwner, Owns, Places, Basics, Submitting, Threads, WaitEnds, locks, kernel,
         event, ghost, Go
<1>16. HeldInv'
  BY <1>1, <1>2 DEF HeldInv, Basics, KeepsFlags, WaitEnds, locks, kernel, event, ghost, Go
<1>17. FreshInv'
  BY <1>1, <1>2, SMTT(30) DEF FreshInv, Fills, Basics, KeepsFlags, AddsNoFresh, HeadStays, WaitEnds,
         locks, kernel, event, ghost, Go
<1>18. ControlOnce'
  BY <1>2 DEF ControlOnce, WaitEnds, kernel
<1>19. ListInv'
  BY <1>1, <1>2 DEF ListInv, Basics, KeepsFlags, WaitEnds, locks, kernel, event, ghost, Go
<1>20. ScanInv'
  BY <1>1, <1>2 DEF ScanInv, Dangling, Fills, Places, Basics, Submitting, KeepsFlags,
         WaitEnds, locks, kernel, event, ghost, Go
<1> QED
  BY <1>10, <1>11, <1>12, <1>13, <1>14, <1>15, <1>16, <1>17, <1>18, <1>19, <1>20

LEMMA SubmitCallKeeps ==
    ASSUME UInv, SingleUse, NEW p \in Threads, NEW t \in Bulk, SubmitCall(p, t)
    PROVE  UInv'
<1> USE DEF UInv
<1>1. Basics
  BY TypesGiveBasics
<1>2. KeepsFlags /\ AddsNoFresh /\ HeadStays /\ \A s : FreshDone(s)' = FreshDone(s)
  BY ViewsStay DEF SubmitCall, kernel
<1>10. TypeOK'
  BY <1>1 DEF TypeOK, Basics, Pcs, SubmitCall, locks, kernel, event, ghost, Go
<1>11. LocksExact'
  BY <1>1 DEF LocksExact, Basics, Pcs, SubmitCall, locks, kernel, event, ghost, Go
<1>12. Places'
  BY <1>1 DEF Places, Basics, Threads, Submitting, SubmitCall, locks, kernel, event, ghost, Go
<1>13. Counting'
  BY <1>1 DEF Counting, Basics, SubmitCall, locks, kernel, event, ghost, Go
<1>14. OneSubmitter'
  BY <1>1, <1>2 DEF OneSubmitter, Submits, Places, Basics, Submitting, SingleUse, HeldInv,
         SubmitCall, locks, kernel, event, ghost, Go
<1>15. OneOwner'
  BY <1>1 DEF OneOwner, Owns, Places, Basics, Submitting, Threads, SubmitCall, locks, kernel,
         event, ghost, Go
<1>16. HeldInv'
  BY <1>1, <1>2 DEF HeldInv, Basics, KeepsFlags, SubmitCall, locks, kernel, event, ghost, Go
<1>17. FreshInv'
  BY <1>1, <1>2 DEF FreshInv, Fills, Basics, KeepsFlags, AddsNoFresh, HeadStays, SubmitCall,
         locks, kernel, event, ghost, Go
<1>18. ControlOnce'
  BY <1>2 DEF ControlOnce, SubmitCall, kernel
<1>19. ListInv'
  BY <1>1, <1>2 DEF ListInv, Basics, KeepsFlags, SubmitCall, locks, kernel, event, ghost, Go
<1>20. ScanInv'
  BY <1>1, <1>2 DEF ScanInv, Dangling, Fills, Places, Basics, Submitting, KeepsFlags,
         SubmitCall, locks, kernel, event, ghost, Go
<1> QED
  BY <1>10, <1>11, <1>12, <1>13, <1>14, <1>15, <1>16, <1>17, <1>18, <1>19, <1>20

LEMMA ControlCallKeeps ==
    ASSUME UInv, NEW p \in Callers, NEW t \in Control, ControlCall(p, t)
    PROVE  UInv'
<1> USE DEF UInv
<1>1. Basics
  BY TypesGiveBasics
<1>2. KeepsFlags /\ AddsNoFresh /\ HeadStays /\ \A s : FreshDone(s)' = FreshDone(s)
  BY ViewsStay DEF ControlCall, kernel
<1>10. TypeOK'
  BY <1>1 DEF TypeOK, Basics, Pcs, ControlCall, locks, kernel, event, ghost, Go
<1>11. LocksExact'
  BY <1>1 DEF LocksExact, Basics, Pcs, ControlCall, locks, kernel, event, ghost, Go
<1>12. Places'
  BY <1>1 DEF Places, Basics, Threads, Submitting, ControlCall, locks, kernel, event, ghost,
         Go
<1>13. Counting'
  BY <1>1 DEF Counting, Basics, ControlCall, locks, kernel, event, ghost, Go
<1>14. OneSubmitter'
  BY <1>1, <1>2 DEF OneSubmitter, Submits, Places, Basics, Submitting, OneOwner, Owns,
         Threads, ControlCall, locks, kernel, event, ghost, Go
<1>15. OneOwner'
  BY <1>1 DEF OneOwner, Owns, Places, Basics, Submitting, Threads, ControlCall, locks, kernel,
         event, ghost, Go
<1>16. HeldInv'
  BY <1>1, <1>2 DEF HeldInv, Basics, KeepsFlags, ControlCall, locks, kernel, event, ghost, Go
<1>17. FreshInv'
  <2>1. /\ pc[p] = "rest" /\ pc'[p] = "list" /\ n' = n /\ p # "E" /\ p \in Threads /\ done' = done
        /\ \A q \in Threads \ {p} : pc'[q] = pc[q] /\ cur'[q] = cur[q]
    BY <1>1 DEF ControlCall, Go, Basics, kernel, Threads
  <2>2. \A q \in Threads, s \in Transfers : Fills(q, s) => Fills(q, s)'
    BY <2>1, Zenon DEF Fills
  <2>3. \A s \in Transfers : HasFresh(s)' =>
          HasUrbs(s)' /\ (InFlight(s)' \/ \E q \in Threads : Fills(q, s)')
    BY <1>2, <2>2 DEF FreshInv, KeepsFlags, AddsNoFresh
  <2>4. \A q \in Threads : pc'[q] = "urbs" /\ n'[q] = 1 => ~HasFresh(cur[q])' /\ cur'[q] = cur[q]
    BY <1>1, <1>2, <2>1 DEF FreshInv, Basics, AddsNoFresh
  <2>5. pc'["E"] \in {"late", "remove", "clear"} => ~HasUrbs(cur["E"])' /\ cur'["E"] = cur["E"]
    BY <1>1, <1>2, <2>1 DEF FreshInv, Basics, KeepsFlags
  <2>6. pc'["E"] = "complete" => done' # <<>> /\ Head(done')[3] /\ cur'["E"] = Head(done')[1]
    BY <1>1, <1>2, <2>1 DEF FreshInv, Basics
  <2>7. \A q \in Threads : pc'[q] \in {"urbs", "submitted"} => HasUrbs(cur[q])' /\ cur'[q] = cur[q]
    BY <1>1, <1>2, <2>1 DEF FreshInv, Basics, KeepsFlags
  <2> QED
    BY <2>3, <2>4, <2>5, <2>6, <2>7 DEF FreshInv
<1>18. ControlOnce'
  BY <1>2 DEF ControlOnce, ControlCall, kernel
<1>19. ListInv'
  BY <1>1, <1>2 DEF ListInv, Basics, KeepsFlags, ControlCall, locks, kernel, event, ghost, Go
<1>20. ScanInv'
  BY <1>1, <1>2 DEF ScanInv, Dangling, Fills, Places, Basics, Submitting, KeepsFlags,
         ControlCall, locks, kernel, event, ghost, Go
<1> QED
  BY <1>10, <1>11, <1>12, <1>13, <1>14, <1>15, <1>16, <1>17, <1>18, <1>19, <1>20

LEMMA CloseKeeps ==
    ASSUME UInv, Close
    PROVE  UInv'
<1> USE DEF UInv
<1>1. Basics
  BY TypesGiveBasics
<1>2. KeepsFlags /\ AddsNoFresh /\ HeadStays /\ \A s : FreshDone(s)' = FreshDone(s)
  BY ViewsStay DEF Close, kernel
<1>10. TypeOK'
  <2>1. open' \in BOOLEAN
    BY Zenon DEF Close
  <2>2. flying' \subseteq Transfers /\ refs' \in Int
    BY DEF Close, TypeOK
  <2> QED
    BY <2>1, <2>2 DEF Close, locks, kernel, thread, event, ghost, TypeOK
<1>11. LocksExact'
  BY <1>1 DEF LocksExact, Basics, Pcs, Close, locks, kernel, thread, event, ghost
<1>12. Places'
  BY <1>1 DEF Places, Basics, Threads, Submitting, Close, locks, kernel, thread, event, ghost
<1>13. Counting'
  BY <1>1 DEF Counting, Basics, Close, locks, kernel, thread, event, ghost
<1>14. OneSubmitter'
  BY <1>1 DEF OneSubmitter, Submits, Places, Basics, Submitting, Close, locks, kernel, thread,
         event, ghost
<1>15. OneOwner'
  BY <1>1 DEF OneOwner, Owns, Places, Basics, Submitting, Threads, Close, locks, kernel,
         thread, event, ghost
<1>16. HeldInv'
  BY <1>1, <1>2 DEF HeldInv, Basics, KeepsFlags, Close, locks, kernel, thread, event, ghost
<1>17. FreshInv'
  BY <1>1, <1>2 DEF FreshInv, Fills, Basics, KeepsFlags, AddsNoFresh, HeadStays, Close, locks,
         kernel, thread, event, ghost
<1>18. ControlOnce'
  BY <1>2 DEF ControlOnce, Close, kernel
<1>19. ListInv'
  BY <1>1, <1>2 DEF ListInv, Basics, KeepsFlags, Close, locks, kernel, thread, event, ghost
<1>20. ScanInv'
  BY <1>1, <1>2 DEF ScanInv, Dangling, Fills, Places, Basics, Submitting, KeepsFlags, Close,
         locks, kernel, thread, event, ghost
<1> QED
  BY <1>10, <1>11, <1>12, <1>13, <1>14, <1>15, <1>16, <1>17, <1>18, <1>19, <1>20

LEMMA SubmitEnlistKeeps ==
    ASSUME UInv, NEW p \in Threads, SubmitEnlist(p)
    PROVE  UInv'
<1> USE DEF UInv
<1>1. Basics
  BY TypesGiveBasics
<1>2. /\ pc[p] = "enlist" /\ ~InFlight(cur[p])
      /\ \A s \in Transfers : (InFlight(s)' <=> InFlight(s)) /\ (HasUrbs(s)' <=> HasUrbs(s) \/ s = cur[p])
      /\ AddsNoFresh /\ HeadStays /\ \A s : FreshDone(s)' = FreshDone(s)
  BY <1>1, FreshStay DEF SubmitEnlist, Basics, TypeOK, InFlight, HasUrbs, Idle, kernel
<1>3. ~HasFresh(cur[p])
  BY <1>1, <1>2 DEF FreshInv, Fills, OneSubmitter, Submits, Submitting, Basics
<1>10. TypeOK'
  <2> DEFINE r == [Idle EXCEPT !.urbs = TRUE]
  <2>1. x \in [Transfers -> Fields] /\ cur[p] \in Transfers
    BY <1>1 DEF TypeOK, Fields, Basics
  <2>2. r \in Fields
    BY <2>1 DEF Fields, Idle, Actions, Statuses
  <2>3. x' = [x EXCEPT ![cur[p]] = r]
    BY DEF SubmitEnlist
  <2> HIDE DEF r
  <2>4. x' \in [Transfers -> Fields]
    BY <2>1, <2>2, <2>3
  <2>5. /\ pc' \in [Threads -> Pcs] /\ cur' \in [Threads -> Transfers] /\ n' \in [Threads -> 1 .. U + 1]
        /\ fl' \in Threads \cup {"none"} /\ tl' \in [Transfers -> Threads \cup {"none"}]
        /\ flying' \subseteq Transfers /\ held' \in [Transfers -> Int] /\ refs' \in Int
    BY <1>1, SMTT(30) DEF SubmitEnlist, Go, Basics, Pcs, TypeOK, locks, kernel, thread, event, ghost
  <2> QED
    BY <2>4, <2>5 DEF SubmitEnlist, TypeOK, Pcs, Fields, locks, kernel, thread, event, ghost
<1>11. LocksExact'
  BY <1>1, <1>2 DEF LocksExact, Basics, Pcs, Submitting, SubmitEnlist, kernel, event, ghost,
         Go
<1>12. Places'
  BY <1>1 DEF Places, Basics, Threads, Submitting, SubmitEnlist, kernel, event, ghost, Go
<1>13. Counting'
  BY <1>1 DEF Counting, Basics, SubmitEnlist, kernel, event, ghost, Go
<1>14. OneSubmitter'
  BY <1>1 DEF OneSubmitter, Submits, Places, Basics, Submitting, SubmitEnlist, kernel, event,
         ghost, Go
<1>15. OneOwner'
  BY <1>1 DEF OneOwner, Owns, Places, Basics, Submitting, Threads, SubmitEnlist, kernel,
         event, ghost, Go
<1>16. HeldInv'
  BY <1>1, <1>2 DEF HeldInv, Basics, KeepsFlags, SubmitEnlist, kernel, event, ghost, Go
<1>17. FreshInv'
  BY <1>1, <1>2, <1>3 DEF FreshInv, Fills, Basics, KeepsFlags, AddsNoFresh, HeadStays,
         LocksExact, OneSubmitter, Submits, Submitting, HeldInv, Counting, SubmitEnlist,
         kernel, event, ghost, Go
<1>18. ControlOnce'
  BY <1>1, <1>2, <1>2 DEF ControlOnce, SubmitEnlist, kernel, event, ghost, Go
<1>19. ListInv'
  BY <1>1, <1>2, <1>3 DEF ListInv, Basics, KeepsFlags, LocksExact, OneSubmitter, Submits,
         Submitting, HeldInv, Counting, SubmitEnlist, kernel, event, ghost, Go
<1>20. ScanInv'
  BY <1>1, <1>2, <1>3 DEF ScanInv, Dangling, Fills, Places, Basics, Submitting, KeepsFlags,
         Counting, SubmitEnlist, kernel, event, ghost, Go
<1> QED
  BY <1>10, <1>11, <1>12, <1>13, <1>14, <1>15, <1>16, <1>17, <1>18, <1>19, <1>20

LEMMA UrbAcceptedKeeps ==
    ASSUME UInv, NEW p \in Threads, UrbAccepted(p)
    PROVE  UInv'
<1> USE DEF UInv
<1>1. Basics
  BY TypesGiveBasics
<1>2. /\ pc[p] = "urbs" /\ cur[p] \in Transfers /\ n[p] \in 1 .. Urbs(cur[p]) /\ KeepsFlags
      /\ \A s : FreshDone(s)' = FreshDone(s)
      /\ \A s \in Transfers : HasFresh(s)' => HasFresh(s) \/ s = cur[p]
      /\ HeadStays
  <2>1. pc[p] = "urbs" /\ cur[p] \in Transfers /\ n[p] \in 1 .. Urbs(cur[p])
    BY <1>1 DEF UrbAccepted, Basics, Counting
  <2>2. x' = x /\ done' = done /\ queued' = queued \cup {<<cur[p], n[p], TRUE>>}
    BY DEF UrbAccepted
  <2>3. \A s : FreshDone(s)' = FreshDone(s)
    BY <2>2 DEF FreshDone, FreshIn
  <2>4. \A s : s # cur[p] => (FreshQueued(s)' <=> FreshQueued(s))
    BY <2>2 DEF FreshQueued
  <2> QED
    BY <2>1, <2>2, <2>3, <2>4 DEF KeepsFlags, InFlight, HasUrbs, HasFresh, HeadStays
<1>10. TypeOK'
  <2>1. pc' \in [Threads -> Pcs] /\ n' \in [Threads -> 1 .. U + 1]
    BY <1>1, <1>2 DEF UrbAccepted, Go, Basics, Pcs
  <2>a. n[p] \in 1 .. U /\ TRUE \in BOOLEAN
    BY <1>1, <1>2 DEF Basics
  <2>2. <<cur[p], n[p], TRUE>> \in Transfers \X (1 .. U) \X BOOLEAN
    BY <1>2, <2>a
  <2>3. queued' \subseteq Transfers \X (1 .. U) \X BOOLEAN
    BY <2>2 DEF UrbAccepted, TypeOK
  <2> QED
    BY <2>1, <2>3 DEF UrbAccepted, TypeOK, Pcs, locks, event, ghost
<1>11. LocksExact'
  BY <1>1 DEF LocksExact, Basics, Pcs, UrbAccepted, locks, event, ghost, Go
<1>12. Places'
  BY <1>1 DEF Places, Basics, Threads, Submitting, UrbAccepted, locks, event, ghost, Go
<1>13. Counting'
  BY <1>1 DEF Counting, Basics, UrbAccepted, locks, event, ghost, Go
<1>14. OneSubmitter'
  BY <1>1 DEF OneSubmitter, Submits, Places, Basics, Submitting, UrbAccepted, locks, event,
         ghost, Go
<1>15. OneOwner'
  BY <1>1 DEF OneOwner, Owns, Places, Basics, Submitting, Threads, UrbAccepted, locks, event,
         ghost, Go
<1>16. HeldInv'
  BY <1>1, <1>2 DEF HeldInv, Basics, KeepsFlags, UrbAccepted, locks, event, ghost, Go
<1>17. FreshInv'
  BY <1>1, <1>2 DEF FreshInv, Fills, Basics, KeepsFlags, AddsNoFresh, HeadStays, OneSubmitter,
         Submits, Submitting, UrbAccepted, locks, event, ghost, Go
<1>18. ControlOnce'
  <2> SUFFICES ASSUME NEW s \in Control
      PROVE  /\ \A u \in Nat : <<s, u, TRUE>> \in queued' => u = 1 /\ FreshDone(s)' = {}
             /\ \A j, k \in FreshDone(s)' : j = k
    BY DEF ControlOnce
  <2>1. queued' = queued \cup {<<cur[p], n[p], TRUE>>}
    BY DEF UrbAccepted
  <2>2. s = cur[p] => n[p] = 1 /\ ~HasFresh(s)
    BY <1>1, <1>2 DEF Basics, FreshInv
  <2> QED
    BY <1>2, <2>1, <2>2 DEF ControlOnce, HasFresh
<1>19. ListInv'
  BY <1>1, <1>2 DEF ListInv, Basics, KeepsFlags, UrbAccepted, locks, event, ghost, Go
<1>20. ScanInv'
  BY <1>1, <1>2 DEF ScanInv, Dangling, Fills, Places, Basics, Submitting, KeepsFlags,
         UrbAccepted, locks, event, ghost, Go
<1> QED
  BY <1>10, <1>11, <1>12, <1>13, <1>14, <1>15, <1>16, <1>17, <1>18, <1>19, <1>20

LEMMA FirstUrbRefusedKeeps ==
    ASSUME UInv, NEW p \in Threads, FirstUrbRefused(p)
    PROVE  UInv'
<1> USE DEF UInv
<1>1. Basics
  BY TypesGiveBasics
<1>2. /\ pc[p] = "urbs" /\ n[p] = 1 /\ cur[p] \in Transfers
      /\ \A s \in Transfers : (InFlight(s)' <=> InFlight(s)) /\ (HasUrbs(s)' <=> HasUrbs(s) /\ s # cur[p])
      /\ AddsNoFresh /\ HeadStays /\ \A s : FreshDone(s)' = FreshDone(s)
  BY <1>1, FreshStay DEF FirstUrbRefused, Basics, TypeOK, InFlight, HasUrbs, kernel
<1>10. TypeOK'
  <2> DEFINE r == [x[cur[p]] EXCEPT !.urbs = FALSE]
  <2>1. x \in [Transfers -> Fields] /\ cur[p] \in Transfers
    BY <1>1 DEF TypeOK, Fields, Basics
  <2>2. r \in Fields
    BY <2>1, ZenonT(60) DEF Fields
  <2>3. x' = [x EXCEPT ![cur[p]] = r]
    BY DEF FirstUrbRefused
  <2> HIDE DEF r
  <2>4. x' \in [Transfers -> Fields]
    BY <2>1, <2>2, <2>3
  <2>5. /\ pc' \in [Threads -> Pcs] /\ cur' \in [Threads -> Transfers] /\ n' \in [Threads -> 1 .. U + 1]
        /\ fl' \in Threads \cup {"none"} /\ tl' \in [Transfers -> Threads \cup {"none"}]
        /\ flying' \subseteq Transfers /\ held' \in [Transfers -> Int] /\ refs' \in Int
    BY <1>1 DEF FirstUrbRefused, Go, Basics, Pcs, TypeOK, locks, kernel, thread, event, ghost
  <2> QED
    BY <2>4, <2>5 DEF FirstUrbRefused, TypeOK, Pcs, Fields, locks, kernel, thread, event, ghost
<1>11. LocksExact'
  BY <1>1 DEF LocksExact, Basics, Pcs, FirstUrbRefused, kernel, event, ghost, Go
<1>12. Places'
  BY <1>1 DEF Places, Basics, Threads, Submitting, FirstUrbRefused, kernel, event, ghost, Go
<1>13. Counting'
  BY <1>1 DEF Counting, Basics, FirstUrbRefused, kernel, event, ghost, Go
<1>14. OneSubmitter'
  BY <1>1 DEF OneSubmitter, Submits, Places, Basics, Submitting, FirstUrbRefused, kernel,
         event, ghost, Go
<1>15. OneOwner'
  BY <1>1 DEF OneOwner, Owns, Places, Basics, Submitting, Threads, FirstUrbRefused, kernel,
         event, ghost, Go
<1>16. HeldInv'
  BY <1>1, <1>2 DEF HeldInv, Basics, KeepsFlags, FirstUrbRefused, kernel, event, ghost, Go
<1>17. FreshInv'
  BY <1>1, <1>2 DEF FreshInv, Fills, Basics, KeepsFlags, AddsNoFresh, HeadStays, OneSubmitter,
         Submits, Submitting, FirstUrbRefused, kernel, event, ghost, Go
<1>18. ControlOnce'
  BY <1>1, <1>2 DEF ControlOnce, FirstUrbRefused, kernel, event, ghost, Go
<1>19. ListInv'
  BY <1>1, <1>2 DEF ListInv, Basics, KeepsFlags, OneSubmitter, Submits, Submitting,
         FirstUrbRefused, kernel, event, ghost, Go
<1>20. ScanInv'
  BY <1>1, <1>2 DEF ScanInv, Dangling, Fills, Places, Basics, Submitting, KeepsFlags,
         FirstUrbRefused, kernel, event, ghost, Go
<1> QED
  BY <1>10, <1>11, <1>12, <1>13, <1>14, <1>15, <1>16, <1>17, <1>18, <1>19, <1>20

LEMMA SubmittedKeeps ==
    ASSUME UInv, NEW p \in Threads, Submitted(p)
    PROVE  UInv'
<1> USE DEF UInv
<1>1. Basics
  BY TypesGiveBasics
<1>2. /\ pc[p] = "submitted" /\ cur[p] \in Transfers /\ held[cur[p]] = 0
      /\ \A s \in Transfers : (InFlight(s)' <=> InFlight(s) \/ s = cur[p]) /\ (HasUrbs(s)' <=> HasUrbs(s))
      /\ AddsNoFresh /\ HeadStays /\ \A s : FreshDone(s)' = FreshDone(s)
  BY <1>1, FreshStay, SMTT(30) DEF Submitted, Basics, TypeOK, InFlight, HasUrbs, kernel, OneSubmitter, Submitting
<1>10. TypeOK'
  <2> DEFINE r == [x[cur[p]] EXCEPT !.flags = @ \cup {"IN_FLIGHT"}]
  <2>1. x \in [Transfers -> Fields] /\ cur[p] \in Transfers
    BY <1>1 DEF TypeOK, Fields, Basics
  <2>2. r \in Fields
    BY <2>1 DEF Fields
  <2>3. x' = [x EXCEPT ![cur[p]] = r]
    BY DEF Submitted
  <2> HIDE DEF r
  <2>4. x' \in [Transfers -> Fields]
    BY <2>1, <2>2, <2>3
  <2>5. /\ pc' \in [Threads -> Pcs] /\ cur' \in [Threads -> Transfers] /\ n' \in [Threads -> 1 .. U + 1]
        /\ fl' \in Threads \cup {"none"} /\ tl' \in [Transfers -> Threads \cup {"none"}]
        /\ flying' \subseteq Transfers /\ held' \in [Transfers -> Int] /\ refs' \in Int
    <3>1. pc' \in [Threads -> Pcs] /\ cur' \in [Threads -> Transfers] /\ n' \in [Threads -> 1 .. U + 1]
      BY <1>1, SMTT(30) DEF Submitted, Go, Basics, Pcs, TypeOK, locks, kernel, thread, event, ghost
    <3>2. held' \in [Transfers -> Int] /\ refs' \in Int
      BY <1>1, SMTT(30) DEF Submitted, Basics, TypeOK
    <3>3. fl' \in Threads \cup {"none"} /\ tl' \in [Transfers -> Threads \cup {"none"}] /\ flying' \subseteq Transfers
      BY <1>1 DEF Submitted, Basics, TypeOK
    <3> QED
      BY <3>1, <3>2, <3>3
  <2> QED
    BY <2>4, <2>5 DEF Submitted, TypeOK, Pcs, Fields, locks, kernel, thread, event, ghost
<1>11. LocksExact'
  BY <1>1 DEF LocksExact, Basics, Pcs, Submitted, kernel, event, Go
<1>12. Places'
  BY <1>1 DEF Places, Basics, Threads, Submitting, Submitted, kernel, event, Go
<1>13. Counting'
  BY <1>1 DEF Counting, Basics, Submitted, kernel, event, Go
<1>14. OneSubmitter'
  BY <1>1 DEF OneSubmitter, Submits, Places, Basics, Submitting, Submitted, kernel, event, Go
<1>15. OneOwner'
  BY <1>1 DEF OneOwner, Owns, Places, Basics, Submitting, Threads, Submitted, kernel, event,
         Go
<1>16. HeldInv'
  BY <1>1, <1>2 DEF HeldInv, Basics, KeepsFlags, Submitted, kernel, event, Go
<1>17. FreshInv'
  <2>1. /\ pc'[p] \in {"rest", "wait", "unref"} /\ cur' = cur /\ done' = done
        /\ \A q \in Threads \ {p} : pc'[q] = pc[q] /\ n'[q] = n[q]
    BY <1>1 DEF Submitted, Go, Basics, kernel
  <2>2. \A s \in Transfers : HasFresh(s)' =>
          HasUrbs(s)' /\ (InFlight(s)' \/ \E q \in Threads : Fills(q, s)')
    <3> SUFFICES ASSUME NEW s \in Transfers, HasFresh(s)'
        PROVE HasUrbs(s)' /\ (InFlight(s)' \/ \E q \in Threads : Fills(q, s)')
      OBVIOUS
    <3>1. HasUrbs(s)' /\ (InFlight(s) \/ \E q \in Threads : Fills(q, s))
      BY <1>2 DEF FreshInv, AddsNoFresh
    <3>2. \A q \in Threads : Fills(q, s) => s = cur[p] \/ Fills(q, s)'
      BY <2>1, Zenon DEF Fills
    <3> QED
      BY <1>2, <3>1, <3>2
  <2>3. \A q \in Threads : pc'[q] = "urbs" /\ n'[q] = 1 => ~HasFresh(cur[q])' /\ cur'[q] = cur[q]
    BY <1>1, <1>2, <2>1 DEF FreshInv, Basics, AddsNoFresh
  <2>4. \A q \in Threads : pc'[q] \in {"urbs", "submitted"} => HasUrbs(cur[q])' /\ cur'[q] = cur[q]
    BY <1>1, <1>2, <2>1 DEF FreshInv, Basics
  <2>5. pc'["E"] \in {"late", "remove", "clear", "complete"} =>
          pc'["E"] = pc["E"] /\ cur'["E"] \in Transfers
    BY <1>1, <2>1 DEF Basics
  <2> QED
    BY <1>2, <2>1, <2>2, <2>3, <2>4, <2>5 DEF FreshInv
<1>18. ControlOnce'
  BY <1>1, <1>2 DEF ControlOnce, Submitted, kernel, event, Go
<1>19. ListInv'
  BY <1>1, <1>2 DEF ListInv, Basics, KeepsFlags, Submitted, kernel, event, Go
<1>20. ScanInv'
  BY <1>1, <1>2 DEF ScanInv, Dangling, Fills, Places, Basics, Submitting, KeepsFlags,
         Submitted, kernel, event, Go
<1> QED
  BY <1>10, <1>11, <1>12, <1>13, <1>14, <1>15, <1>16, <1>17, <1>18, <1>19, <1>20

LEMMA TimeoutMarkKeeps ==
    ASSUME UInv, NEW p \in Threads, TimeoutMark(p)
    PROVE  UInv'
<1> USE DEF UInv
<1>1. Basics
  BY TypesGiveBasics
<1>2. KeepsFlags /\ AddsNoFresh /\ HeadStays /\ \A s : FreshDone(s)' = FreshDone(s)
  BY <1>1, FreshStay DEF TimeoutMark, Basics, TypeOK, InFlight, HasUrbs, KeepsFlags, kernel
<1>10. TypeOK'
  <2> DEFINE r == [x[exp] EXCEPT !.expiry = @ \cup {"TIMED_OUT"}]
  <2>1. x \in [Transfers -> Fields] /\ exp \in Transfers
    BY <1>1 DEF TypeOK, Fields, Basics
  <2>2. r \in Fields
    BY <2>1 DEF Fields
  <2>3. x' = [x EXCEPT ![exp] = r]
    BY DEF TimeoutMark
  <2> HIDE DEF r
  <2>4. x' \in [Transfers -> Fields]
    BY <2>1, <2>2, <2>3
  <2>5. /\ pc' \in [Threads -> Pcs] /\ cur' \in [Threads -> Transfers] /\ n' \in [Threads -> 1 .. U + 1]
        /\ fl' \in Threads \cup {"none"} /\ tl' \in [Transfers -> Threads \cup {"none"}]
        /\ flying' \subseteq Transfers /\ held' \in [Transfers -> Int] /\ refs' \in Int
    BY <1>1 DEF TimeoutMark, Go, Basics, Pcs, TypeOK, locks, kernel, thread, event, ghost
  <2> QED
    BY <2>4, <2>5 DEF TimeoutMark, TypeOK, Pcs, Fields, locks, kernel, thread, event, ghost
<1>11. LocksExact'
  BY <1>1 DEF LocksExact, Basics, Pcs, TimeoutMark, locks, kernel, event, ghost, Go
<1>12. Places'
  BY <1>1 DEF Places, Basics, Threads, Submitting, TimeoutMark, locks, kernel, event, ghost,
         Go
<1>13. Counting'
  BY <1>1 DEF Counting, Basics, TimeoutMark, locks, kernel, event, ghost, Go
<1>14. OneSubmitter'
  BY <1>1 DEF OneSubmitter, Submits, Places, Basics, Submitting, TimeoutMark, locks, kernel,
         event, ghost, Go
<1>15. OneOwner'
  BY <1>1 DEF OneOwner, Owns, Places, Basics, Submitting, Threads, TimeoutMark, locks, kernel,
         event, ghost, Go
<1>16. HeldInv'
  BY <1>1, <1>2 DEF HeldInv, Basics, KeepsFlags, TimeoutMark, locks, kernel, event, ghost, Go
<1>17. FreshInv'
  BY <1>1, <1>2 DEF FreshInv, Fills, Basics, KeepsFlags, AddsNoFresh, HeadStays, TimeoutMark,
         locks, kernel, event, ghost, Go
<1>18. ControlOnce'
  BY <1>1, <1>2 DEF ControlOnce, TimeoutMark, locks, kernel, event, ghost, Go
<1>19. ListInv'
  BY <1>1, <1>2 DEF ListInv, Basics, KeepsFlags, TimeoutMark, locks, kernel, event, ghost, Go
<1>20. ScanInv'
  BY <1>1, <1>2 DEF ScanInv, Dangling, Fills, Places, Basics, Submitting, KeepsFlags,
         TimeoutMark, locks, kernel, event, ghost, Go
<1> QED
  BY <1>10, <1>11, <1>12, <1>13, <1>14, <1>15, <1>16, <1>17, <1>18, <1>19, <1>20

LEMMA ClearInFlightKeeps ==
    ASSUME UInv, ClearInFlight
    PROVE  UInv'
<1> USE DEF UInv
<1>1. Basics
  BY TypesGiveBasics
<1>2. /\ pc["E"] = "clear" /\ cur["E"] \in Transfers /\ ~HasFresh(cur["E"])
      /\ \A s \in Transfers : (InFlight(s)' <=> InFlight(s) /\ s # cur["E"]) /\ (HasUrbs(s)' <=> HasUrbs(s))
      /\ AddsNoFresh /\ HeadStays /\ \A s : FreshDone(s)' = FreshDone(s)
  <2>1. pc["E"] = "clear" /\ cur["E"] \in Transfers /\ ~HasFresh(cur["E"])
    BY <1>1 DEF ClearInFlight, Basics, FreshInv
  <2> QED
    BY <1>1, <2>1, FreshStay DEF ClearInFlight, Basics, TypeOK, InFlight, HasUrbs, kernel
<1>10. TypeOK'
  <2> DEFINE r == [x[cur["E"]] EXCEPT !.flags = @ \ {"IN_FLIGHT"}]
  <2>1. x \in [Transfers -> Fields] /\ cur["E"] \in Transfers
    BY <1>1 DEF TypeOK, Fields, Basics
  <2>2. r \in Fields
    BY <2>1 DEF Fields
  <2>3. x' = [x EXCEPT ![cur["E"]] = r]
    BY DEF ClearInFlight
  <2> HIDE DEF r
  <2>4. x' \in [Transfers -> Fields]
    BY <2>1, <2>2, <2>3
  <2>5. /\ pc' \in [Threads -> Pcs] /\ cur' \in [Threads -> Transfers] /\ n' \in [Threads -> 1 .. U + 1]
        /\ fl' \in Threads \cup {"none"} /\ tl' \in [Transfers -> Threads \cup {"none"}]
        /\ flying' \subseteq Transfers /\ held' \in [Transfers -> Int] /\ refs' \in Int
    BY <1>1 DEF ClearInFlight, Go, Basics, Pcs, TypeOK, locks, kernel, thread, event, ghost
  <2> QED
    BY <2>4, <2>5 DEF ClearInFlight, TypeOK, Pcs, Fields, locks, kernel, thread, event, ghost
<1>11. LocksExact'
  BY <1>1 DEF LocksExact, Basics, Pcs, ClearInFlight, locks, kernel, event, ghost, Go
<1>12. Places'
  BY <1>1 DEF Places, Basics, Threads, Submitting, ClearInFlight, locks, kernel, event, ghost,
         Go
<1>13. Counting'
  BY <1>1 DEF Counting, Basics, ClearInFlight, locks, kernel, event, ghost, Go
<1>14. OneSubmitter'
  BY <1>1 DEF OneSubmitter, Submits, Places, Basics, Submitting, ClearInFlight, locks, kernel,
         event, ghost, Go
<1>15. OneOwner'
  BY <1>1 DEF OneOwner, Owns, Places, Basics, Submitting, Threads, ClearInFlight, locks,
         kernel, event, ghost, Go
<1>16. HeldInv'
  BY <1>1, <1>2 DEF HeldInv, Basics, KeepsFlags, ClearInFlight, locks, kernel, event, ghost,
         Go
<1>17. FreshInv'
  BY <1>1, <1>2 DEF FreshInv, Fills, Basics, KeepsFlags, AddsNoFresh, HeadStays,
         ClearInFlight, locks, kernel, event, ghost, Go
<1>18. ControlOnce'
  BY <1>1, <1>2 DEF ControlOnce, ClearInFlight, locks, kernel, event, ghost, Go
<1>19. ListInv'
  BY <1>1, <1>2 DEF ListInv, Basics, KeepsFlags, ClearInFlight, locks, kernel, event, ghost,
         Go
<1>20. ScanInv'
  BY <1>1, <1>2 DEF ScanInv, Dangling, Fills, Places, Basics, Submitting, KeepsFlags,
         ClearInFlight, locks, kernel, event, ghost, Go
<1> QED
  BY <1>10, <1>11, <1>12, <1>13, <1>14, <1>15, <1>16, <1>17, <1>18, <1>19, <1>20

LEMMA KernelCompletesKeeps ==
    ASSUME UInv, NEW e \in queued, NEW st \in UrbStatus, KernelCompletes(e, st)
    PROVE  UInv'
<1> USE DEF UInv
<1>1. Basics
  BY TypesGiveBasics
<1>2. /\ KeepsFlags /\ AddsNoFresh /\ HeadStays /\ done' \in Seq(Endings)
      /\ queued' = queued \ {e} /\ e \in Transfers \X (1 .. U) \X BOOLEAN
      /\ \A s : FreshDone(s)' = FreshDone(s) \cup (IF e[1] = s /\ e[3] THEN {Len(done) + 1} ELSE {})
      /\ e[2] \in Nat /\ (e[3] => e = <<e[1], e[2], TRUE>>)
  <2>1. e \in Transfers \X (1 .. U) \X BOOLEAN
    BY DEF TypeOK
  <2>0. e = <<e[1], e[2], e[3]>> /\ e[2] \in Nat /\ (e[3] => e[3] = TRUE)
    <3>1. e = <<e[1], e[2], e[3]>> /\ e[2] \in 1 .. U /\ e[3] \in BOOLEAN
      BY <2>1
    <3>2. e[3] => e[3] = TRUE
      BY <3>1, Zenon
    <3> QED
      BY <3>1, <3>2, <1>1 DEF Basics
  <2>2. PICK m \in Endings : m = <<e[1], e[2], e[3], st>>
    BY <2>1 DEF Endings
  <2>3. done' = Append(done, m) /\ done \in Seq(Endings)
    BY <2>2 DEF KernelCompletes, TypeOK, Endings
  <2>4. /\ done' \in Seq(Endings)
        /\ \A s : FreshDone(s)' = FreshDone(s) \cup (IF m[1] = s /\ m[3] THEN {Len(done) + 1} ELSE {})
        /\ HeadStays
    BY <2>3, FreshAppend
  <2>5. x' = x /\ queued' = queued \ {e}
    BY DEF KernelCompletes
  <2>6. m[1] = e[1] /\ m[3] = e[3]
    BY <2>1, <2>2
  <2>7. AddsNoFresh
    <3> SUFFICES ASSUME NEW s \in Transfers, HasFresh(s)' PROVE HasFresh(s)
      BY DEF AddsNoFresh
    <3>1. CASE FreshQueued(s)'
      BY <2>5, <3>1 DEF HasFresh, FreshQueued
    <3>2. CASE FreshDone(s)' # {} /\ FreshDone(s) = {}
      <4>1. e[1] = s /\ e[3]
        BY <2>4, <2>6, <3>2
      <4>2. e = <<s, e[2], TRUE>> /\ e[2] \in Nat
        BY <2>0, <4>1
      <4> QED
        BY <4>2 DEF HasFresh, FreshQueued
    <3> QED
      BY <3>1, <3>2 DEF HasFresh
  <2> QED
    BY <2>0, <2>1, <2>4, <2>5, <2>6, <2>7 DEF KeepsFlags, InFlight, HasUrbs
<1>3. UNCHANGED <<flying, fl, tl, pc, cur, n, exp, todo, open>>
  BY DEF KernelCompletes, locks, thread, event
<1>10. TypeOK'
  BY <1>1, <1>2 DEF KernelCompletes, TypeOK, Endings, locks, thread, event, ghost
<1>11. LocksExact'
  BY <1>1 DEF LocksExact, Basics, Pcs, KernelCompletes, locks, thread, event, ghost
<1>12. Places'
  BY <1>1 DEF Places, Basics, Threads, Submitting, KernelCompletes, locks, thread, event,
         ghost
<1>13. Counting'
  BY <1>1 DEF Counting, Basics, KernelCompletes, locks, thread, event, ghost
<1>14. OneSubmitter'
  BY <1>1 DEF OneSubmitter, Submits, Places, Basics, Submitting, KernelCompletes, locks,
         thread, event, ghost
<1>15. OneOwner'
  BY <1>1 DEF OneOwner, Owns, Places, Basics, Submitting, Threads, KernelCompletes, locks,
         thread, event, ghost
<1>16. HeldInv'
  BY <1>1, <1>2 DEF HeldInv, Basics, KeepsFlags, KernelCompletes, locks, thread, event, ghost
<1>17. FreshInv'
  <2>1. pc["E"] = "complete" => done' # <<>> /\ Head(done')[3] /\ cur["E"] = Head(done')[1]
    BY <1>2 DEF FreshInv, HeadStays
  <2> QED
    BY <1>1, <1>2, <1>3, <2>1 DEF FreshInv, Fills, Basics, KeepsFlags, AddsNoFresh
<1>18. ControlOnce'
  <2> SUFFICES ASSUME NEW s \in Control
      PROVE  /\ \A u \in Nat : <<s, u, TRUE>> \in queued' => u = 1 /\ FreshDone(s)' = {}
             /\ \A j, k \in FreshDone(s)' : j = k
    BY DEF ControlOnce
  <2>1. /\ \A u \in Nat : <<s, u, TRUE>> \in queued => u = 1 /\ FreshDone(s) = {}
        /\ \A j, k \in FreshDone(s) : j = k
    BY DEF ControlOnce
  <2>2. CASE e[1] = s /\ e[3]
    <3>1. e = <<s, e[2], TRUE>> /\ e[2] \in Nat
      BY <1>2, <2>2
    <3>2. e = <<s, 1, TRUE>> /\ FreshDone(s) = {}
      BY <2>1, <3>1
    <3> QED
      BY <1>2, <2>1, <2>2, <3>2
  <2>3. CASE ~(e[1] = s /\ e[3])
    BY <1>2, <2>1, <2>3
  <2> QED
    BY <2>2, <2>3
<1>19. ListInv'
  <2>1. flying \subseteq Transfers
    BY <1>1 DEF Basics
  <2>2. \A s \in flying : InFlight(s)' \/ \E q \in Threads : cur'[q] = s /\ pc'[q] \in {"urbs", "submitted", "undo"}
    BY <1>2, <1>3, <2>1 DEF ListInv, KeepsFlags
  <2> QED
    BY <1>2, <1>3, <2>2 DEF ListInv, KeepsFlags
<1>20. ScanInv'
  BY <1>1, <1>2 DEF ScanInv, Dangling, Fills, Places, Basics, Submitting, KeepsFlags,
         KernelCompletes, locks, thread, event, ghost
<1> QED
  BY <1>10, <1>11, <1>12, <1>13, <1>14, <1>15, <1>16, <1>17, <1>18, <1>19, <1>20

LEMMA ReapKeeps ==
    ASSUME UInv, Reap
    PROVE  UInv'
<1> USE DEF UInv
<1>1. Basics
  BY TypesGiveBasics
<1>2. /\ KeepsFlags /\ AddsNoFresh /\ done' \in Seq(Endings) /\ pc["E"] = "reap" /\ queued' = queued
      /\ \/ pc' = pc /\ \A s : \A k \in FreshDone(s)' : k + 1 \in FreshDone(s)
         \/ /\ pc' = [pc EXCEPT !["E"] = "complete"] /\ done' = done /\ done # <<>> /\ Head(done)[3]
            /\ \A s : FreshDone(s)' = FreshDone(s)
      /\ cur' = [cur EXCEPT !["E"] = Head(done)[1]] /\ Head(done)[1] \in Transfers
  <2>1. done \in Seq(Endings) /\ done # <<>> /\ Head(done) \in Endings
    BY DEF Reap, Reapable, TypeOK, Endings
  <2>2. KeepsFlags /\ queued' = queued /\ Head(done)[1] \in Transfers /\ pc["E"] = "reap"
    BY <2>1 DEF Reap, KeepsFlags, InFlight, HasUrbs, Endings
  <2>3. CASE Head(done)[3]
    <3>1. done' = done /\ pc' = [pc EXCEPT !["E"] = "complete"]
      BY <2>3 DEF Reap, Go
    <3> QED
      BY <2>1, <2>2, <2>3, <3>1, FreshStay DEF Reap
  <2>4. CASE ~Head(done)[3]
    <3>1. done' = Tail(done) /\ pc' = pc
      BY <2>4 DEF Reap
    <3>a. Tail(done) \in Seq(Endings)
      BY <2>1
    <3>2. PICK q \in Seq(Endings) : q = Tail(done)
      BY <3>a, Zenon
    <3>3. \A s : \A k \in Nat : k \in FreshIn(q, s) <=> k \in Nat \ {0} /\ k + 1 \in FreshDone(s)
      BY <2>1, <3>2, FreshTail
    <3>4. \A s : \A k \in FreshDone(s)' : k + 1 \in FreshDone(s)
      <4> SUFFICES ASSUME NEW s, NEW k \in FreshIn(q, s) PROVE k + 1 \in FreshDone(s)
        BY <3>1, <3>2 DEF FreshDone
      <4>1. k \in Nat
        BY <3>2 DEF FreshIn
      <4> QED
        BY <3>3, <4>1
    <3>5. AddsNoFresh
      BY <2>2, <3>4 DEF AddsNoFresh, HasFresh, FreshQueued
    <3> QED
      BY <2>1, <2>2, <3>1, <3>2, <3>4, <3>5 DEF Reap
  <2> QED
    BY <2>3, <2>4
<1>3. /\ \A q \in Threads \ {"E"} : cur'[q] = cur[q] /\ pc'[q] = pc[q]
      /\ pc'["E"] \in {"reap", "complete"} /\ cur'["E"] = Head(done)[1] /\ n' = n /\ flying' = flying
      /\ todo' = todo /\ open' = open /\ poll' = poll /\ exp' = exp /\ unplugged' = unplugged
      /\ \A q \in Threads, s \in Transfers : Fills(q, s)' <=> Fills(q, s)
  BY <1>1, <1>2 DEF Reap, Basics, event, Fills
<1>10. TypeOK'
  <2>1. pc' \in [Threads -> Pcs] /\ cur' \in [Threads -> Transfers]
    BY <1>1, <1>2 DEF Basics, Pcs
  <2> QED
    BY <1>2, <2>1 DEF Reap, TypeOK, Pcs, Endings, locks, event, ghost
<1>11. LocksExact'
  BY <1>1 DEF LocksExact, Basics, Pcs, Reap, locks, event, ghost, Go
<1>12. Places'
  BY <1>1 DEF Places, Basics, Threads, Submitting, Reap, locks, event, ghost, Go
<1>13. Counting'
  BY <1>1 DEF Counting, Basics, Reap, locks, event, ghost, Go
<1>14. OneSubmitter'
  BY <1>1 DEF OneSubmitter, Submits, Places, Basics, Submitting, Reap, locks, event, ghost, Go
<1>15. OneOwner'
  BY <1>1 DEF OneOwner, Owns, Places, Basics, Submitting, Threads, Reap, locks, event, ghost,
         Go
<1>16. HeldInv'
  BY <1>1, <1>2 DEF HeldInv, Basics, KeepsFlags, Reap, locks, event, ghost, Go
<1>17. FreshInv'
  <2>1. \A s \in Transfers : HasFresh(s)' =>
          HasUrbs(s)' /\ (InFlight(s)' \/ \E q \in Threads : Fills(q, s)')
    BY <1>2, <1>3 DEF FreshInv, KeepsFlags, AddsNoFresh
  <2>2. \A q \in Threads : pc'[q] = "urbs" /\ n'[q] = 1 => ~HasFresh(cur[q])'
    BY <1>1, <1>2, <1>3 DEF FreshInv, Basics, AddsNoFresh
  <2>3. \A q \in Threads : pc'[q] \in {"urbs", "submitted"} => HasUrbs(cur[q])'
    BY <1>1, <1>2, <1>3 DEF FreshInv, Basics, KeepsFlags
  <2>4. pc'["E"] = "complete" => done' # <<>> /\ Head(done')[3] /\ cur'["E"] = Head(done')[1]
    BY <1>1, <1>2, <1>3 DEF Basics
  <2> QED
    BY <1>3, <2>1, <2>2, <2>3, <2>4 DEF FreshInv
<1>18. ControlOnce'
  <2> SUFFICES ASSUME NEW s \in Control
      PROVE  /\ \A u \in Nat : <<s, u, TRUE>> \in queued' => u = 1 /\ FreshDone(s)' = {}
             /\ \A j, k \in FreshDone(s)' : j = k
    BY DEF ControlOnce
  <2>1. /\ \A u \in Nat : <<s, u, TRUE>> \in queued => u = 1 /\ FreshDone(s) = {}
        /\ \A j, k \in FreshDone(s) : j = k
    BY DEF ControlOnce
  <2>2. FreshDone(s)' \subseteq Int
    <3>1. DOMAIN done' \subseteq Int
      BY <1>2
    <3> QED
      BY <3>1 DEF FreshDone, FreshIn
  <2>3. CASE \A k \in FreshDone(s)' : k + 1 \in FreshDone(s)
    <3>1. \A j, k \in FreshDone(s)' : j + 1 = k + 1
      BY <2>1, <2>3
    <3>2. \A j \in FreshDone(s)' : j \in Int
      BY <2>2
    <3>3. \A j, k \in FreshDone(s)' : j = k
      BY <3>1, <3>2
    <3>4. \A u \in Nat : <<s, u, TRUE>> \in queued' => u = 1 /\ FreshDone(s)' = {}
      BY <1>2, <2>1, <2>3
    <3> QED
      BY <3>3, <3>4
  <2>4. CASE FreshDone(s)' = FreshDone(s)
    BY <1>2, <2>1, <2>4
  <2> QED
    BY <1>2, <2>3, <2>4
<1>19. ListInv'
  <2>1. \A q \in Threads : pc[q] \in {"urbs", "submitted", "undo", "mark"} =>
          pc'[q] = pc[q] /\ cur'[q] = cur[q]
    BY <1>1, <1>2, <1>3 DEF Basics
  <2>2. \A t \in flying : InFlight(t)' \/ \E q \in Threads : cur'[q] = t /\ pc'[q] \in {"urbs", "submitted", "undo"}
    <3> TAKE t \in flying
    <3>1. InFlight(t) \/ \E q \in Threads : cur[q] = t /\ pc[q] \in {"urbs", "submitted", "undo"}
      BY DEF ListInv
    <3> QED
      BY <1>1, <1>2, <2>1, <3>1 DEF Basics, KeepsFlags
  <2>3. \A q \in Threads : /\ pc'[q] \in {"urbs", "submitted"} => cur'[q] \in flying
                           /\ pc'[q] = "mark" => exp \in flying
    BY <1>1, <1>2, <1>3 DEF Basics, ListInv
  <2>4. open => \A t \in Transfers : InFlight(t)' => t \in flying
    BY <1>1, <1>2 DEF ListInv, KeepsFlags
  <2> QED
    BY <1>2, <1>3, <2>2, <2>3, <2>4 DEF ListInv
<1>20. ScanInv'
  BY <1>1, <1>2 DEF ScanInv, Dangling, Fills, Places, Basics, Submitting, KeepsFlags, Reap,
         locks, event, ghost, Go
<1> QED
  BY <1>10, <1>11, <1>12, <1>13, <1>14, <1>15, <1>16, <1>17, <1>18, <1>19, <1>20

LEMMA CancelTransferKeeps ==
    ASSUME UInv, NEW p \in Threads, NEW t \in Bulk, NEW st \in {"full", "unlinked"}, CancelTransfer(p,
           t, st)
    PROVE  UInv'
<1> USE DEF UInv
<1>1. Basics
  BY TypesGiveBasics
<1>2. /\ KeepsFlags /\ AddsNoFresh /\ HeadStays /\ ControlOnce' /\ queued' \subseteq queued
      /\ x' \in [Transfers -> Fields] /\ accepted' \in [Transfers -> {"none", "user", "timeout"}]
      /\ done' \in Seq(Endings)
  BY CancelKeeps DEF CancelTransfer, Cancelled, Transfers
<1>10. TypeOK'
  <2>1. pc' \in [Threads -> Pcs]
    BY <1>1 DEF CancelTransfer, Go, Basics, Pcs, thread
  <2>2. queued' \subseteq Transfers \X (1 .. U) \X BOOLEAN
    BY <1>2 DEF TypeOK
  <2>3. UNCHANGED <<flying, fl, tl, refs, open, alive, unplugged, cur, back, n, poll, out, todo, held>> /\ exp' \in Transfers
    BY <1>1 DEF CancelTransfer, locks, thread, event, TypeOK, Basics
  <2> QED
    BY <1>2, <2>1, <2>2, <2>3 DEF TypeOK, Pcs, Fields, Endings
<1>11. LocksExact'
  BY <1>1 DEF LocksExact, Basics, Pcs, CancelTransfer, locks, thread, event
<1>12. Places'
  BY <1>1 DEF Places, Basics, Threads, Submitting, CancelTransfer, locks, thread, event
<1>13. Counting'
  BY <1>1 DEF Counting, Basics, CancelTransfer, locks, thread, event
<1>14. OneSubmitter'
  BY <1>1 DEF OneSubmitter, Submits, Places, Basics, Submitting, CancelTransfer, locks,
         thread, event
<1>15. OneOwner'
  BY <1>1 DEF OneOwner, Owns, Places, Basics, Submitting, Threads, CancelTransfer, locks,
         thread, event
<1>16. HeldInv'
  BY <1>1, <1>2 DEF HeldInv, Basics, KeepsFlags, CancelTransfer, locks, thread, event
<1>17. FreshInv'
  BY <1>1, <1>2 DEF FreshInv, Fills, Basics, KeepsFlags, AddsNoFresh, HeadStays,
         CancelTransfer, locks, thread, event
<1>18. ControlOnce'
  BY <1>2
<1>19. ListInv'
  BY <1>1, <1>2 DEF ListInv, Basics, KeepsFlags, CancelTransfer, locks, thread, event
<1>20. ScanInv'
  BY <1>1, <1>2 DEF ScanInv, Dangling, Fills, Places, Basics, Submitting, KeepsFlags,
         CancelTransfer, locks, thread, event
<1> QED
  BY <1>10, <1>11, <1>12, <1>13, <1>14, <1>15, <1>16, <1>17, <1>18, <1>19, <1>20

LEMMA SyncCancelKeeps ==
    ASSUME UInv, NEW p \in Callers, NEW st \in {"full", "unlinked"}, SyncCancel(p, st)
    PROVE  UInv'
<1> USE DEF UInv
<1>1. Basics
  BY TypesGiveBasics
<1>2. /\ KeepsFlags /\ AddsNoFresh /\ HeadStays /\ ControlOnce' /\ queued' \subseteq queued
      /\ x' \in [Transfers -> Fields] /\ accepted' \in [Transfers -> {"none", "user", "timeout"}]
      /\ done' \in Seq(Endings)
  <2>1. PICK t \in Transfers : t = cur[p]
    BY <1>1 DEF Basics, Threads
  <2> QED
    BY <2>1, CancelKeeps DEF SyncCancel, Cancelled
<1>10. TypeOK'
  <2>1. pc' \in [Threads -> Pcs]
    BY <1>1 DEF SyncCancel, Go, Basics, Pcs, thread
  <2>2. queued' \subseteq Transfers \X (1 .. U) \X BOOLEAN
    BY <1>2 DEF TypeOK
  <2>3. UNCHANGED <<flying, fl, tl, refs, open, alive, unplugged, cur, back, n, poll, out, todo, held>> /\ exp' \in Transfers
    BY <1>1 DEF SyncCancel, locks, thread, event, TypeOK, Basics
  <2> QED
    BY <1>2, <2>1, <2>2, <2>3 DEF TypeOK, Pcs, Fields, Endings
<1>11. LocksExact'
  BY <1>1 DEF LocksExact, Basics, Pcs, SyncCancel, locks, thread, event
<1>12. Places'
  BY <1>1 DEF Places, Basics, Threads, Submitting, SyncCancel, locks, thread, event
<1>13. Counting'
  BY <1>1 DEF Counting, Basics, SyncCancel, locks, thread, event
<1>14. OneSubmitter'
  BY <1>1 DEF OneSubmitter, Submits, Places, Basics, Submitting, SyncCancel, locks, thread,
         event
<1>15. OneOwner'
  BY <1>1 DEF OneOwner, Owns, Places, Basics, Submitting, Threads, SyncCancel, locks, thread,
         event
<1>16. HeldInv'
  BY <1>1, <1>2 DEF HeldInv, Basics, KeepsFlags, SyncCancel, locks, thread, event
<1>17. FreshInv'
  BY <1>1, <1>2 DEF FreshInv, Fills, Basics, KeepsFlags, AddsNoFresh, HeadStays, SyncCancel,
         locks, thread, event
<1>18. ControlOnce'
  BY <1>2
<1>19. ListInv'
  BY <1>1, <1>2 DEF ListInv, Basics, KeepsFlags, SyncCancel, locks, thread, event
<1>20. ScanInv'
  BY <1>1, <1>2 DEF ScanInv, Dangling, Fills, Places, Basics, Submitting, KeepsFlags,
         SyncCancel, locks, thread, event
<1> QED
  BY <1>10, <1>11, <1>12, <1>13, <1>14, <1>15, <1>16, <1>17, <1>18, <1>19, <1>20

LEMMA HandleTimeoutKeeps ==
    ASSUME UInv, NEW p \in Threads, NEW t \in Control, NEW st \in {"full", "unlinked"},
           HandleTimeout(p, t, st)
    PROVE  UInv'
<1> USE DEF UInv
<1>1. Basics
  BY TypesGiveBasics
<1>2. /\ KeepsFlags /\ AddsNoFresh /\ HeadStays /\ ControlOnce' /\ queued' \subseteq queued
      /\ x' \in [Transfers -> Fields] /\ accepted' \in [Transfers -> {"none", "user", "timeout"}]
      /\ done' \in Seq(Endings)
  BY CancelKeeps DEF HandleTimeout, Cancelled, Transfers
<1>3. t \in flying
  BY DEF HandleTimeout, Expired
<1>10. TypeOK'
  <2>1. pc' \in [Threads -> Pcs]
    BY <1>1 DEF HandleTimeout, Go, Basics, Pcs, thread
  <2>2. queued' \subseteq Transfers \X (1 .. U) \X BOOLEAN
    BY <1>2 DEF TypeOK
  <2>3. UNCHANGED <<flying, fl, tl, refs, open, alive, unplugged, cur, back, n, poll, out, todo, held>> /\ exp' \in Transfers
    BY <1>1 DEF HandleTimeout, locks, thread, event, TypeOK, Basics
  <2> QED
    BY <1>2, <2>1, <2>2, <2>3 DEF TypeOK, Pcs, Fields, Endings
<1>11. LocksExact'
  BY <1>1 DEF LocksExact, Basics, Pcs, HandleTimeout, locks, event, Go
<1>12. Places'
  BY <1>1 DEF Places, Basics, Threads, Submitting, HandleTimeout, locks, event, Go
<1>13. Counting'
  BY <1>1 DEF Counting, Basics, HandleTimeout, locks, event, Go
<1>14. OneSubmitter'
  BY <1>1 DEF OneSubmitter, Submits, Places, Basics, Submitting, HandleTimeout, locks, event,
         Go
<1>15. OneOwner'
  BY <1>1 DEF OneOwner, Owns, Places, Basics, Submitting, Threads, HandleTimeout, locks,
         event, Go
<1>16. HeldInv'
  BY <1>1, <1>2 DEF HeldInv, Basics, KeepsFlags, HandleTimeout, locks, event, Go
<1>17. FreshInv'
  BY <1>1, <1>2, SMTT(30) DEF FreshInv, Fills, Basics, KeepsFlags, AddsNoFresh, HeadStays,
         HandleTimeout, locks, event, Go
<1>18. ControlOnce'
  BY <1>2
<1>19. ListInv'
  <2>1. /\ flying' = flying /\ todo' = todo /\ cur' = cur /\ open' = open
        /\ \A q \in Threads : pc'[q] = pc[q] \/ (pc[q] = "expire" /\ pc'[q] \in {"expire", "mark"})
        /\ exp' = t
    BY <1>1, <1>3 DEF HandleTimeout, Go, Basics, event
  <2>2. \A s \in flying : InFlight(s)' \/ \E q \in Threads : cur'[q] = s /\ pc'[q] \in {"urbs", "submitted", "undo"}
    <3> TAKE s \in flying
    <3>1. InFlight(s) \/ \E q \in Threads : cur[q] = s /\ pc[q] \in {"urbs", "submitted", "undo"}
      BY DEF ListInv
    <3> QED
      BY <1>1, <1>2, <2>1, <3>1 DEF Basics, KeepsFlags
  <2>3. \A q \in Threads : /\ pc'[q] \in {"urbs", "submitted"} => cur'[q] \in flying
                           /\ pc'[q] = "mark" => exp' \in flying
    BY <1>1, <2>1, <1>3 DEF Basics, ListInv
  <2>4. open => \A s \in Transfers : InFlight(s)' => s \in flying \/ (pc'["E"] = "clear" /\ cur["E"] = s)
    BY <1>1, <1>2, <2>1 DEF ListInv, KeepsFlags, Basics
  <2>5. /\ pc'["E"] = "clear" => cur["E"] \notin flying
        /\ pc'["E"] # "scanning" => todo = {}
    BY <1>1, <2>1 DEF ListInv, Basics
  <2> QED
    BY <2>1, <2>2, <2>3, <2>4, <2>5 DEF ListInv
<1>20. ScanInv'
  BY <1>1, <1>2 DEF ScanInv, Dangling, Fills, Places, Basics, Submitting, KeepsFlags,
         HandleTimeout, locks, event, Go
<1> QED
  BY <1>10, <1>11, <1>12, <1>13, <1>14, <1>15, <1>16, <1>17, <1>18, <1>19, <1>20

LEMMA LaterUrbRefusedKeeps ==
    ASSUME UInv, NEW p \in Threads, NEW st \in {"full", "unlinked"}, LaterUrbRefused(p, st)
    PROVE  UInv'
<1> USE DEF UInv
<1>1. Basics
  BY TypesGiveBasics
<1>2. /\ KeepsFlags /\ AddsNoFresh /\ HeadStays /\ ControlOnce' /\ queued' \subseteq queued
      /\ x' \in [Transfers -> Fields] /\ done' \in Seq(Endings)
      /\ pc[p] = "urbs" /\ n[p] > 1 /\ cur[p] \in Transfers
  <2>1. /\ pc[p] = "urbs" /\ cur[p] \in Transfers /\ n[p] \in 1 .. Urbs(cur[p]) /\ n[p] > 1
        /\ Urbs(cur[p]) \in 1 .. U
    BY <1>1 DEF LaterUrbRefused, Basics, Counting
  <2>2. cur[p] \notin Control
    BY <1>1, <2>1 DEF Basics
  <2>3. PICK t \in Transfers, l \in 1 .. U : t = cur[p] /\ l = n[p] - 1 /\ t \notin Control
    <3>1. n[p] - 1 \in 1 .. U
      BY <1>1, <2>1 DEF Basics
    <3> QED
      BY <2>1, <2>2, <3>1, Zenon
  <2>4. PICK a \in Actions, m \in Nat :
          /\ x' = [x EXCEPT ![t].action = a, ![t].retired = m]
          /\ \/ UNCHANGED kernel
             \/ Discard(t, 1, l, st, done)
    <3>1. x[t].retired + Urbs(t) - n[p] + 1 \in Nat
      <4>1. x[t].retired \in Nat
        BY DEF TypeOK
      <4> QED
        BY <2>1, <2>3, <4>1
    <3>2. {"COMPLETED_EARLY", "SUBMIT_FAILED"} \subseteq Actions
      BY DEF Actions
    <3> QED
      BY <2>3, <3>1, <3>2 DEF LaterUrbRefused
  <2>5. x \in [Transfers -> Fields]
    BY DEF TypeOK, Fields
  <2>6. [x[t] EXCEPT !.action = a, !.retired = m] \in Fields
    BY <2>5 DEF Fields
  <2>7. x' \in [Transfers -> Fields] /\ KeepsFlags
    BY <2>4, <2>5, <2>6 DEF Fields, KeepsFlags, InFlight, HasUrbs
  <2>8. CASE UNCHANGED kernel
    <3>1. AddsNoFresh /\ HeadStays /\ queued' = queued /\ done' = done /\ \A s : FreshDone(s)' = FreshDone(s)
      BY <2>8, FreshStay DEF kernel
    <3>2. ControlOnce'
      BY <3>1 DEF ControlOnce
    <3> QED
      BY <2>1, <2>7, <3>1, <3>2 DEF TypeOK, Endings
  <2>9. CASE Discard(t, 1, l, st, done)
    BY <2>1, <2>3, <2>7, <2>9, DiscardKeeps
  <2> QED
    BY <2>4, <2>8, <2>9
<1>10. TypeOK'
  <2>1. pc' \in [Threads -> Pcs]
    BY <1>1 DEF LaterUrbRefused, Go, Basics, Pcs
  <2>2. queued' \subseteq Transfers \X (1 .. U) \X BOOLEAN
    BY <1>2 DEF TypeOK
  <2>3. UNCHANGED <<flying, fl, tl, refs, open, alive, unplugged, cur, back, n, exp, poll, out, todo, held, accepted>>
    BY DEF LaterUrbRefused, locks, event, ghost, kernel
  <2> QED
    BY <1>2, <2>1, <2>2, <2>3 DEF TypeOK, Pcs, Fields, Endings
<1>11. LocksExact'
  BY <1>1 DEF LocksExact, Basics, Pcs, LaterUrbRefused, locks, kernel, event, ghost, Go
<1>12. Places'
  BY <1>1 DEF Places, Basics, Threads, Submitting, LaterUrbRefused, locks, kernel, event,
         ghost, Go
<1>13. Counting'
  BY <1>1 DEF Counting, Basics, LaterUrbRefused, locks, kernel, event, ghost, Go
<1>14. OneSubmitter'
  BY <1>1 DEF OneSubmitter, Submits, Places, Basics, Submitting, LaterUrbRefused, locks,
         kernel, event, ghost, Go
<1>15. OneOwner'
  BY <1>1 DEF OneOwner, Owns, Places, Basics, Submitting, Threads, LaterUrbRefused, locks,
         kernel, event, ghost, Go
<1>16. HeldInv'
  BY <1>1, <1>2 DEF HeldInv, Basics, KeepsFlags, LaterUrbRefused, locks, kernel, event, ghost,
         Go
<1>17. FreshInv'
  BY <1>1, <1>2, SMTT(30) DEF FreshInv, Fills, Basics, KeepsFlags, AddsNoFresh, HeadStays,
         LaterUrbRefused, locks, kernel, event, ghost, Go
<1>18. ControlOnce'
  BY <1>2
<1>19. ListInv'
  <2>1. /\ flying' = flying /\ todo' = todo /\ cur' = cur /\ open' = open
        /\ \A q \in Threads : pc'[q] = pc[q] \/ (pc[q] = "urbs" /\ pc'[q] \in {"submitted"})
        /\ exp' = exp
    BY <1>1 DEF LaterUrbRefused, Go, Basics, event
  <2>2. \A s \in flying : InFlight(s)' \/ \E q \in Threads : cur'[q] = s /\ pc'[q] \in {"urbs", "submitted", "undo"}
    <3> TAKE s \in flying
    <3>1. InFlight(s) \/ \E q \in Threads : cur[q] = s /\ pc[q] \in {"urbs", "submitted", "undo"}
      BY DEF ListInv
    <3> QED
      BY <1>1, <1>2, <2>1, <3>1 DEF Basics, KeepsFlags
  <2>3. \A q \in Threads : /\ pc'[q] \in {"urbs", "submitted"} => cur'[q] \in flying
                           /\ pc'[q] = "mark" => exp' \in flying
    BY <1>1, <2>1 DEF Basics, ListInv
  <2>4. open => \A s \in Transfers : InFlight(s)' => s \in flying \/ (pc'["E"] = "clear" /\ cur["E"] = s)
    BY <1>1, <1>2, <2>1 DEF ListInv, KeepsFlags, Basics
  <2>5. /\ pc'["E"] = "clear" => cur["E"] \notin flying
        /\ pc'["E"] # "scanning" => todo = {}
    BY <1>1, <2>1 DEF ListInv, Basics
  <2> QED
    BY <2>1, <2>2, <2>3, <2>4, <2>5 DEF ListInv
<1>20. ScanInv'
  BY <1>1, <1>2, SMTT(30) DEF ScanInv, Dangling, Fills, Places, Basics, Submitting, KeepsFlags,
         LaterUrbRefused, locks, kernel, event, ghost, Go
<1> QED
  BY <1>10, <1>11, <1>12, <1>13, <1>14, <1>15, <1>16, <1>17, <1>18, <1>19, <1>20

LEMMA ControlCompletionKeeps ==
    ASSUME UInv, ControlCompletion
    PROVE  UInv'
<1> USE DEF UInv
<1>1. Basics
  BY TypesGiveBasics
<1>2. /\ pc["E"] = "complete" /\ cur["E"] \in Transfers /\ InFlight(cur["E"]) /\ tl[cur["E"]] = "none"
      /\ pc' = [pc EXCEPT !["E"] = IF x[cur["E"]].action = "CANCELLED" THEN "late" ELSE "remove"]
      /\ \A s \in Transfers : /\ InFlight(s)' <=> InFlight(s)
                              /\ HasUrbs(s)' <=> HasUrbs(s) /\ s # cur["E"]
                              /\ HasFresh(s)' => HasFresh(s) /\ s # cur["E"]
      /\ x' \in [Transfers -> Fields] /\ out' \in Statuses /\ done' \in Seq(Endings)
      /\ queued' \subseteq Transfers \X (1 .. U) \X BOOLEAN /\ ControlOnce'
  <2>1. PICK t \in Transfers, q \in Seq(Endings) : Handled(t, q)
    BY HeadIsFresh DEF ControlCompletion
  <2>2. /\ x' = [x EXCEPT ![t].urbs = FALSE] /\ done' = q /\ queued' = queued /\ t \in Control
        /\ tl[t] = "none" /\ pc["E"] = "complete" /\ out' = ControlStatus(Head(done)[4])
        /\ pc' = [pc EXCEPT !["E"] = IF x[t].action = "CANCELLED" THEN "late" ELSE "remove"]
    BY <2>1 DEF ControlCompletion, Handled, Go
  <2>3. out' \in Statuses
    BY <2>2 DEF ControlStatus, Statuses
  <2>a. x \in [Transfers -> Fields]
    BY DEF TypeOK, Fields
  <2>4. x \in [Transfers -> Fields] /\ [x[t] EXCEPT !.urbs = FALSE] \in Fields
    BY <2>a DEF Fields
  <2>5. /\ x' \in [Transfers -> Fields]
        /\ \A s \in Transfers : (InFlight(s)' <=> InFlight(s)) /\ (HasUrbs(s)' <=> HasUrbs(s) /\ s # t)
    BY <2>2, <2>4 DEF Fields, InFlight, HasUrbs
  <2>6. \A s : FreshDone(s)' = FreshIn(q, s) /\ (FreshQueued(s)' <=> FreshQueued(s))
    BY <2>2 DEF FreshDone, FreshQueued
  <2>7. \A s : FreshIn(q, s) # {} => FreshDone(s) # {}
    BY <2>1 DEF Handled
  <2>8. \A s \in Transfers : HasFresh(s)' => HasFresh(s) /\ s # t
    BY <2>1, <2>2, <2>6, <2>7 DEF HasFresh, Handled
  <2>9. ControlOnce'
    <3> SUFFICES ASSUME NEW s \in Control
        PROVE  /\ \A u \in Nat : <<s, u, TRUE>> \in queued' => u = 1 /\ FreshIn(done', s) = {}
               /\ \A j, k \in FreshIn(done', s) : j = k
      BY DEF ControlOnce, FreshDone
    <3>1. /\ \A u \in Nat : <<s, u, TRUE>> \in queued => u = 1 /\ FreshDone(s) = {}
          /\ \A j, k \in FreshDone(s) : j = k
      BY DEF ControlOnce
    <3>2. s \in Transfers
      BY DEF Transfers
    <3>3. \A j, k \in FreshIn(q, s) : j \in Nat /\ k \in Nat /\ j + 1 = k + 1
      BY <2>1, <3>1 DEF Handled
    <3>4. \A j, k \in FreshIn(q, s) : j = k
      BY <3>3
    <3> QED
      BY <2>2, <2>7, <3>1, <3>4
  <2> QED
    BY <2>1, <2>2, <2>3, <2>5, <2>8, <2>9 DEF Handled, TypeOK
<1>10. TypeOK'
  <2>1. pc' \in [Threads -> Pcs]
    BY <1>1, <1>2 DEF ControlCompletion, Go, Basics, Pcs
  <2>2. UNCHANGED <<flying, fl, tl, refs, open, alive, unplugged, cur, back, n, exp, poll, todo, held, accepted>>
    BY DEF ControlCompletion, locks, ghost
  <2> QED
    BY <1>2, <2>1, <2>2 DEF TypeOK, Pcs, Fields, Endings
<1>11. LocksExact'
  BY <1>1 DEF LocksExact, Basics, Pcs, ControlCompletion, locks, ghost, Go
<1>12. Places'
  BY <1>1 DEF Places, Basics, Threads, Submitting, ControlCompletion, locks, ghost, Go
<1>13. Counting'
  BY <1>1 DEF Counting, Basics, ControlCompletion, locks, ghost, Go
<1>14. OneSubmitter'
  BY <1>1 DEF OneSubmitter, Submits, Places, Basics, Submitting, ControlCompletion, locks,
         ghost, Go
<1>15. OneOwner'
  BY <1>1 DEF OneOwner, Owns, Places, Basics, Submitting, Threads, ControlCompletion, locks,
         ghost, Go
<1>16. HeldInv'
  BY <1>1, <1>2 DEF HeldInv, Basics, KeepsFlags, ControlCompletion, locks, ghost, Go
<1>17. FreshInv'
  <2>1. /\ \A q \in Threads \ {"E"} : pc'[q] = pc[q]
        /\ cur' = cur /\ n' = n /\ pc'["E"] \in {"late", "remove"} /\ pc["E"] = "complete"
    BY <1>1, <1>2 DEF ControlCompletion, Go, Basics
  <2>2. \A q \in Threads, s \in Transfers : Fills(q, s) => Fills(q, s)' /\ s # cur["E"]
    BY <1>1, <1>2, <2>1 DEF Fills, Basics, LocksExact
  <2>3. \A s \in Transfers : HasFresh(s)' => HasUrbs(s)' /\ (InFlight(s)' \/ \E q \in Threads : Fills(q, s)')
    BY <1>2, <2>2 DEF FreshInv
  <2>4. \A q \in Threads : pc'[q] \in {"urbs", "submitted"} => pc[q] = pc'[q] /\ Fills(q, cur[q]) /\ cur[q] \in Transfers
    BY <1>1, <2>1 DEF Fills, Basics
  <2>5. \A q \in Threads : pc'[q] = "urbs" /\ n'[q] = 1 => ~HasFresh(cur[q])'
    BY <1>2, <2>1, <2>4 DEF FreshInv
  <2>6. \A q \in Threads : pc'[q] \in {"urbs", "submitted"} => HasUrbs(cur[q])'
    BY <1>2, <2>1, <2>2, <2>4 DEF FreshInv
  <2> QED
    BY <1>2, <2>1, <2>3, <2>5, <2>6 DEF FreshInv
<1>18. ControlOnce'
  BY <1>2
<1>19. ListInv'
  <2>1. /\ flying' = flying /\ todo' = todo /\ cur' = cur /\ open' = open /\ exp' = exp
        /\ \A q \in Threads \ {"E"} : pc'[q] = pc[q]
        /\ pc'["E"] \in {"late", "remove"} /\ pc["E"] = "complete"
    BY <1>1, <1>2 DEF ControlCompletion, Go, Basics, event
  <2>2. \A s \in flying : InFlight(s)' \/ \E q \in Threads : cur'[q] = s /\ pc'[q] \in {"urbs", "submitted", "undo"}
    <3> TAKE s \in flying
    <3>1. InFlight(s) \/ \E q \in Threads : cur[q] = s /\ pc[q] \in {"urbs", "submitted", "undo"}
      BY DEF ListInv
    <3> QED
      BY <1>1, <1>2, <2>1, <3>1 DEF Basics
  <2>3. \A q \in Threads : /\ pc'[q] \in {"urbs", "submitted"} => cur'[q] \in flying
                           /\ pc'[q] = "mark" => exp' \in flying
    BY <1>1, <2>1 DEF Basics, ListInv
  <2>4. open => \A s \in Transfers : InFlight(s)' => s \in flying
    BY <1>1, <1>2, <2>1 DEF ListInv
  <2>5. todo = {}
    BY <1>1, <2>1 DEF ListInv
  <2> QED
    BY <2>1, <2>2, <2>3, <2>4, <2>5 DEF ListInv
<1>20. ScanInv'
  BY <1>1, <1>2 DEF ScanInv, Dangling, Fills, Places, Basics, Submitting, KeepsFlags,
         ControlCompletion, locks, ghost, Go
<1> QED
  BY <1>10, <1>11, <1>12, <1>13, <1>14, <1>15, <1>16, <1>17, <1>18, <1>19, <1>20

LEMMA ClearPrivKeeps ==
    ASSUME UInv, ClearPriv
    PROVE  UInv'
<1> USE DEF UInv
<1>1. Basics
  BY TypesGiveBasics
<1>2. /\ pc["E"] = "clearpriv" /\ cur["E"] \in Transfers /\ InFlight(cur["E"]) /\ tl[cur["E"]] = "none"
      /\ pc' = [pc EXCEPT !["E"] = "remove"]
      /\ \A s \in Transfers : /\ InFlight(s)' <=> InFlight(s)
                              /\ HasUrbs(s)' <=> HasUrbs(s) /\ s # cur["E"]
                              /\ HasFresh(s)' => HasFresh(s) /\ s # cur["E"]
      /\ x' \in [Transfers -> Fields] /\ out' \in Statuses /\ done' \in Seq(Endings)
      /\ queued' \subseteq Transfers \X (1 .. U) \X BOOLEAN /\ ControlOnce'
  <2>1. PICK t \in Transfers, q \in Seq(Endings) : t = cur["E"] /\ q = done
    <3>1. cur["E"] \in Transfers /\ done \in Seq(Endings)
      BY <1>1 DEF Basics, TypeOK, Endings
    <3> QED
      BY <3>1, Zenon
  <2>2. /\ x' = [x EXCEPT ![t].urbs = FALSE] /\ out' = "NO_DEVICE" /\ tl[t] = "none" /\ pc["E"] = "clearpriv"
        /\ pc' = [pc EXCEPT !["E"] = "remove"]
        /\ IF HasUrbs(t) THEN queued' = Stale(t, queued) /\ done' = StaleDone(t, q)
                         ELSE queued' = queued /\ done' = q
    BY <2>1 DEF ClearPriv, Go, HasUrbs
  <2>3. InFlight(t)
    BY <2>1, <2>2 DEF HeldInv
  <2>a. x \in [Transfers -> Fields]
    BY DEF TypeOK, Fields
  <2>4. x \in [Transfers -> Fields] /\ [x[t] EXCEPT !.urbs = FALSE] \in Fields
    BY <2>a DEF Fields
  <2>5. /\ x' \in [Transfers -> Fields]
        /\ \A s \in Transfers : (InFlight(s)' <=> InFlight(s)) /\ (HasUrbs(s)' <=> HasUrbs(s) /\ s # t)
    BY <2>2, <2>4 DEF Fields, InFlight, HasUrbs
  <2>6. CASE HasUrbs(t)
    <3>1. Freed(t, q)
      BY <2>2, <2>6, FreesUrbs
    <3>2. \A s \in Transfers : HasFresh(s)' => HasFresh(s) /\ s # t
      BY <2>1, <3>1 DEF Freed, HasFresh, FreshDone, FreshQueued
    <3>3. ControlOnce'
      <4> SUFFICES ASSUME NEW s \in Control
          PROVE  /\ \A u \in Nat : <<s, u, TRUE>> \in queued' => u = 1 /\ FreshIn(done', s) = {}
                 /\ \A j, k \in FreshIn(done', s) : j = k
        BY DEF ControlOnce, FreshDone
      <4>1. CASE s = t
        BY <3>1, <4>1 DEF Freed, FreshQueued
      <4>2. CASE s # t
        <5>1. s \in Transfers \ {t}
          BY <4>2 DEF Transfers
        <5>2. /\ FreshIn(done', s) = FreshDone(s)
              /\ \A u \in Nat : <<s, u, TRUE>> \in queued' => <<s, u, TRUE>> \in queued
          BY <2>1, <3>1, <5>1 DEF Freed, FreshDone
        <5> QED
          BY <5>2 DEF ControlOnce
      <4> QED
        BY <4>1, <4>2
    <3> QED
      BY <2>1, <2>2, <2>3, <2>5, <3>1, <3>2, <3>3 DEF Freed, Statuses
  <2>7. CASE ~HasUrbs(t)
    <3>1. queued' = queued /\ done' = done
      BY <2>1, <2>2, <2>7
    <3>2. AddsNoFresh /\ \A s : FreshDone(s)' = FreshDone(s)
      BY <3>1, FreshStay
    <3>3. ~HasFresh(t)
      BY <2>7 DEF FreshInv
    <3>4. ControlOnce'
      BY <3>1, <3>2 DEF ControlOnce
    <3>5. \A s \in Transfers : HasFresh(s)' => HasFresh(s) /\ s # t
      BY <3>2, <3>3 DEF AddsNoFresh
    <3> QED
      BY <2>1, <2>2, <2>3, <2>5, <3>1, <3>4, <3>5 DEF TypeOK, Statuses, Endings
  <2> QED
    BY <2>6, <2>7
<1>10. TypeOK'
  <2>1. pc' \in [Threads -> Pcs]
    BY <1>1, <1>2 DEF ClearPriv, Go, Basics, Pcs
  <2>2. UNCHANGED <<flying, fl, tl, refs, open, alive, unplugged, cur, back, n, exp, poll, todo, held, accepted>>
    BY DEF ClearPriv, locks, ghost
  <2> QED
    BY <1>2, <2>1, <2>2 DEF TypeOK, Pcs, Fields, Endings
<1>11. LocksExact'
  BY <1>1 DEF LocksExact, Basics, Pcs, ClearPriv, locks, ghost, Go
<1>12. Places'
  BY <1>1 DEF Places, Basics, Threads, Submitting, ClearPriv, locks, ghost, Go
<1>13. Counting'
  BY <1>1 DEF Counting, Basics, ClearPriv, locks, ghost, Go
<1>14. OneSubmitter'
  BY <1>1 DEF OneSubmitter, Submits, Places, Basics, Submitting, ClearPriv, locks, ghost, Go
<1>15. OneOwner'
  BY <1>1 DEF OneOwner, Owns, Places, Basics, Submitting, Threads, ClearPriv, locks, ghost, Go
<1>16. HeldInv'
  BY <1>1, <1>2 DEF HeldInv, Basics, KeepsFlags, ClearPriv, locks, ghost, Go
<1>17. FreshInv'
  <2>1. /\ \A q \in Threads \ {"E"} : pc'[q] = pc[q]
        /\ cur' = cur /\ n' = n /\ pc'["E"] \in {"late", "remove"} /\ pc["E"] = "clearpriv"
    BY <1>1, <1>2 DEF ClearPriv, Go, Basics
  <2>2. \A q \in Threads, s \in Transfers : Fills(q, s) => Fills(q, s)' /\ s # cur["E"]
    BY <1>1, <1>2, <2>1 DEF Fills, Basics, LocksExact
  <2>3. \A s \in Transfers : HasFresh(s)' => HasUrbs(s)' /\ (InFlight(s)' \/ \E q \in Threads : Fills(q, s)')
    BY <1>2, <2>2 DEF FreshInv
  <2>4. \A q \in Threads : pc'[q] \in {"urbs", "submitted"} => pc[q] = pc'[q] /\ Fills(q, cur[q]) /\ cur[q] \in Transfers
    BY <1>1, <2>1 DEF Fills, Basics
  <2>5. \A q \in Threads : pc'[q] = "urbs" /\ n'[q] = 1 => ~HasFresh(cur[q])'
    BY <1>2, <2>1, <2>4 DEF FreshInv
  <2>6. \A q \in Threads : pc'[q] \in {"urbs", "submitted"} => HasUrbs(cur[q])'
    BY <1>2, <2>1, <2>2, <2>4 DEF FreshInv
  <2> QED
    BY <1>2, <2>1, <2>3, <2>5, <2>6 DEF FreshInv
<1>18. ControlOnce'
  BY <1>2
<1>19. ListInv'
  <2>1. /\ flying' = flying /\ todo' = todo /\ cur' = cur /\ open' = open /\ exp' = exp
        /\ \A q \in Threads \ {"E"} : pc'[q] = pc[q]
        /\ pc'["E"] \in {"late", "remove"} /\ pc["E"] = "clearpriv"
    BY <1>1, <1>2 DEF ClearPriv, Go, Basics, event
  <2>2. \A s \in flying : InFlight(s)' \/ \E q \in Threads : cur'[q] = s /\ pc'[q] \in {"urbs", "submitted", "undo"}
    <3> TAKE s \in flying
    <3>1. InFlight(s) \/ \E q \in Threads : cur[q] = s /\ pc[q] \in {"urbs", "submitted", "undo"}
      BY DEF ListInv
    <3> QED
      BY <1>1, <1>2, <2>1, <3>1 DEF Basics
  <2>3. \A q \in Threads : /\ pc'[q] \in {"urbs", "submitted"} => cur'[q] \in flying
                           /\ pc'[q] = "mark" => exp' \in flying
    BY <1>1, <2>1 DEF Basics, ListInv
  <2>4. open => \A s \in Transfers : InFlight(s)' => s \in flying
    BY <1>1, <1>2, <2>1 DEF ListInv
  <2>5. todo = {}
    BY <1>1, <2>1 DEF ListInv
  <2> QED
    BY <2>1, <2>2, <2>3, <2>4, <2>5 DEF ListInv
<1>20. ScanInv'
  BY <1>1, <1>2 DEF ScanInv, Dangling, Fills, Places, Basics, Submitting, KeepsFlags,
         ClearPriv, locks, ghost, Go
<1> QED
  BY <1>10, <1>11, <1>12, <1>13, <1>14, <1>15, <1>16, <1>17, <1>18, <1>19, <1>20

(* What the completion of a bulk URB comes to: the transfer has ended, or  *)
(* it waits for more of its URBs.                                          *)
BulkEnds ==
    /\ pc["E"] = "complete" /\ cur["E"] \in Transfers /\ InFlight(cur["E"]) /\ tl[cur["E"]] = "none"
    /\ pc' \in [Threads -> Pcs] /\ pc'["E"] \in {"late", "remove"}
    /\ \A q \in Threads \ {"E"} : pc'[q] = pc[q]
    /\ \A s \in Transfers : /\ InFlight(s)' <=> InFlight(s)
                            /\ HasUrbs(s)' <=> HasUrbs(s) /\ s # cur["E"]
                            /\ HasFresh(s)' => HasFresh(s) /\ s # cur["E"]
    /\ x' \in [Transfers -> Fields] /\ out' \in Statuses /\ done' \in Seq(Endings)
    /\ queued' \subseteq Transfers \X (1 .. U) \X BOOLEAN /\ ControlOnce'

BulkGoesOn ==
    /\ pc["E"] = "complete" /\ pc' = [pc EXCEPT !["E"] = "reap"] /\ tl[cur["E"]] = "none"
    /\ KeepsFlags /\ AddsNoFresh
    /\ x' \in [Transfers -> Fields] /\ out' \in Statuses /\ done' \in Seq(Endings)
    /\ queued' \subseteq Transfers \X (1 .. U) \X BOOLEAN /\ ControlOnce'

LEMMA BulkEffect ==
    ASSUME UInv, NEW kst \in {"full", "unlinked"}, BulkCompletion(kst)
    PROVE  BulkEnds \/ BulkGoesOn
<1> USE DEF UInv
<1>0. Basics
  BY TypesGiveBasics
<1>1. PICK t \in Transfers, q \in Seq(Endings) : Handled(t, q)
  BY HeadIsFresh DEF BulkCompletion
<1>2. PICK u \in 1 .. U, e \in UrbStatus : u = Head(done)[2] /\ e = Head(done)[4]
  <2>a. done # <<>>
    BY <1>1 DEF Handled
  <2>b. done \in Seq(Endings)
    BY DEF TypeOK, Endings
  <2>1. Head(done) \in Endings
    BY <2>a, <2>b
  <2>2. Head(done)[2] \in 1 .. U /\ Head(done)[4] \in UrbStatus
    BY <2>1 DEF Endings
  <2> QED
    BY <2>2, Zenon
<1> DEFINE report == Reports(x[t], u, e)
           r == [x[t] EXCEPT !.retired = @ + 1, !.action = NewAction(x[t], u, e),
                             !.status = NewStatus(x[t], u, e), !.urbs = ~report]
<1>3. /\ pc["E"] = "complete" /\ t \in Bulk /\ tl[t] = "none" /\ x' = [x EXCEPT ![t] = r]
      /\ IF report
         THEN /\ queued' = Stale(t, queued) /\ done' = StaleDone(t, q)
              /\ out' = NewStatus(x[t], u, e)
              /\ Go("E", IF NewAction(x[t], u, e) = "CANCELLED" THEN "late" ELSE "remove")
         ELSE /\ IF x[t].action = "NORMAL" /\ TearsDown(x[t], u, e)
                 THEN Discard(t, u + 1, U, kst, q)
                 ELSE UNCHANGED queued /\ done' = q
              /\ UNCHANGED out /\ Go("E", "reap")
  <2>1. x[t].urbs /\ t = cur["E"] /\ q = Tail(done)
    BY <1>1 DEF Handled, HasUrbs
  <2>2. pc["E"] = "complete" /\ t \in Bulk /\ tl[t] = "none"
    BY <2>1 DEF BulkCompletion
  <2>3. x' = [x EXCEPT ![t] = r]
    BY <1>2, <2>1, ZenonT(60) DEF BulkCompletion
  <2> HIDE DEF r
  <2> QED
    BY <1>2, <2>1, <2>2, <2>3 DEF BulkCompletion
<1>4. x \in [Transfers -> Fields] /\ x[t] \in Fields
  BY DEF TypeOK, Fields
<1>5. NewAction(x[t], u, e) \in Actions /\ NewStatus(x[t], u, e) \in Statuses /\ report \in BOOLEAN
  <2>1. x[t].action \in Actions /\ x[t].status \in Statuses
    BY <1>4 DEF Fields
  <2>2. NewAction(x[t], u, e) \in Actions
    BY <2>1 DEF NewAction, Actions
  <2>3. NewStatus(x[t], u, e) \in Statuses
    BY <2>1 DEF NewStatus, Statuses
  <2>4. report \in BOOLEAN
    BY Zenon DEF Reports
  <2> QED
    BY <2>2, <2>3, <2>4
<1> HIDE DEF report
<1>6. r \in Fields /\ r.flags = x[t].flags /\ (r.urbs <=> ~report)
  <2>1. PICK a \in Actions, z \in Statuses, b \in BOOLEAN :
          a = NewAction(x[t], u, e) /\ z = NewStatus(x[t], u, e) /\ b = ~report
    <3>1. PICK d \in BOOLEAN : d = report
      BY <1>5, Zenon
    <3>2. PICK b \in BOOLEAN : b = ~d
      BY Negation
    <3> QED
      BY <1>5, <3>1, <3>2, Zenon
  <2>m. PICK m \in Nat : m = x[t].retired + 1
    <3>1. x[t].retired + 1 \in Nat
      BY <1>4 DEF Fields
    <3> QED
      BY <3>1, Zenon
  <2>2. r = [x[t] EXCEPT !.retired = m, !.action = a, !.status = z, !.urbs = b]
    BY <2>1, <2>m, Zenon
  <2> HIDE DEF r
  <2>3. r \in Fields /\ r.flags = x[t].flags /\ r.urbs = b
    BY <1>4, <2>2 DEF Fields
  <2>4. b <=> ~report
    BY <2>1, Zenon
  <2> QED
    BY <2>3, <2>4
<1> HIDE DEF r
<1>7. x' \in [Transfers -> Fields] /\ \A s \in Transfers : x'[s] = IF s = t THEN r ELSE x[s]
  BY <1>3, <1>4, <1>6
<1>8. \A s \in Transfers : InFlight(s)' <=> InFlight(s)
  BY <1>6, <1>7 DEF InFlight
<1>9. \A s : FreshIn(q, s) # {} => FreshDone(s) # {}
  BY <1>1 DEF Handled
<1>10. t = cur["E"] /\ InFlight(t) /\ HasUrbs(t) /\ HasFresh(t)
  BY <1>1 DEF Handled
<1>11. ASSUME NEW s \in Control
       PROVE  /\ \A w \in Nat : <<s, w, TRUE>> \in queued => w = 1 /\ FreshIn(q, s) = {}
              /\ \A j, k \in FreshIn(q, s) : j = k
              /\ s # t /\ s \in Transfers
  <2>1. /\ \A w \in Nat : <<s, w, TRUE>> \in queued => w = 1 /\ FreshDone(s) = {}
        /\ \A j, k \in FreshDone(s) : j = k
    BY DEF ControlOnce
  <2>2. \A j, k \in FreshIn(q, s) : j \in Nat /\ k \in Nat /\ j + 1 = k + 1
    BY <1>1, <2>1 DEF Handled
  <2>3. \A j, k \in FreshIn(q, s) : j = k
    BY <2>2
  <2>4. s # t /\ s \in Transfers
    BY <1>0, <1>3 DEF Basics
  <2> QED
    BY <1>9, <2>1, <2>3, <2>4
<1>12. CASE report
  <2>1. Freed(t, q)
    BY <1>3, <1>12, FreesUrbs
  <2>2. \A s \in Transfers : HasUrbs(s)' <=> HasUrbs(s) /\ s # t
    BY <1>6, <1>7, <1>12 DEF HasUrbs
  <2>3. \A s \in Transfers : HasFresh(s)' => HasFresh(s) /\ s # t
    BY <1>9, <2>1 DEF Freed, HasFresh, FreshDone, FreshQueued
  <2>4. ControlOnce'
    <3> SUFFICES ASSUME NEW s \in Control
        PROVE  /\ \A w \in Nat : <<s, w, TRUE>> \in queued' => w = 1 /\ FreshIn(done', s) = {}
               /\ \A j, k \in FreshIn(done', s) : j = k
      BY DEF ControlOnce, FreshDone
    <3>1. s \in Transfers \ {t}
      BY <1>11
    <3>2. /\ FreshIn(done', s) = FreshIn(q, s)
          /\ \A w \in Nat : <<s, w, TRUE>> \in queued' => <<s, w, TRUE>> \in queued
      BY <2>1, <3>1 DEF Freed
    <3> QED
      BY <1>11, <3>2
  <2>5. /\ pc' = [pc EXCEPT !["E"] = IF NewAction(x[t], u, e) = "CANCELLED" THEN "late" ELSE "remove"]
        /\ out' = NewStatus(x[t], u, e)
    BY <1>3, <1>12 DEF Go
  <2>6. pc'["E"] \in {"late", "remove"} /\ \A p \in Threads \ {"E"} : pc'[p] = pc[p]
    BY <1>0, <2>5 DEF Basics
  <2>7. pc' \in [Threads -> Pcs]
    BY <1>0, <2>5 DEF Basics, Pcs
  <2>8. done' \in Seq(Endings) /\ queued' \subseteq Transfers \X (1 .. U) \X BOOLEAN
    BY <2>1 DEF Freed
  <2> QED
    BY <1>3, <1>5, <1>7, <1>8, <1>10, <2>2, <2>3, <2>4, <2>5, <2>6, <2>7, <2>8 DEF BulkEnds
<1>13. CASE ~report
  <2>1. /\ done' \in Seq(Endings) /\ queued' \subseteq queued
        /\ \A s \in Transfers \ {t} : FreshIn(done', s) = FreshIn(q, s)
    <3>1. CASE Discard(t, u + 1, U, kst, q)
      <4>1. u + 1 \in 1 .. U + 1 /\ U \in 0 .. U
        BY <1>0 DEF Basics
      <4>2. FreshAfter(t, u + 1, U, q)
        BY <3>1, <4>1, DiscardFresh
      <4> QED
        BY <4>2 DEF FreshAfter
    <3>2. CASE queued' = queued /\ done' = q
      BY <1>1, <3>2 DEF Handled
    <3> QED
      BY <1>3, <1>13, <3>1, <3>2
  <2>2. AddsNoFresh
    BY <1>9, <1>10, <2>1 DEF AddsNoFresh, HasFresh, FreshDone, FreshQueued
  <2>3. KeepsFlags
    BY <1>6, <1>7, <1>8, <1>10, <1>13 DEF KeepsFlags, HasUrbs
  <2>4. ControlOnce'
    <3> SUFFICES ASSUME NEW s \in Control
        PROVE  /\ \A w \in Nat : <<s, w, TRUE>> \in queued' => w = 1 /\ FreshIn(done', s) = {}
               /\ \A j, k \in FreshIn(done', s) : j = k
      BY DEF ControlOnce, FreshDone
    <3>1. FreshIn(done', s) = FreshIn(q, s)
      BY <1>11, <2>1
    <3> QED
      BY <1>11, <2>1, <3>1, ZenonT(60)
  <2>5. pc' = [pc EXCEPT !["E"] = "reap"] /\ out' = out
    BY <1>3, <1>13 DEF Go
  <2> QED
    BY <1>3, <1>7, <1>10, <2>1, <2>2, <2>3, <2>4, <2>5 DEF BulkGoesOn, TypeOK
<1> QED
  BY <1>12, <1>13

LEMMA BulkEndsKeeps ==
    ASSUME UInv, (\E kst \in {"full", "unlinked"} : BulkCompletion(kst)), BulkEnds
    PROVE  UInv'
<1> USE DEF UInv
<1>1. Basics
  BY TypesGiveBasics
<1>2. BulkEnds
  OBVIOUS
<1>3. UNCHANGED <<flying, fl, tl, refs, open, alive, unplugged, cur, back, n, exp, poll, todo, held, accepted>>
  BY DEF BulkCompletion, locks, ghost
<1>10. TypeOK'
  BY <1>2, <1>3 DEF BulkEnds, TypeOK, Pcs, Fields, Endings
<1>11. LocksExact'
  <2>1. \A q \in Threads : pc'[q] = pc[q] \/ (q = "E" /\ pc[q] = "complete" /\ pc'[q] \in {"late", "remove"})
    BY <1>1, <1>2 DEF BulkEnds, Basics
  <2> QED
    BY <1>3, <2>1 DEF LocksExact
<1>12. Places'
  BY <1>1, <1>2, <1>3 DEF Places, Basics, Threads, Submitting, BulkEnds
<1>13. Counting'
  BY <1>1, <1>2, <1>3 DEF Counting, Basics, BulkEnds
<1>14. OneSubmitter'
  <2>1. \A q \in Threads : pc'[q] = pc[q] \/ (q = "E" /\ pc[q] = "complete" /\ pc'[q] \in {"late", "remove"})
    BY <1>1, <1>2 DEF BulkEnds, Basics
  <2> QED
    BY <1>3, <2>1 DEF OneSubmitter, Submits, Submitting
<1>15. OneOwner'
  BY <1>1, <1>2, <1>3 DEF OneOwner, Owns, Places, Basics, Submitting, Threads, BulkEnds
<1>16. HeldInv'
  BY <1>1, <1>2, <1>3 DEF HeldInv, Basics, KeepsFlags, BulkEnds
<1>17. FreshInv'
  <2>1. /\ \A q \in Threads \ {"E"} : pc'[q] = pc[q]
        /\ cur' = cur /\ n' = n /\ pc'["E"] \in {"late", "remove"} /\ pc["E"] = "complete"
    BY <1>1, <1>2, <1>3 DEF BulkEnds, Basics
  <2>2. \A q \in Threads, s \in Transfers : Fills(q, s) => Fills(q, s)' /\ s # cur["E"]
    BY <1>1, <1>2, <2>1 DEF Fills, Basics, LocksExact, BulkEnds
  <2>3. \A s \in Transfers : HasFresh(s)' => HasUrbs(s)' /\ (InFlight(s)' \/ \E q \in Threads : Fills(q, s)')
    BY <1>2, <1>3, <2>2 DEF FreshInv, BulkEnds
  <2>4. \A q \in Threads : pc'[q] \in {"urbs", "submitted"} => pc[q] = pc'[q] /\ Fills(q, cur[q]) /\ cur[q] \in Transfers
    BY <1>1, <2>1 DEF Fills, Basics, BulkEnds
  <2>5. \A q \in Threads : pc'[q] = "urbs" /\ n'[q] = 1 => ~HasFresh(cur[q])'
    BY <1>2, <1>3, <2>1, <2>4 DEF FreshInv, BulkEnds
  <2>6. \A q \in Threads : pc'[q] \in {"urbs", "submitted"} => HasUrbs(cur[q])'
    BY <1>2, <1>3, <2>1, <2>2, <2>4 DEF FreshInv, BulkEnds
  <2> QED
    BY <1>2, <1>3, <2>1, <2>3, <2>5, <2>6 DEF FreshInv, BulkEnds
<1>18. ControlOnce'
  BY <1>2 DEF BulkEnds
<1>19. ListInv'
  <2>1. /\ flying' = flying /\ todo' = todo /\ cur' = cur /\ open' = open /\ exp' = exp
        /\ \A q \in Threads \ {"E"} : pc'[q] = pc[q]
        /\ pc'["E"] \in {"late", "remove"} /\ pc["E"] = "complete"
    BY <1>1, <1>2, <1>3 DEF BulkEnds, Basics
  <2>2. \A s \in flying : InFlight(s)' \/ \E q \in Threads : cur'[q] = s /\ pc'[q] \in {"urbs", "submitted", "undo"}
    <3> TAKE s \in flying
    <3>1. InFlight(s) \/ \E q \in Threads : cur[q] = s /\ pc[q] \in {"urbs", "submitted", "undo"}
      BY DEF ListInv
    <3> QED
      BY <1>1, <1>2, <2>1, <3>1 DEF Basics, BulkEnds
  <2>3. \A q \in Threads : /\ pc'[q] \in {"urbs", "submitted"} => cur'[q] \in flying
                           /\ pc'[q] = "mark" => exp' \in flying
    BY <1>1, <2>1 DEF Basics, ListInv, BulkEnds
  <2>4. open => \A s \in Transfers : InFlight(s)' => s \in flying
    BY <1>1, <1>2, <2>1 DEF ListInv, BulkEnds
  <2>5. todo = {}
    BY <1>1, <2>1 DEF ListInv, BulkEnds
  <2> QED
    BY <2>1, <2>2, <2>3, <2>4, <2>5 DEF ListInv
<1>20. ScanInv'
  BY <1>1, <1>2, <1>3 DEF ScanInv, Dangling, Fills, Places, Basics, Submitting, KeepsFlags,
         BulkEnds
<1> QED
  BY <1>10, <1>11, <1>12, <1>13, <1>14, <1>15, <1>16, <1>17, <1>18, <1>19, <1>20

LEMMA BulkGoesOnKeeps ==
    ASSUME UInv, (\E kst \in {"full", "unlinked"} : BulkCompletion(kst)), BulkGoesOn
    PROVE  UInv'
<1> USE DEF UInv
<1>1. Basics
  BY TypesGiveBasics
<1>2. BulkGoesOn
  OBVIOUS
<1>3. UNCHANGED <<flying, fl, tl, refs, open, alive, unplugged, cur, back, n, exp, poll, todo, held, accepted>>
  BY DEF BulkCompletion, locks, ghost
<1>10. TypeOK'
  <2>1. pc' \in [Threads -> Pcs]
    BY <1>1, <1>2 DEF BulkGoesOn, Basics, Pcs
  <2> QED
    BY <1>2, <1>3, <2>1 DEF BulkGoesOn, TypeOK, Pcs, Fields, Endings
<1>11. LocksExact'
  BY <1>1, <1>2, <1>3 DEF LocksExact, Basics, Pcs, BulkGoesOn
<1>12. Places'
  BY <1>1, <1>2, <1>3 DEF Places, Basics, Threads, Submitting, BulkGoesOn
<1>13. Counting'
  BY <1>1, <1>2, <1>3 DEF Counting, Basics, BulkGoesOn
<1>14. OneSubmitter'
  BY <1>1, <1>2, <1>3 DEF OneSubmitter, Submits, Places, Basics, Submitting, BulkGoesOn
<1>15. OneOwner'
  BY <1>1, <1>2, <1>3 DEF OneOwner, Owns, Places, Basics, Submitting, Threads, BulkGoesOn
<1>16. HeldInv'
  BY <1>1, <1>2, <1>3 DEF HeldInv, Basics, KeepsFlags, BulkGoesOn
<1>17. FreshInv'
  <2>1. /\ \A q \in Threads \ {"E"} : pc'[q] = pc[q]
        /\ cur' = cur /\ n' = n /\ pc'["E"] \in {"reap"} /\ pc["E"] = "complete"
    BY <1>1, <1>2, <1>3 DEF BulkGoesOn, Basics
  <2>2. \A q \in Threads, s \in Transfers : Fills(q, s) => Fills(q, s)'
    BY <1>1, <1>2, <2>1 DEF Fills, Basics, LocksExact, BulkGoesOn
  <2>3. \A s \in Transfers : HasFresh(s)' => HasUrbs(s)' /\ (InFlight(s)' \/ \E q \in Threads : Fills(q, s)')
    BY <1>2, <1>3, <2>2 DEF FreshInv, KeepsFlags, AddsNoFresh, BulkGoesOn
  <2>4. \A q \in Threads : pc'[q] \in {"urbs", "submitted"} => pc[q] = pc'[q] /\ Fills(q, cur[q]) /\ cur[q] \in Transfers
    BY <1>1, <2>1 DEF Fills, Basics, BulkGoesOn
  <2>5. \A q \in Threads : pc'[q] = "urbs" /\ n'[q] = 1 => ~HasFresh(cur[q])'
    BY <1>2, <1>3, <2>1, <2>4 DEF FreshInv, KeepsFlags, AddsNoFresh, BulkGoesOn
  <2>6. \A q \in Threads : pc'[q] \in {"urbs", "submitted"} => HasUrbs(cur[q])'
    BY <1>2, <1>3, <2>1, <2>2, <2>4 DEF FreshInv, KeepsFlags, AddsNoFresh, BulkGoesOn
  <2> QED
    BY <1>2, <1>3, <2>1, <2>3, <2>5, <2>6 DEF FreshInv, BulkGoesOn
<1>18. ControlOnce'
  BY <1>2 DEF BulkGoesOn
<1>19. ListInv'
  <2>1. /\ flying' = flying /\ todo' = todo /\ cur' = cur /\ open' = open /\ exp' = exp
        /\ \A q \in Threads \ {"E"} : pc'[q] = pc[q]
        /\ pc'["E"] \in {"reap"} /\ pc["E"] = "complete"
    BY <1>1, <1>2, <1>3 DEF BulkGoesOn, Basics
  <2>2. \A s \in flying : InFlight(s)' \/ \E q \in Threads : cur'[q] = s /\ pc'[q] \in {"urbs", "submitted", "undo"}
    <3> TAKE s \in flying
    <3>1. InFlight(s) \/ \E q \in Threads : cur[q] = s /\ pc[q] \in {"urbs", "submitted", "undo"}
      BY DEF ListInv
    <3> QED
      BY <1>1, <1>2, <2>1, <3>1 DEF Basics, KeepsFlags, BulkGoesOn
  <2>3. \A q \in Threads : /\ pc'[q] \in {"urbs", "submitted"} => cur'[q] \in flying
                           /\ pc'[q] = "mark" => exp' \in flying
    BY <1>1, <2>1 DEF Basics, ListInv, BulkGoesOn
  <2>4. open => \A s \in Transfers : InFlight(s)' => s \in flying
    BY <1>1, <1>2, <2>1 DEF ListInv, KeepsFlags, BulkGoesOn
  <2>5. todo = {}
    BY <1>1, <2>1 DEF ListInv, BulkGoesOn
  <2> QED
    BY <2>1, <2>2, <2>3, <2>4, <2>5 DEF ListInv
<1>20. ScanInv'
  BY <1>1, <1>2, <1>3 DEF ScanInv, Dangling, Fills, Places, Basics, Submitting, KeepsFlags,
         BulkGoesOn
<1> QED
  BY <1>10, <1>11, <1>12, <1>13, <1>14, <1>15, <1>16, <1>17, <1>18, <1>19, <1>20

-----------------------------------------------------------------------------
LEMMA InitUInv == Init => UInv
<1> SUFFICES ASSUME Init PROVE UInv
  OBVIOUS
<1> USE DEF Init
<1>1. /\ U \in Nat \ {0} /\ Callers \cap {"E", "none"} = {} /\ Bulk \cap Control = {}
      /\ \A t \in Transfers : Urbs(t) \in 1 .. U
  BY UsbConstants DEF Urbs
<1>2. (CHOOSE t \in Transfers : TRUE) \in Transfers
  BY UsbConstants DEF Transfers
<1>3. TypeOK
  <2>1. Idle \in [flags : SUBSET {"IN_FLIGHT", "CANCELLING", "DISAPPEARED"},
            expiry : SUBSET {"HANDLED", "TIMED_OUT"}, urbs : BOOLEAN,
            retired : Nat, action : Actions, status : Statuses]
    BY DEF Idle, Actions, Statuses
  <2>2. done \in Seq(Transfers \X (1 .. U) \X BOOLEAN \X UrbStatus)
    OBVIOUS
  <2>3. n \in [Threads -> 1 .. U + 1]
    BY <1>1
  <2>4. /\ pc \in [Threads -> Pcs] /\ cur \in [Threads -> Transfers] /\ exp \in Transfers
        /\ back \in [Threads -> {"rest", "wait", "unref"}]
    BY <1>2 DEF Pcs
  <2>5. /\ flying \subseteq Transfers /\ alive \subseteq Control /\ todo \subseteq Transfers
        /\ fl \in Threads \cup {"none"} /\ tl \in [Transfers -> Threads \cup {"none"}]
        /\ refs \in Int /\ poll \in {"live", "err", "scan", "removed"} /\ out \in Statuses
    BY DEF Statuses
  <2>8. open \in BOOLEAN /\ unplugged \in BOOLEAN
    BY Zenon
  <2>9. queued \subseteq Transfers \X (1 .. U) \X BOOLEAN
    BY Zenon
  <2>6. held \in [Transfers -> Int] /\ accepted \in [Transfers -> {"none", "user", "timeout"}]
    OBVIOUS
  <2>7. x \in [Transfers -> [flags : SUBSET {"IN_FLIGHT", "CANCELLING", "DISAPPEARED"},
            expiry : SUBSET {"HANDLED", "TIMED_OUT"}, urbs : BOOLEAN,
            retired : Nat, action : Actions, status : Statuses]]
    BY <2>1
  <2> QED
    BY <2>2, <2>3, <2>4, <2>5, <2>6, <2>7, <2>8, <2>9 DEF TypeOK, Pcs
<1>4. Basics
  BY <1>3, TypesGiveBasics
<1>5. \A t \in Transfers : ~InFlight(t) /\ ~HasFresh(t) /\ held[t] = 0
  BY DEF InFlight, HasFresh, FreshQueued, FreshDone, FreshIn, Idle
<1>6. LocksExact /\ Places /\ Counting
  BY <1>4 DEF LocksExact, Places, Counting, Basics, Threads, Submitting
<1>7. OneSubmitter /\ OneOwner /\ HeldInv
  BY <1>4, <1>5 DEF OneSubmitter, Submits, OneOwner, Owns, HeldInv, Basics, Submitting, Threads
<1>8. FreshInv /\ ListInv
  BY <1>4, <1>5 DEF FreshInv, ListInv, Basics
<1>9. ControlOnce
  BY DEF ControlOnce, FreshDone, FreshIn
<1>10. ScanInv
  BY <1>4, <1>5 DEF ScanInv, Dangling, Fills, Basics
<1> QED
  BY <1>3, <1>6, <1>7, <1>8, <1>9, <1>10 DEF UInv

LEMMA NextKeeps == ASSUME UInv, SingleUse, [Next]_vars PROVE UInv'
<1>1. CASE UNCHANGED vars
  <2> USE <1>1 DEF UInv, vars, locks, kernel, thread, event, ghost
  <2>1. TypeOK'
    BY DEF TypeOK
  <2>2. LocksExact' /\ Places' /\ Counting'
    BY DEF LocksExact, Places, Counting
  <2>3. OneSubmitter' /\ OneOwner' /\ HeldInv'
    BY DEF OneSubmitter, Submits, OneOwner, Owns, HeldInv, InFlight
  <2>4. FreshInv'
    BY DEF FreshInv, HasFresh, FreshQueued, FreshDone, FreshIn, HasUrbs, InFlight, Fills
  <2>5. ControlOnce'
    <3>1. \A t : FreshDone(t)' = FreshDone(t)
      BY FreshStay
    <3> QED
      BY <3>1 DEF ControlOnce
  <2>6. ListInv' /\ ScanInv'
    BY DEF ListInv, ScanInv, Dangling, Fills, InFlight
  <2> QED
    BY <2>1, <2>2, <2>3, <2>4, <2>5, <2>6
<1>2. ASSUME NEW p \in Threads, Submit(p) PROVE UInv'
  BY <1>2, SubmitTakeListKeeps, SubmitBusyKeeps, SubmitEnlistKeeps, UrbAcceptedKeeps,
     FirstUrbRefusedKeeps, LaterUrbRefusedKeeps, SubmittedKeeps, SubmitUndoKeeps DEF Submit
<1>3. ASSUME NEW p \in Threads, Timeouts(p) PROVE UInv'
  BY <1>3, HandleTimeoutKeeps, TimeoutMarkKeeps, TimeoutsEndKeeps DEF Timeouts
<1>4. ASSUME Completion PROVE UInv'
  <2>1. ASSUME NEW kst \in {"full", "unlinked"}, BulkCompletion(kst) PROVE UInv'
    <3>1. BulkEnds \/ BulkGoesOn
      BY <2>1, BulkEffect
    <3> QED
      BY <2>1, <3>1, BulkEndsKeeps, BulkGoesOnKeeps
  <2> QED
    BY <1>4, <2>1, ControlCompletionKeeps, CancellationKeeps, RemoveKeeps, ClearInFlightKeeps,
       CallbackKeeps, UnrefKeeps DEF Completion
<1>5. ASSUME Events PROVE UInv'
  BY <1>5, EventsStartKeeps, EventsErrorKeeps, ReapKeeps, ReapEndKeeps, ScanTakeListKeeps,
     ScanOneKeeps, ScanEndKeeps, ClearPrivKeeps DEF Events
<1>6. ASSUME Calls PROVE UInv'
  BY <1>6, SubmitCallKeeps, ControlCallKeeps, CancelTransferKeeps, SyncCancelKeeps,
     TimeoutsTakeListKeeps, CloseKeeps DEF Calls
<1>7. "E" \in Threads /\ Callers \subseteq Threads
  BY DEF Threads
<1>8. CASE Next
  BY <1>1, <1>2, <1>3, <1>4, <1>5, <1>6, <1>7, <1>8, KernelCompletesKeeps, UnplugKeeps,
     WaitEndsKeeps DEF Next, Handler, Caller, Rest
<1> QED
  BY <1>1, <1>8

LEMMA UInvAlways == SingleUse => (Spec => []UInv)
<1> SUFFICES ASSUME SingleUse PROVE Spec => []UInv
  OBVIOUS
<1>1. UInv /\ [Next]_vars => UInv'
  BY NextKeeps
<1> QED
  BY <1>1, InitUInv, PTL DEF Spec

(***************************************************************************)
(* The threads, the kernel and the transfers stay within their types:      *)
(* flying_transfers holds transfers of the handle, the number of the next  *)
(* URB stays within the array, and retired URBs are counted upwards.       *)
(***************************************************************************)
THEOREM TypeCorrect == SingleUse => (Spec => []TypeOK)
<1>1. UInv => TypeOK
  BY DEF UInv
<1> QED
  BY <1>1, UInvAlways, PTL

(***************************************************************************)
(* Every path through submitting, timing out and disconnecting releases    *)
(* exactly the locks it took, in a place where it holds them.              *)
(***************************************************************************)
THEOREM LocksAlways == SingleUse => (Spec => []LocksExact)
<1>1. UInv => LocksExact
  BY DEF UInv
<1> QED
  BY <1>1, UInvAlways, PTL

(***************************************************************************)
(* What is in flight is on flying_transfers, where a timeout, a disconnect *)
(* and a close look for it, until its completion has taken it off.         *)
(***************************************************************************)
THEOREM FlyingAlways == SingleUse => (Spec => []FlyingExact)
<1>1. UInv => FlyingExact
  BY DEF UInv, ListInv, FlyingExact
<1> QED
  BY <1>1, UInvAlways, PTL

(***************************************************************************)
(* A submission that was accepted has its callback run exactly once,       *)
(* whoever cancels, times out or disconnects meanwhile.                    *)
(***************************************************************************)
THEOREM OneCallbackAlways == SingleUse => (Spec => []OneCallbackEach)
<1>1. UInv => OneCallbackEach
  <2> SUFFICES ASSUME UInv, NEW t \in Transfers
      PROVE  /\ held[t] >= Completing(t)
             /\ InFlight(t) => held[t] > 0
             /\ held[t] > 0 /\ ~InFlight(t) => pc["E"] = "callback" /\ cur["E"] = t
    BY DEF OneCallbackEach
  <2> QED
    BY DEF UInv, HeldInv, Completing
<1> QED
  BY <1>1, UInvAlways, PTL

(***************************************************************************)
(* Once usbi_handle_disconnect() has been through the list, no transfer    *)
(* waits for an answer that the kernel will not give.                      *)
(***************************************************************************)
THEOREM DisconnectAlways == SingleUse => (Spec => []DisconnectIsFinal)
<1>1. UInv => DisconnectIsFinal
  <2> SUFFICES ASSUME UInv, poll = "removed", NEW t \in Transfers
      PROVE  ~InFlight(t) /\ held[t] = 0
    BY DEF DisconnectIsFinal
  <2>1. ~Dangling(t) /\ pc["E"] # "callback"
    BY DEF UInv, ScanInv, Submitting
  <2> QED
    BY <2>1 DEF UInv, HeldInv, Dangling
<1> QED
  BY <1>1, UInvAlways, PTL

(***************************************************************************)
(* The thread that waits for a synchronous control transfer frees it when  *)
(* the callback has run: no list, lock, URB or other thread still has it.  *)
(***************************************************************************)
THEOREM NoUseAfterFreeAlways == SingleUse => (Spec => []NoUseAfterFree)
<1>1. UInv => NoUseAfterFree
  <2> SUFFICES ASSUME UInv, NEW t \in Control \ alive
      PROVE  /\ t \notin flying \cup todo /\ tl[t] = "none"
             /\ \A p \in Threads : cur[p] = t => pc[p] \in {"rest", "reap", "unref", "scan",
                                       "list", "expire", "mark", "scanning", "enlist"}
             /\ exp = t => \A p \in Threads : pc[p] # "mark"
             /\ \A e \in queued : e[1] = t => ~e[3]
             /\ \A k \in DOMAIN done : done[k][1] = t => ~done[k][3]
    BY DEF NoUseAfterFree
  <2>1. Basics /\ t \in Transfers
    BY TypesGiveBasics DEF UInv, Transfers
  <2>2. held[t] = 0 /\ ~InFlight(t) /\ ~(pc["E"] = "callback" /\ cur["E"] = t)
    BY <2>1 DEF UInv, OneOwner, HeldInv
  <2>3. \A p \in Threads : cur[p] = t => pc[p] \notin Submitting \cup {"wait"}
    <3> SUFFICES ASSUME NEW p \in Threads, cur[p] = t, pc[p] \in Submitting \cup {"wait"} PROVE FALSE
      OBVIOUS
    <3>1. p # "E"
      BY <2>1 DEF UInv, Places, Basics, Submitting
    <3>2. Owns(p, t) /\ p \in Callers
      BY <3>1 DEF Owns, Threads
    <3> QED
      BY <3>2 DEF UInv, OneOwner
  <2>4. ~HasFresh(t)
    BY <2>1, <2>2, <2>3 DEF UInv, FreshInv, Fills, Submitting
  <2>5. t \notin flying \cup todo
    BY <2>2, <2>3 DEF UInv, ListInv, Submitting
  <2>6. tl[t] = "none"
    BY <2>1, <2>3 DEF UInv, LocksExact, Basics, Submitting
  <2>7. ~(pc["E"] = "complete" /\ cur["E"] = t)
    <3> SUFFICES ASSUME pc["E"] = "complete", cur["E"] = t PROVE FALSE
      OBVIOUS
    <3>1. \E s \in Transfers, q \in Seq(Endings) : Handled(s, q)
      BY <2>6, HeadIsFresh
    <3> QED
      BY <2>2, <3>1 DEF Handled
  <2>8. \A p \in Threads \ {"E"} : pc[p] \in Submitting \cup {"rest", "wait", "expire", "mark"}
    BY DEF UInv, Places, Threads
  <2>9. ASSUME cur["E"] = t
        PROVE  pc["E"] \notin {"urbs", "submitted", "undo", "wait", "complete", "late",
                               "remove", "clear", "callback", "clearpriv"}
    BY <2>1, <2>2, <2>3, <2>7, <2>9 DEF UInv, HeldInv, Submitting, Basics
  <2>10. \A p \in Threads : cur[p] = t => pc[p] \in {"rest", "reap", "unref", "scan",
                                       "list", "expire", "mark", "scanning", "enlist"}
    BY <2>1, <2>3, <2>8, <2>9 DEF Basics, Pcs, Submitting
  <2>11. exp = t => \A p \in Threads : pc[p] # "mark"
    BY <2>5 DEF UInv, ListInv
  <2>12. ASSUME NEW e \in queued, e[1] = t, e[3] PROVE FALSE
    <3>1. e = <<e[1], e[2], e[3]>> /\ e[2] \in 1 .. U /\ e[3] \in BOOLEAN
      BY DEF UInv, TypeOK
    <3>2. e[3] = TRUE
      BY <2>12, <3>1, Zenon
    <3>3. <<t, e[2], TRUE>> \in queued
      <4>1. e = <<t, e[2], TRUE>>
        BY <2>12, <3>1, <3>2
      <4> QED
        BY <4>1
    <3>4. e[2] \in Nat
      BY <2>1, <3>1 DEF Basics
    <3> QED
      BY <2>4, <3>3, <3>4 DEF HasFresh, FreshQueued
  <2>13. ASSUME NEW k \in DOMAIN done, done[k][1] = t, done[k][3] PROVE FALSE
    BY <2>4, <2>13 DEF HasFresh, FreshDone, FreshIn
  <2> QED
    BY <2>5, <2>6, <2>10, <2>11, <2>12, <2>13
<1> QED
  BY <1>1, UInvAlways, PTL

(* The references the transfers hold, counted by their submissions: those  *)
(* whose callback is due, at most one each.                                *)
DueAt(h) == {w \in Transfers \X (1 .. 2) : w[2] <= h[w[1]]}

LEMMA DueFinite ==
    ASSUME IsFiniteSet(Transfers), NEW g
    PROVE  IsFiniteSet(DueAt(g)) /\ Cardinality(DueAt(g)) \in Nat
<1>1. 1 \in Int /\ 2 \in Int
  OBVIOUS
<1>2. IsFiniteSet(1 .. 2)
  BY <1>1, FS_Interval
<1>3. IsFiniteSet(Transfers \X (1 .. 2))
  BY <1>2, FS_Product
<1>4. DueAt(g) \in SUBSET (Transfers \X (1 .. 2))
  BY DEF DueAt
<1> QED
  BY <1>3, <1>4, FS_Subset, FS_CardinalityType

LEMMA DueChanges ==
    ASSUME IsFiniteSet(Transfers), NEW g, NEW h, NEW t \in Transfers,
           \A s \in Transfers : g[s] \in {0, 1} /\ h[s] = IF s = t THEN 1 ELSE g[s],
           g[t] = 0
    PROVE  /\ Cardinality(DueAt(g)) \in Nat
           /\ Cardinality(DueAt(h)) = Cardinality(DueAt(g)) + 1
<1>3. IsFiniteSet(DueAt(g)) /\ Cardinality(DueAt(g)) \in Nat
  BY DueFinite
<1>4. <<t, 1>> \notin DueAt(g)
  BY DEF DueAt
<1>5. \A w \in Transfers \X (1 .. 2) : w = <<w[1], w[2]>> /\ w[1] \in Transfers /\ w[2] \in {1, 2}
  OBVIOUS
<1>6. DueAt(h) = DueAt(g) \cup {<<t, 1>>}
  <2>1. ASSUME NEW w \in DueAt(h) PROVE w \in DueAt(g) \cup {<<t, 1>>}
    BY <1>5, <2>1 DEF DueAt
  <2>2. ASSUME NEW w \in DueAt(g) PROVE w \in DueAt(h)
    BY <1>5, <2>2 DEF DueAt
  <2>3. <<t, 1>> \in DueAt(h)
    BY DEF DueAt
  <2> QED
    BY <2>1, <2>2, <2>3
<1> QED
  <2>1. Cardinality(DueAt(g) \cup {<<t, 1>>}) = Cardinality(DueAt(g)) + 1
    BY <1>3, <1>4, FS_AddElement
  <2> QED
    BY <1>3, <1>6, <2>1

LEMMA DueSame ==
    ASSUME NEW g, NEW h, \A s \in Transfers : h[s] = g[s]
    PROVE  DueAt(h) = DueAt(g)
  BY DEF DueAt

(* A step that moves no reference. *)
Quiet == refs' = refs /\ held' = held /\ open' = open /\ Owed' = Owed

LEMMA QuietSteps ==
    ASSUME UInv, [Next]_vars
    PROVE  \/ Quiet
           \/ \E p \in Threads : Submitted(p)
           \/ Callback \/ Unref \/ Close
<1> USE DEF UInv
<1>1. Basics
  BY TypesGiveBasics
<1>2. CASE UNCHANGED vars
  BY <1>2 DEF vars, locks, kernel, thread, event, ghost, Quiet, Owed
<1>3. ASSUME NEW p \in Threads, Submit(p) PROVE Quiet \/ Submitted(p)
  <2>1. ASSUME SubmitTakeList(p) \/ SubmitBusy(p) \/ SubmitEnlist(p) \/ SubmitUndo(p) PROVE Quiet
    <3>1. refs' = refs /\ held' = held /\ open' = open /\ back' = back
      BY <2>1 DEF SubmitTakeList, SubmitBusy, SubmitEnlist, SubmitUndo, thread, ghost
    <3>2. /\ \A q \in Threads \ {p} : pc'[q] = pc[q]
          /\ pc[p] \in Submitting
          /\ \/ pc'[p] \in Submitting
             \/ pc'[p] = IF back[p] = "wait" THEN "rest" ELSE back[p]
             \/ pc'[p] = back[p]
      BY <1>1, <2>1 DEF SubmitTakeList, SubmitBusy, SubmitEnlist, SubmitUndo, Go, Basics, Submitting
    <3> QED
      BY <1>1, <3>1, <3>2 DEF Quiet, Owed, Basics, Places, Submitting
  <2>2. ASSUME UrbAccepted(p) \/ FirstUrbRefused(p) \/ \E st \in {"full", "unlinked"} : LaterUrbRefused(p, st)
        PROVE Quiet
    <3>1. refs' = refs /\ held' = held /\ open' = open /\ back' = back
      BY <2>2 DEF UrbAccepted, FirstUrbRefused, LaterUrbRefused, ghost
    <3>2. \A q \in Threads : pc'[q] = pc[q] \/ (pc[q] \in Submitting /\ pc'[q] \in Submitting)
      BY <1>1, <2>2, ZenonT(60) DEF UrbAccepted, FirstUrbRefused, LaterUrbRefused, Go, Basics, Submitting
    <3> QED
      BY <1>1, <3>1, <3>2 DEF Quiet, Owed, Basics, Submitting
  <2> QED
    BY <1>3, <2>1, <2>2 DEF Submit
<1>4. ASSUME NEW p \in Threads, Timeouts(p) \/ TimeoutsTakeList(p) PROVE Quiet
  <2>1. refs' = refs /\ held' = held /\ open' = open
    BY <1>4 DEF Timeouts, HandleTimeout, TimeoutMark, TimeoutsEnd, TimeoutsTakeList, ghost
  <2>2. /\ \A q \in Threads \ {p} : pc'[q] = pc[q] /\ back'[q] = back[q]
        /\ pc[p] \in {"expire", "mark", "rest", "wait"}
        /\ pc'[p] \in {"expire", "mark"} \/ (pc'[p] = back[p] /\ pc[p] = "expire")
    BY <1>1, <1>4 DEF Timeouts, HandleTimeout, TimeoutMark, TimeoutsEnd, TimeoutsTakeList, Go, Basics
  <2> QED
    BY <1>1, <2>1, <2>2 DEF Quiet, Owed, Basics, Places, Submitting
<1>5. ASSUME Completion PROVE Quiet \/ Callback \/ Unref
  <2>1. ASSUME NEW kst \in {"full", "unlinked"}, BulkCompletion(kst) PROVE Quiet
    <3>1. refs' = refs /\ held' = held /\ open' = open /\ back' = back
      BY <2>1 DEF BulkCompletion, ghost
    <3>2. pc["E"] = "complete" /\ pc'["E"] \in {"late", "remove", "reap"}
      <4>1. BulkEnds \/ BulkGoesOn
        BY <2>1, BulkEffect
      <4> QED
        BY <1>1, <4>1 DEF BulkEnds, BulkGoesOn, Basics
    <3> QED
      BY <3>1, <3>2 DEF Quiet, Owed, Submitting
  <2>2. ASSUME ControlCompletion \/ Cancellation \/ Remove \/ ClearInFlight PROVE Quiet
    <3>1. refs' = refs /\ held' = held /\ open' = open /\ back' = back
      BY <2>2 DEF ControlCompletion, Cancellation, Remove, ClearInFlight, ghost
    <3>2. pc["E"] \in {"complete", "late", "remove", "clear"} /\ pc'["E"] \in {"late", "remove", "clear", "callback"}
      BY <1>1, <2>2 DEF ControlCompletion, Cancellation, Remove, ClearInFlight, Go, Basics
    <3> QED
      BY <3>1, <3>2 DEF Quiet, Owed, Submitting
  <2> QED
    BY <1>5, <2>1, <2>2 DEF Completion
<1>6. ASSUME Events PROVE Quiet
  <2>1. refs' = refs /\ held' = held /\ open' = open /\ back' = back
    BY <1>6 DEF Events, EventsStart, EventsError, Reap, ReapEnd, ScanTakeList, ScanOne, ScanEnd,
       ClearPriv, thread, ghost
  <2>2. /\ pc["E"] \in {"rest", "reap", "scan", "scanning", "clearpriv"}
        /\ pc'["E"] \in {"rest", "reap", "scan", "scanning", "clearpriv", "complete", "remove"}
    <3>1. CASE EventsStart \/ EventsError \/ ReapEnd \/ ScanTakeList \/ ScanEnd \/ ClearPriv
      BY <1>1, <3>1 DEF EventsStart, EventsError, ReapEnd, ScanTakeList, ScanEnd, ClearPriv, Go, Basics
    <3>2. CASE Reap
      BY <1>1, <3>2 DEF Reap, Go, Basics
    <3>3. CASE \E t \in Transfers : ScanOne(t)
      BY <1>1, <3>3 DEF ScanOne, Go, Basics
    <3> QED
      BY <1>6, <3>1, <3>2, <3>3 DEF Events
  <2> QED
    BY <2>1, <2>2 DEF Quiet, Owed, Submitting
<1>7. ASSUME Calls PROVE Quiet \/ Close
  <2>1. ASSUME NEW p \in Threads, NEW t \in Bulk, SubmitCall(p, t) PROVE Quiet
    <3>1. /\ refs' = refs /\ held' = held /\ open' = open
          /\ \A q \in Threads \ {p} : pc'[q] = pc[q] /\ back'[q] = back[q]
          /\ pc[p] = "rest" /\ pc'[p] = "list" /\ back'[p] = "rest"
      BY <1>1, <2>1 DEF SubmitCall, Go, Basics, ghost
    <3> QED
      BY <1>1, <3>1 DEF Quiet, Owed, Basics, Submitting
  <2>2. ASSUME NEW p \in Callers, NEW t \in Control, ControlCall(p, t) PROVE Quiet
    <3>1. /\ refs' = refs /\ held' = held /\ open' = open /\ p # "E"
          /\ pc'["E"] = pc["E"] /\ back'["E"] = back["E"]
      BY <1>1, <2>2 DEF ControlCall, Go, Basics, ghost
    <3> QED
      BY <3>1 DEF Quiet, Owed
  <2>3. ASSUME (\E p \in Threads, t \in Bulk, st \in {"full", "unlinked"} : CancelTransfer(p, t, st))
               \/ \E p \in Callers, st \in {"full", "unlinked"} : SyncCancel(p, st)
        PROVE  Quiet
    BY <2>3 DEF CancelTransfer, SyncCancel, thread, Quiet, Owed
  <2> QED
    BY <1>4, <1>7, <2>1, <2>2, <2>3 DEF Calls
<1>8. ASSUME (\E e \in queued, st \in UrbStatus : KernelCompletes(e, st)) \/ Unplug PROVE Quiet
  BY <1>8 DEF KernelCompletes, Unplug, thread, ghost, Quiet, Owed
<1>9. ASSUME NEW p \in Callers, WaitEnds(p) PROVE Quiet
  <2>1. refs' = refs /\ held' = held /\ open' = open /\ back' = back /\ pc'["E"] = pc["E"]
    BY <1>1, <1>9 DEF WaitEnds, Go, Basics, ghost
  <2> QED
    BY <2>1 DEF Quiet, Owed
<1>10. "E" \in Threads /\ Callers \subseteq Threads
  BY DEF Threads
<1>11. CASE Next
  BY <1>2, <1>3, <1>4, <1>5, <1>6, <1>7, <1>8, <1>9, <1>10, <1>11 DEF Next, Handler, Caller, Rest
<1> QED
  BY <1>2, <1>11

LEMMA RefsKept ==
    ASSUME IsFiniteSet(Transfers), UInv, UInv', RefsExact, [Next]_vars
    PROVE  RefsExact'
<1> USE DEF UInv
<1>1. Basics
  BY TypesGiveBasics
<1>2. /\ refs = (IF open THEN 1 ELSE 0) + Owed + Cardinality(DueAt(held)) /\ refs \in Int
      /\ \A s \in Transfers : held[s] \in {0, 1} /\ held'[s] \in {0, 1}
  BY DEF RefsExact, DueAt, HeldInv, TypeOK
<1>3. SUFFICES refs' = (IF open' THEN 1 ELSE 0) + Owed' + Cardinality(DueAt(held'))
  BY DEF RefsExact, DueAt
<1>4. CASE Quiet
  BY <1>2, <1>4 DEF Quiet
<1>5. ASSUME NEW p \in Threads, Submitted(p) PROVE refs' = (IF open' THEN 1 ELSE 0) + Owed' + Cardinality(DueAt(held'))
  <2>1. PICK t \in Transfers : t = cur[p]
    BY <1>1 DEF Basics
  <2>2. /\ refs' = refs + 1 /\ open' = open /\ back' = back /\ held[t] = 0 /\ pc[p] = "submitted"
        /\ pc' = [pc EXCEPT ![p] = back[p]] /\ held' = [held EXCEPT ![t] = @ + 1]
    BY <1>5, <2>1 DEF Submitted, Go, OneSubmitter, Submitting
  <2>3. \A s \in Transfers : held'[s] = IF s = t THEN 1 ELSE held[s]
    BY <1>1, <2>2 DEF Basics
  <2>4. PICK g, h : g = held /\ h = held'
    OBVIOUS
  <2>5. Cardinality(DueAt(g)) \in Nat /\ Cardinality(DueAt(h)) = Cardinality(DueAt(g)) + 1
    BY <1>2, <2>2, <2>3, <2>4, DueChanges, ZenonT(60)
  <2>6. Owed' = Owed
    BY <1>1, <2>2 DEF Owed, Basics, Places, Submitting
  <2>7. Owed \in {0, 1}
    BY DEF Owed
  <2> QED
    BY <1>2, <2>2, <2>4, <2>5, <2>6, <2>7
<1>6. CASE Callback
  <2>1. PICK t \in Transfers : t = cur["E"]
    BY <1>1 DEF Basics
  <2>2. /\ refs' = refs /\ open' = open /\ held[t] = 1 /\ pc["E"] = "callback"
        /\ held' = [held EXCEPT ![t] = @ - 1]
        /\ pc'["E"] = "unref" \/ (pc'["E"] = "list" /\ back'["E"] = "unref")
    BY <1>1, <1>6, <2>1 DEF Callback, Go, HeldInv, Basics
  <2>3. /\ held'[t] = 0
        /\ \A s \in Transfers : held[s] = IF s = t THEN 1 ELSE held'[s]
    BY <1>1, <2>2 DEF Basics
  <2>4. PICK g, h : g = held /\ h = held'
    OBVIOUS
  <2>5. Cardinality(DueAt(h)) \in Nat /\ Cardinality(DueAt(g)) = Cardinality(DueAt(h)) + 1
    BY <1>2, <2>3, <2>4, DueChanges
  <2>6. Owed' = 1 /\ Owed = 0
    BY <2>2 DEF Owed, Submitting
  <2> QED
    BY <1>2, <2>2, <2>4, <2>5, <2>6
<1>7. CASE Unref
  <2>1. /\ refs' = refs - 1 /\ open' = open /\ held' = held /\ pc["E"] = "unref"
        /\ pc'["E"] \in {"scan", "reap"}
    BY <1>1, <1>7 DEF Unref, Go, Basics, ghost
  <2>2. Owed' = 0 /\ Owed = 1
    BY <2>1 DEF Owed, Submitting
  <2>3. Cardinality(DueAt(held)) \in Int
    <3>1. PICK g : g = held
      OBVIOUS
    <3> QED
      BY <3>1, DueFinite
  <2> QED
    BY <1>2, <2>1, <2>2, <2>3
<1>8. CASE Close
  <2>1. refs' = refs - 1 /\ open /\ ~open' /\ held' = held /\ Owed' = Owed /\ Owed \in {0, 1}
    BY <1>8 DEF Close, thread, ghost, Owed
  <2>2. Cardinality(DueAt(held)) \in Int
    <3>1. PICK g : g = held
      OBVIOUS
    <3> QED
      BY <3>1, DueFinite
  <2> QED
    BY <1>2, <2>1, <2>2
<1> QED
  BY <1>4, <1>5, <1>6, <1>7, <1>8, QuietSteps

(***************************************************************************)
(* The device's references are the handle's and one for every submission   *)
(* whose completion has not returned, over refused submissions, partial    *)
(* ones and a close: libusb_unref_device() never frees it early.           *)
(***************************************************************************)
THEOREM RefsAlways == SingleUse /\ IsFiniteSet(Transfers) => (Spec => []RefsExact)
<1> SUFFICES ASSUME SingleUse, IsFiniteSet(Transfers) PROVE Spec => []RefsExact
  OBVIOUS
<1>1. Init => RefsExact
  <2> SUFFICES ASSUME Init PROVE RefsExact
    OBVIOUS
  <2>1. DueAt(held) = {}
    BY DEF Init, DueAt
  <2>2. Owed = 0
    BY DEF Init, Owed, Threads, Submitting
  <2> QED
    <3>1. RefsExact <=> refs = (IF open THEN 1 ELSE 0) + Owed + Cardinality(DueAt(held))
      BY DEF RefsExact, DueAt
    <3>2. Cardinality(DueAt(held)) = 0
      BY <2>1, FS_EmptySet
    <3> QED
      BY <2>2, <3>1, <3>2 DEF Init
<1>2. RefsExact /\ UInv /\ UInv' /\ [Next]_vars => RefsExact'
  BY RefsKept
<1> QED
  BY <1>1, <1>2, UInvAlways, PTL DEF Spec

=============================================================================
