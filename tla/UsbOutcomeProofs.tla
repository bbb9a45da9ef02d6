--------------------------- MODULE UsbOutcomeProofs ---------------------------
(***************************************************************************)
(* What UsbTransfer reports of its transfers: that a cancel is heard of    *)
(* (CancelIsReported) and that a result waits for the last URB             *)
(* (ReapedIsAwaited), for any threads, transfers and number of URBs.       *)
(*                                                                         *)
(* Both rest on UInv and on where each URB is: UrbInv says that it is in   *)
(* one place once.  CancelInv then follows who cancelled a transfer from   *)
(* the cancel to the callback; AwaitInv counts the URBs that are out and   *)
(* keeps them in the order of their submission until one fails.            *)
(***************************************************************************)
EXTENDS UsbTransferProofs

(* The URB u of t, which carries it, is with the kernel; it has come back  *)
(* with status st and is in q; it is one or the other.                     *)
Queued(t, u)      == <<t, u, TRUE>> \in queued
Back(q, t, u, st) == \E k \in FreshIn(q, t) : q[k][2] = u /\ q[k][4] = st
Out(t) == {u \in 1 .. U : Queued(t, u) \/ \E st \in UrbStatus : Back(done, t, u, st)}

(* No URB is twice in q, or also with the kernel.                          *)
Apart(q) ==
    \A t \in Transfers :
        /\ \A j, k \in FreshIn(q, t) : q[j][2] = q[k][2] => j = k
        /\ \A k \in FreshIn(q, t) : ~Queued(t, q[k][2])

(* What the statuses of the URBs in q tell.                                *)
Told(q) ==
    \A t \in Transfers, u \in 1 .. U :
        /\ Back(q, t, u, "nodev") => unplugged
        /\ Back(q, t, u, "overflow") => u = Urbs(t)
        /\ Back(q, t, u, "stall") => "stall" \in Env

Virgin == [Idle EXCEPT !.urbs = TRUE]

(* While a submission fills its transfer in it has got as far as n.        *)
Filling(p) ==
    /\ pc[p] = "urbs" =>
         x[cur[p]] = Virgin /\ \A u \in 1 .. U : u \in Out(cur[p]) => u < n[p]
    /\ pc[p] = "submitted" =>
         /\ x[cur[p]].action \in {"NORMAL", "SUBMIT_FAILED", "COMPLETED_EARLY"}
         /\ x[cur[p]].expiry = {}

UrbInv == Apart(done) /\ Told(done) /\ \A p \in Threads : Filling(p)

AtClear(t) == pc["E"] = "clear" /\ cur["E"] = t
Marks(t)   == exp = t /\ \E p \in Threads : pc[p] = "mark"

(* Who cancelled t, in its state and in the URBs that come back.           *)
CancelOf(t) ==
    /\ accepted[t] # "none" =>
         InFlight(t) /\ Cancelling(t) /\ ~AtClear(t) /\ x[t].action = "CANCELLED"
    /\ InFlight(t) /\ ~AtClear(t) =>
         /\ x[t].action = "CANCELLED" => accepted[t] # "none"
         /\ "TIMED_OUT" \in x[t].expiry => accepted[t] = "timeout"
    /\ accepted[t] = "timeout" => "TIMED_OUT" \in x[t].expiry \/ Marks(t)
    /\ ~unplugged /\ Queued(t, Urbs(t)) => x[t].action = "NORMAL"
    /\ x[t].status \notin {"CANCELLED", "TIMED_OUT"}
    /\ x[t].status = "NO_DEVICE" => unplugged
    /\ \A u \in 1 .. U : t \in Control /\ Back(done, t, u, "unlinked") =>
         unplugged \/ x[t].action = "CANCELLED"

CancelInv ==
    /\ \A t \in Transfers : CancelOf(t)
    /\ \A p \in Threads : pc[p] = "mark" => accepted[exp] = "timeout"
    /\ pc["E"] = "late" => x[cur["E"]].action = "CANCELLED"
    /\ CancelIsReported

(* The URBs of t end in order: those in q, then those with the kernel.     *)
Ordered(q, t) ==
    /\ \A j, k \in FreshIn(q, t) : j < k => q[j][2] < q[k][2]
    /\ \A k \in FreshIn(q, t), u \in 1 .. U : Queued(t, u) => q[k][2] < u

(* What the completion of t still waits for.  As long as none of its URBs  *)
(* has failed they end in order, and the last of them ends it.             *)
AwaitOf(t) ==
    /\ Cardinality(Out(t)) + x[t].retired <= Urbs(t)
    /\ x[t].action = "NORMAL" =>
         /\ Ordered(done, t)
         /\ \A u \in 1 .. U : Queued(t, u) =>
              Queued(t, Urbs(t)) \/ \E p \in Threads : cur[p] = t /\ pc[p] = "urbs"

AllFresh == (\A e \in queued : e[3]) /\ \A k \in DOMAIN done : done[k][3]

AwaitInv ==
    /\ \A t \in Transfers : AwaitOf(t)
    /\ poll \in {"live", "err"} => AllFresh
    /\ pc["E"] \in {"reap", "complete"} => poll \in {"live", "err"}

-----------------------------------------------------------------------------
(* How the URBs that have come back move.                                  *)

(* Those in r that carry their transfer were in q, in the same order.      *)
Fades(r, q) ==
    \E d \in Nat : \A k \in DOMAIN r : r[k][3] => k + d \in DOMAIN q /\ r[k] = q[k + d]

(* t's come back behind those in q, with a status in S.                    *)
Returns(t, q, S) ==
    /\ queued' \subseteq queued /\ done' \in Seq(Endings) /\ Len(q) <= Len(done')
    /\ \A k \in 1 .. Len(q) : done'[k] = q[k]
    /\ \A k \in Len(q) + 1 .. Len(done') :
         /\ done'[k][1] = t /\ done'[k][3] /\ done'[k][4] \in S
         /\ Queued(t, done'[k][2]) /\ <<t, done'[k][2], TRUE>> \notin queued'
    /\ \A j, k \in Len(q) + 1 .. Len(done') : done'[j][2] = done'[k][2] => j = k

LEMMA FadesKeep ==
    ASSUME NEW q \in Seq(Endings), NEW r \in Seq(Endings), Fades(r, q)
    PROVE  /\ \A t, u, st : Back(r, t, u, st) => Back(q, t, u, st)
           /\ Apart(q) => Apart(r)
           /\ Told(q) => Told(r)
           /\ \A t : Ordered(q, t) => Ordered(r, t)
<1>1. PICK d \in Nat : \A k \in DOMAIN r : r[k][3] => k + d \in DOMAIN q /\ r[k] = q[k + d]
  BY DEF Fades
<1>2. \A t : \A k \in FreshIn(r, t) : k + d \in FreshIn(q, t) /\ r[k] = q[k + d] /\ k \in Nat
  BY <1>1 DEF FreshIn
<1>3. \A t, u, st : Back(r, t, u, st) => Back(q, t, u, st)
  BY <1>2 DEF Back
<1>4. ASSUME Apart(q) PROVE Apart(r)
  <2> SUFFICES ASSUME NEW t \in Transfers
      PROVE /\ \A j, k \in FreshIn(r, t) : r[j][2] = r[k][2] => j = k
            /\ \A k \in FreshIn(r, t) : ~Queued(t, r[k][2])
    BY DEF Apart
  <2>1. ASSUME NEW j \in FreshIn(r, t), NEW k \in FreshIn(r, t), r[j][2] = r[k][2] PROVE j = k
    <3>1. j + d = k + d /\ j \in Nat /\ k \in Nat
      BY <1>2, <1>4, <2>1, SMTT(30) DEF Apart
    <3> QED
      BY <3>1
  <2> QED
    BY <1>2, <1>4, <2>1 DEF Apart
<1>5. Told(q) => Told(r)
  BY <1>3 DEF Told
<1>6. ASSUME NEW t, Ordered(q, t) PROVE Ordered(r, t)
  <2>1. ASSUME NEW j \in FreshIn(r, t), NEW k \in FreshIn(r, t), j < k PROVE r[j][2] < r[k][2]
    <3>1. j + d < k + d
      BY <1>2, <2>1
    <3> QED
      BY <1>2, <1>6, <3>1 DEF Ordered
  <2>2. ASSUME NEW k \in FreshIn(r, t), NEW u \in 1 .. U, Queued(t, u) PROVE r[k][2] < u
    BY <1>2, <1>6, <2>2 DEF Ordered
  <2> QED
    BY <2>1, <2>2 DEF Ordered
<1> QED
  BY <1>3, <1>4, <1>5, <1>6

(* What stays, what loses its first URB and what loses t's transfer fades. *)
LEMMA SameFades == ASSUME NEW q \in Seq(Endings) PROVE Fades(q, q)
<1>1. \A k \in DOMAIN q : k + 0 = k
  OBVIOUS
<1> QED
  BY <1>1 DEF Fades

LEMMA TailFades == ASSUME NEW q \in Seq(Endings), q # <<>> PROVE Fades(Tail(q), q)
<1>1. \A k \in DOMAIN Tail(q) : k + 1 \in DOMAIN q /\ Tail(q)[k] = q[k + 1]
  OBVIOUS
<1> QED
  BY <1>1 DEF Fades

LEMMA StaleFades ==
    ASSUME NEW q \in Seq(Endings), NEW t \in Transfers, NEW r, r = StaleDone(t, q)
    PROVE  r \in Seq(Endings) /\ Fades(r, q) /\ FreshIn(r, t) = {}
<1>1. /\ r \in Seq(Endings) /\ Len(r) = Len(q)
      /\ \A k \in 1 .. Len(q) : r[k] = IF q[k][1] = t THEN <<t, q[k][2], FALSE, q[k][4]>> ELSE q[k]
  <2>1. /\ StaleDone(t, q) \in Seq(Endings) /\ Len(StaleDone(t, q)) = Len(q)
        /\ \A k \in 1 .. Len(q) : StaleDone(t, q)[k] = IF q[k][1] = t THEN <<t, q[k][2], FALSE, q[k][4]>> ELSE q[k]
    BY StaleSeq
  <2> QED
    BY <2>1, Zenon
<1>2. \A k \in 1 .. Len(q) : q[k] \in Endings
  OBVIOUS
<1>3. \A k \in 1 .. Len(q) : /\ r[k][3] => q[k][1] # t /\ r[k] = q[k]
                             /\ r[k][1] = t => ~r[k][3]
  <2> TAKE k \in 1 .. Len(q)
  <2>1. CASE q[k][1] = t
    <3>1. r[k] = <<t, q[k][2], FALSE, q[k][4]>>
      BY <1>1, <2>1
    <3> QED
      BY <2>1, <3>1
  <2>2. CASE q[k][1] # t
    BY <1>1, <2>2
  <2> QED
    BY <2>1, <2>2
<1>4. DOMAIN r = 1 .. Len(q) /\ DOMAIN q = 1 .. Len(q) /\ \A k \in 1 .. Len(q) : k + 0 = k
  BY <1>1
<1>5. FreshIn(r, t) = {}
  BY <1>3, <1>4 DEF FreshIn
<1>6. \A k \in DOMAIN r : r[k][3] => k + 0 \in DOMAIN q /\ r[k] = q[k + 0]
  BY <1>3, <1>4
<1> QED
  BY <1>1, <1>5, <1>6 DEF Fades

LEMMA FadesTwice ==
    ASSUME NEW q \in Seq(Endings), NEW r \in Seq(Endings), NEW s \in Seq(Endings),
           Fades(r, q), Fades(s, r)
    PROVE  Fades(s, q)
<1>1. PICK d \in Nat : \A k \in DOMAIN r : r[k][3] => k + d \in DOMAIN q /\ r[k] = q[k + d]
  BY DEF Fades
<1>2. PICK c \in Nat : \A k \in DOMAIN s : s[k][3] => k + c \in DOMAIN r /\ s[k] = r[k + c]
  BY DEF Fades
<1>3. c + d \in Nat /\ \A k \in DOMAIN s : k + (c + d) = (k + c) + d
  OBVIOUS
<1>4. \A k \in DOMAIN s : s[k][3] => k + (c + d) \in DOMAIN q /\ s[k] = q[k + (c + d)]
  BY <1>1, <1>2, <1>3
<1> QED
  BY <1>3, <1>4 DEF Fades

(* URBs that come back were out, and each of them comes back once.         *)
LEMMA ReturnsKeep ==
    ASSUME Basics, NEW t \in Transfers, NEW q \in Seq(Endings), NEW S, Returns(t, q, S)
    PROVE  /\ \A s, u, st : Back(done', s, u, st) =>
                Back(q, s, u, st) \/ (s = t /\ Queued(t, u) /\ <<t, u, TRUE>> \notin queued' /\ st \in S)
           /\ Apart(q) => Apart(done)'
<1>1. \A k \in DOMAIN q : k \in 1 .. Len(q)
  OBVIOUS
<1>2. ASSUME NEW k \in DOMAIN done'
      PROVE  \/ k \in 1 .. Len(q) /\ k \in DOMAIN q /\ done'[k] = q[k]
             \/ k \in Len(q) + 1 .. Len(done')
  <2>1. k \in 1 .. Len(done') /\ Len(q) \in Nat
    BY DEF Returns
  <2>2. CASE k <= Len(q)
    BY <2>1, <2>2 DEF Returns
  <2>3. CASE ~(k <= Len(q))
    BY <2>1, <2>3
  <2> QED
    BY <2>2, <2>3
<1>3. ASSUME NEW s, NEW k \in FreshIn(done', s)
      PROVE  \/ k \in FreshIn(q, s) /\ done'[k] = q[k] /\ k \in 1 .. Len(q)
             \/ s = t /\ k \in Len(q) + 1 .. Len(done')
  BY <1>2, <1>3 DEF FreshIn, Returns
<1>4. \A s, u, st : Back(done', s, u, st) =>
                Back(q, s, u, st) \/ (s = t /\ Queued(t, u) /\ <<t, u, TRUE>> \notin queued' /\ st \in S)
  <2> TAKE s, u, st
  <2> HAVE Back(done', s, u, st)
  <2>1. PICK k \in FreshIn(done', s) : done'[k][2] = u /\ done'[k][4] = st
    BY DEF Back
  <2> QED
    BY <1>3, <2>1 DEF Back, Returns
<1>5. ASSUME Apart(q) PROVE Apart(done)'
  <2> SUFFICES ASSUME NEW s \in Transfers
      PROVE /\ \A j, k \in FreshIn(done', s) : done'[j][2] = done'[k][2] => j = k
            /\ \A k \in FreshIn(done', s) : <<s, done'[k][2], TRUE>> \notin queued'
    BY DEF Apart, Queued
  <2>1. \A k \in FreshIn(q, s), j \in Len(q) + 1 .. Len(done') : s = t => done'[j][2] # q[k][2]
    BY <1>5 DEF Apart, Returns
  <2>2. ASSUME NEW j \in FreshIn(done', s), NEW k \in FreshIn(done', s), done'[j][2] = done'[k][2]
        PROVE  j = k
    BY <1>3, <1>5, <2>1, <2>2, SMTT(30) DEF Apart, Returns
  <2>3. ASSUME NEW k \in FreshIn(done', s) PROVE <<s, done'[k][2], TRUE>> \notin queued'
    <3>1. CASE k \in FreshIn(q, s) /\ done'[k] = q[k]
      BY <1>5, <3>1 DEF Apart, Returns, Queued
    <3>2. CASE s = t /\ k \in Len(q) + 1 .. Len(done')
      BY <3>2 DEF Returns
    <3> QED
      BY <1>3, <3>1, <3>2
  <2> QED
    BY <2>2, <2>3
<1> QED
  BY <1>4, <1>5

(* discard_urbs() returns URBs of t, the one in progress perhaps ended by  *)
(* itself, and leaves none of first .. last with the kernel.               *)
LEMMA DiscardReturns ==
    ASSUME Basics, NEW t \in Transfers, NEW first \in 1 .. U + 1, NEW last \in 0 .. U,
           NEW st \in {"full", "unlinked"}, NEW q \in Seq(Endings),
           Discard(t, first, last, st, q)
    PROVE  /\ Returns(t, q, {"full", "unlinked"})
           /\ ~unplugged => \A u \in first .. last : <<t, u, TRUE>> \notin queued'
           /\ (\A u \in first .. last : ~Queued(t, u)) => done' = q
<1>0. U \in Nat /\ first \in Int /\ last \in Int
  BY DEF Basics
<1>1. CASE unplugged
  <2>1. queued' = queued /\ done' = q
    BY <1>1 DEF Discard
  <2>2. Len(q) \in Nat /\ Len(q) <= Len(q) /\ Len(q) + 1 .. Len(q) = {}
    OBVIOUS
  <2>3. Len(done') = Len(q) /\ queued' \subseteq queued /\ done' \in Seq(Endings)
    BY <2>1
  <2>4. Returns(t, q, {"full", "unlinked"})
    BY <2>1, <2>2, <2>3, Zenon DEF Returns
  <2> QED
    BY <1>1, <2>1, <2>4
<1>2. CASE ~unplugged
  <2> DEFINE hit == {u \in first .. last : <<t, u, TRUE>> \in queued}
             above(u) == {v \in hit : v > u}
             nth(k) == CHOOSE u \in hit : Cardinality({v \in hit : v > u}) = k - 1
             C == Cardinality(hit)
             s == [k \in 1 .. C |-> <<t, nth(k), TRUE, IF k = C THEN st ELSE "unlinked">>]
  <2>1. queued' = queued \ {<<t, u, TRUE>> : u \in hit} /\ done' = q \o s
    BY <1>2 DEF Discard
  <2>2. IsFiniteSet(first .. last)
    BY <1>0, FS_Interval
  <2>a. first .. last \subseteq Int
    BY <1>0
  <2>b. hit \in SUBSET (first .. last)
    BY Zenon
  <2>3. hit \in SUBSET (first .. last) /\ hit \subseteq Int
    BY <2>a, <2>b, Zenon
  <2>4. IsFiniteSet(hit) /\ C \in Nat
    BY <2>2, <2>3, FS_Subset, FS_CardinalityType
  <2>5. \A k \in 1 .. C : nth(k) \in hit /\ Cardinality({v \in hit : v > nth(k)}) = k - 1
    <3> TAKE k \in 1 .. C
    <3>1. \E u \in hit : Cardinality({v \in hit : v > u}) = k - 1
      BY <2>3, <2>4, Ranked
    <3> QED
      BY <3>1
  <2>c. first .. last \subseteq 1 .. U
    BY <1>0
  <2>6. hit \subseteq 1 .. U
    BY <2>b, <2>c, Zenon
  <2> HIDE DEF nth
  <2>7. \A j, k \in 1 .. C : nth(j) = nth(k) => j = k
    <3> TAKE j, k \in 1 .. C
    <3> HAVE nth(j) = nth(k)
    <3>1. j - 1 = k - 1
      BY <2>5
    <3> QED
      BY <2>4, <3>1
  <2>h. \A u \in hit : Queued(t, u) /\ u \in first .. last
    BY DEF Queued
  <2>i. \A u \in first .. last : Queued(t, u) => u \in hit
    BY DEF Queued
  <2> HIDE DEF hit
  <2>8. s \in [1 .. C -> Endings]
    <3> SUFFICES ASSUME NEW k \in 1 .. C
        PROVE <<t, nth(k), TRUE, IF k = C THEN st ELSE "unlinked">> \in Endings
      OBVIOUS
    <3> QED
      BY <2>5, <2>6 DEF Endings, UrbStatus
  <2>9. \A k \in 1 .. C : s[k][1] = t /\ s[k][2] = nth(k) /\ s[k][3] /\ s[k][4] \in {"full", "unlinked"}
    OBVIOUS
  <2> HIDE DEF s
  <2>10. s \in Seq(Endings) /\ Len(s) = C
    BY <2>4, <2>8, IsSeq
  <2>11. /\ done' \in Seq(Endings) /\ Len(done') = Len(q) + C /\ Len(q) \in Nat
         /\ \A k \in 1 .. Len(q) : done'[k] = q[k]
         /\ \A k \in 1 .. C : done'[Len(q) + k] = s[k]
    BY <2>1, <2>10
  <2> HIDE DEF C
  <2>12. \A k \in Len(q) + 1 .. Len(done') : k - Len(q) \in 1 .. C /\ done'[k] = s[k - Len(q)]
    <3> TAKE k \in Len(q) + 1 .. Len(done')
    <3>1. k - Len(q) \in 1 .. C
      BY <2>4, <2>11
    <3>2. Len(q) + (k - Len(q)) = k
      BY <2>11
    <3> QED
      BY <2>11, <3>1, <3>2
  <2>13. \A k \in Len(q) + 1 .. Len(done') :
           /\ done'[k][1] = t /\ done'[k][3] /\ done'[k][4] \in {"full", "unlinked"}
           /\ Queued(t, done'[k][2]) /\ <<t, done'[k][2], TRUE>> \notin queued'
    <3> TAKE k \in Len(q) + 1 .. Len(done')
    <3>1. done'[k][2] \in hit /\ done'[k][1] = t /\ done'[k][3] /\ done'[k][4] \in {"full", "unlinked"}
      <4>1. PICK i \in 1 .. C : i = k - Len(q)
        BY <2>12
      <4>2. done'[k] = s[i]
        BY <2>12, <4>1
      <4> QED
        BY <2>5, <2>9, <4>2
    <3> QED
      BY <2>1, <2>h, <3>1
  <2>14. \A j, k \in Len(q) + 1 .. Len(done') : done'[j][2] = done'[k][2] => j = k
    <3> TAKE j, k \in Len(q) + 1 .. Len(done')
    <3> HAVE done'[j][2] = done'[k][2]
    <3>1. j - Len(q) = k - Len(q)
      BY <2>7, <2>9, <2>12, SMTT(30)
    <3> QED
      BY <2>11, <3>1
  <2>15. Returns(t, q, {"full", "unlinked"})
    <3>1. Len(q) <= Len(done') /\ queued' \subseteq queued
      <4>1. queued' \subseteq queued
        BY <2>1
      <4>2. PICK c \in Nat : c = C
        BY <2>4, Zenon
      <4>3. Len(done') = Len(q) + c /\ Len(q) \in Nat
        BY <2>11, <4>2
      <4> QED
        BY <4>1, <4>3
    <3> QED
      BY <2>11, <2>13, <2>14, <3>1, Zenon DEF Returns
  <2>16. \A u \in first .. last : <<t, u, TRUE>> \notin queued'
    BY <2>1, <2>i DEF Queued
  <2>17. ASSUME \A u \in first .. last : ~Queued(t, u) PROVE done' = q
    <3>1. hit = {}
      BY <2>h, <2>17
    <3>2. C = 0
      BY <3>1, FS_EmptySet DEF C
    <3>3. s = <<>>
      BY <2>10, <3>2
    <3> QED
      BY <2>1, <3>3
  <2> QED
    BY <2>15, <2>16, <2>17
<1> QED
  BY <1>1, <1>2

(* What happens to the URBs is all that Out can see of it.                 *)
Dwindles(s) ==
    \A u \in 1 .. U :
        /\ <<s, u, TRUE>> \in queued' => Queued(s, u)
        /\ \A st \in UrbStatus : Back(done', s, u, st) => Back(done, s, u, st) \/ Queued(s, u)

LEMMA OutShrinks ==
    ASSUME NEW s, Dwindles(s)
    PROVE  Out(s)' \subseteq Out(s)
  BY DEF Out, Queued, Back, FreshIn, Dwindles

-----------------------------------------------------------------------------
(* Which steps the invariants have to do with.                             *)

Marked == {"urbs", "submitted", "mark", "late", "remove", "clear"}

(* A thread moves outside the places that matter, E perhaps dropping an    *)
(* URB that carries no transfer.                                           *)
Calm ==
    /\ UNCHANGED <<x, accepted, queued, unplugged, exp>>
    /\ done' = done \/ (done # <<>> /\ ~Head(done)[3] /\ done' = Tail(done))
    /\ \A p \in Threads :
         \/ pc'[p] = pc[p] /\ cur'[p] = cur[p] /\ n'[p] = n[p]
         \/ pc[p] \notin Marked /\ pc'[p] \notin Marked
    /\ pc["E"] = "remove" => out' = out
    /\ poll' \in {"live", "err"} => poll \in {"live", "err"}
    /\ pc'["E"] \in {"reap", "complete"} =>
         poll' \in {"live", "err"} \/ (pc["E"] \in {"reap", "complete"} /\ poll' = poll)

Cancels ==
    \E t \in Transfers, st \in {"full", "unlinked"}, by \in {"user", "timeout"} :
        /\ Cancel(t, st, by)
        /\ \/ pc' = pc /\ exp' = exp /\ by = "user"
           \/ \E p \in Threads :
                /\ pc[p] = "expire" /\ exp' = t /\ t \in Control /\ by = "timeout"
                /\ Go(p, IF CancelReturn(t) = "OK" THEN "mark" ELSE "expire")
        /\ UNCHANGED <<unplugged, cur, n, poll, out>>

Step ==
    \/ Calm \/ Cancels \/ Unplug
    \/ \E e \in queued, st \in UrbStatus : KernelCompletes(e, st)
    \/ \E p \in Threads :
         \/ SubmitEnlist(p) \/ UrbAccepted(p) \/ FirstUrbRefused(p)
         \/ \E st \in {"full", "unlinked"} : LaterUrbRefused(p, st)
         \/ Submitted(p) \/ TimeoutMark(p)
    \/ \E st \in {"full", "unlinked"} : BulkCompletion(st)
    \/ ControlCompletion \/ Cancellation \/ Remove \/ ClearInFlight \/ ClearPriv

LEMMA Steps == ASSUME UInv, [Next]_vars PROVE Step
<1> USE DEF UInv
<1>1. Basics
  BY TypesGiveBasics
<1>e. "E" \in Threads
  BY DEF Threads
<1>2. CASE UNCHANGED vars
  <2>1. Calm
    BY <1>2 DEF vars, locks, kernel, thread, event, ghost, Calm
  <2> QED
    BY <2>1 DEF Step
<1>3. ASSUME NEW p \in Threads, Submit(p) PROVE Step
  <2>1. ASSUME SubmitTakeList(p) \/ SubmitBusy(p) \/ SubmitUndo(p) PROVE Calm
    <3>1. /\ UNCHANGED <<x, accepted, queued, unplugged, exp, done, cur, n, poll, out>>
          /\ \A q \in Threads \ {p} : pc'[q] = pc[q]
          /\ pc[p] \in {"list", "enlist", "undo"}
          /\ pc'[p] \in {"enlist", "rest", "wait", "unref"}
      BY <1>1, <2>1 DEF SubmitTakeList, SubmitBusy, SubmitUndo, Go, Basics, kernel, thread, event, ghost
    <3> QED
      BY <1>e, <3>1 DEF Calm, Marked
  <2> QED
    BY <1>3, <2>1 DEF Submit, Step
<1>4. ASSUME NEW p \in Threads, TimeoutsEnd(p) \/ TimeoutsTakeList(p) PROVE Step
  <2>1. /\ UNCHANGED <<x, accepted, queued, unplugged, exp, done, cur, n, poll, out>>
        /\ \A q \in Threads \ {p} : pc'[q] = pc[q]
        /\ pc[p] \in {"expire", "rest", "wait"}
        /\ pc'[p] \in {"expire", "rest", "wait", "unref"}
    BY <1>1, <1>4 DEF TimeoutsEnd, TimeoutsTakeList, Go, Basics, kernel, thread, event, ghost
  <2>2. Calm
    BY <1>e, <2>1 DEF Calm, Marked
  <2> QED
    BY <2>2 DEF Step
<1>5. ASSUME NEW p \in Threads, Timeouts(p) PROVE Step
  <2>1. ASSUME NEW t \in Control, NEW st \in {"full", "unlinked"}, HandleTimeout(p, t, st) PROVE Cancels
    <3>1. t \in Transfers
      BY DEF Transfers
    <3>2. UNCHANGED <<unplugged, cur, n, poll, out>>
      BY <2>1 DEF HandleTimeout, event
    <3> QED
      BY <2>1, <3>1, <3>2 DEF Cancels, HandleTimeout
  <2> QED
    BY <1>4, <1>5, <2>1 DEF Timeouts, Step
<1>6. ASSUME Callback \/ Unref PROVE Calm
  <2>1. /\ UNCHANGED <<x, accepted, queued, unplugged, exp, done, cur, n, poll>>
        /\ \A q \in Threads \ {"E"} : pc'[q] = pc[q]
        /\ pc["E"] \in {"callback", "unref"}
    BY <1>1, <1>6 DEF Callback, Unref, Go, Basics, kernel, thread, event, ghost
  <2>2. /\ pc'["E"] \in {"list", "unref", "scan", "reap"}
        /\ pc'["E"] = "reap" => pc["E"] = "unref" /\ poll # "scan"
    BY <1>1, <1>6 DEF Callback, Unref, Go, Basics
  <2>3. pc'["E"] = "reap" => poll \in {"live", "err"}
    BY <2>2 DEF ScanInv, TypeOK, Submitting
  <2> QED
    BY <2>1, <2>2, <2>3 DEF Calm, Marked
<1>7. ASSUME EventsStart \/ EventsError \/ ReapEnd \/ ScanTakeList \/ ScanEnd PROVE Calm
  <2>1. /\ UNCHANGED <<x, accepted, queued, unplugged, exp, done, cur, n, out>>
        /\ \A q \in Threads \ {"E"} : pc'[q] = pc[q]
        /\ pc["E"] \in {"rest", "reap", "scan", "scanning"}
        /\ pc'["E"] \in {"reap", "scan", "scanning", "rest"}
    BY <1>1, <1>7 DEF EventsStart, EventsError, ReapEnd, ScanTakeList, ScanEnd, Go, Basics, kernel, thread, event, ghost
  <2>2. /\ poll' \in {"live", "err"} => poll \in {"live", "err"}
        /\ pc'["E"] \in {"reap", "complete"} => poll' \in {"live", "err"}
    BY <1>1, <1>7 DEF EventsStart, EventsError, ReapEnd, ScanTakeList, ScanEnd, Go, Basics, event
  <2> QED
    BY <2>1, <2>2 DEF Calm, Marked
<1>8. ASSUME Reap PROVE Calm
  <2>1. /\ UNCHANGED <<x, accepted, queued, unplugged, exp, n, poll, out>>
        /\ \A q \in Threads \ {"E"} : pc'[q] = pc[q] /\ cur'[q] = cur[q]
        /\ pc["E"] = "reap" /\ pc'["E"] \in {"reap", "complete"}
        /\ done' = done \/ (done # <<>> /\ ~Head(done)[3] /\ done' = Tail(done))
    BY <1>1, <1>8 DEF Reap, Reapable, Go, Basics, event, ghost
  <2> QED
    BY <1>e, <2>1 DEF Calm, Marked
<1>9. ASSUME NEW t \in Transfers, ScanOne(t) PROVE Calm
  <2>1. /\ UNCHANGED <<x, accepted, queued, unplugged, exp, done, n, poll, out>>
        /\ \A q \in Threads \ {"E"} : pc'[q] = pc[q] /\ cur'[q] = cur[q]
        /\ pc["E"] = "scanning" /\ pc'["E"] \in {"scanning", "clearpriv"}
    BY <1>1, <1>9 DEF ScanOne, Go, Basics, kernel, ghost
  <2> QED
    BY <1>e, <2>1 DEF Calm, Marked
<1>10. ASSUME Events PROVE Step
  BY <1>7, <1>8, <1>9, <1>10 DEF Events, Step
<1>11. ASSUME Completion PROVE Step
  BY <1>6, <1>11 DEF Completion, Step
<1>12. ASSUME NEW p \in Threads, NEW t \in Transfers, SubmitCall(p, t) \/ ControlCall(p, t) PROVE Calm
  <2>1. /\ UNCHANGED <<x, accepted, queued, unplugged, exp, done, n, poll, out>>
        /\ \A q \in Threads \ {p} : pc'[q] = pc[q] /\ cur'[q] = cur[q]
        /\ pc[p] = "rest" /\ pc'[p] = "list"
    BY <1>1, <1>12 DEF SubmitCall, ControlCall, Go, Basics, kernel, event, ghost
  <2> QED
    BY <1>e, <2>1 DEF Calm, Marked
<1>13. ASSUME NEW p \in Threads, NEW t \in Transfers, NEW st \in {"full", "unlinked"},
              CancelTransfer(p, t, st)
       PROVE  Cancels
  <2>1. /\ Cancel(t, st, "user")
        /\ UNCHANGED <<pc, exp, unplugged, cur, n, poll, out>>
    BY <1>13 DEF CancelTransfer, thread, event
  <2> QED
    BY <2>1 DEF Cancels
<1>14. ASSUME NEW p \in Threads, NEW st \in {"full", "unlinked"}, SyncCancel(p, st) PROVE Cancels
  <2>1. /\ Cancel(cur[p], st, "user") /\ cur[p] \in Transfers
        /\ UNCHANGED <<pc, exp, unplugged, cur, n, poll, out>>
    BY <1>1, <1>14 DEF SyncCancel, thread, event, Basics
  <2> QED
    BY <2>1 DEF Cancels
<1>15. ASSUME Close PROVE Calm
  BY <1>15 DEF Close, Calm, kernel, thread, event, ghost
<1>16. Callers \subseteq Threads /\ "E" \in Threads /\ Bulk \subseteq Transfers /\ Control \subseteq Transfers
  BY DEF Threads, Transfers
<1>17. ASSUME Calls PROVE Step
  BY <1>4, <1>12, <1>13, <1>14, <1>15, <1>16, <1>17 DEF Calls, Step
<1>18. ASSUME NEW p \in Threads, WaitEnds(p) PROVE Calm
  <2>1. /\ UNCHANGED <<x, accepted, queued, unplugged, exp, done, cur, n, poll, out>>
        /\ \A q \in Threads \ {p} : pc'[q] = pc[q]
        /\ pc[p] = "wait" /\ pc'[p] = "rest"
    BY <1>1, <1>18 DEF WaitEnds, Go, Basics, kernel, event, ghost
  <2> QED
    BY <1>e, <2>1 DEF Calm, Marked
<1>19. ASSUME Handler \/ \E p \in Callers : Caller(p) PROVE Step
  BY <1>3, <1>5, <1>10, <1>11, <1>16, <1>18, <1>19 DEF Handler, Caller, Step
<1>20. CASE Next
  BY <1>2, <1>17, <1>19, <1>20 DEF Next, Rest, Step
<1> QED
  BY <1>2, <1>20

-----------------------------------------------------------------------------
(* UrbInv.                                                                 *)

(* E and the cancels stay away from a transfer that is being filled in.    *)
LEMMA Filled ==
    ASSUME UInv
    PROVE  /\ Basics
           /\ \A p \in Threads : pc[p] \in {"urbs", "submitted"} =>
                /\ cur[p] \in Transfers /\ tl[cur[p]] = p /\ p # "none" /\ ~InFlight(cur[p])
                /\ held[cur[p]] = 0
                /\ \A q \in Threads : pc[q] \in Submitting /\ cur[q] = cur[p] => q = p
           /\ \A p, q \in Threads : pc[p] \in {"urbs", "submitted"} /\ pc[q] \in {"urbs", "submitted"} /\ p # q
                => cur[p] # cur[q]
           /\ done \in Seq(Endings) /\ x \in [Transfers -> Fields]
<1> USE DEF UInv
<1>1. Basics
  BY TypesGiveBasics
<1>2. ASSUME NEW p \in Threads, pc[p] \in {"urbs", "submitted"}
      PROVE  /\ cur[p] \in Transfers /\ tl[cur[p]] = p /\ p # "none" /\ ~InFlight(cur[p])
             /\ held[cur[p]] = 0
             /\ \A q \in Threads : pc[q] \in Submitting /\ cur[q] = cur[p] => q = p
  <2>1. cur[p] \in Transfers /\ tl[cur[p]] = p /\ p # "none"
    BY <1>1, <1>2 DEF LocksExact, Basics
  <2>2. held[cur[p]] = 0
    BY <1>2 DEF OneSubmitter, Submitting
  <2>3. ~InFlight(cur[p])
    BY <2>1, <2>2 DEF HeldInv
  <2>4. \A q \in Threads : pc[q] \in Submitting /\ cur[q] = cur[p] => q = p
    BY <1>2 DEF OneSubmitter, Submits, Submitting
  <2> QED
    BY <2>1, <2>2, <2>3, <2>4
<1>3. done \in Seq(Endings) /\ x \in [Transfers -> Fields]
  BY DEF TypeOK, Fields, Endings
<1> QED
  BY <1>1, <1>2, <1>3 DEF Submitting

LEMMA FillingStays ==
    ASSUME Basics, NEW p \in Threads, Filling(p), Dwindles(cur[p]),
           pc'[p] = pc[p] /\ cur'[p] = cur[p] /\ n'[p] = n[p] /\ x'[cur[p]] = x[cur[p]]
    PROVE  Filling(p)'
<1>1. PICK s \in Transfers : s = cur[p]
  BY DEF Basics
<1>2. Out(s)' \subseteq Out(s)
  BY <1>1, OutShrinks
<1>3. Out(cur[p])' = Out(s)'
  BY <1>1 DEF Out, Queued
<1> QED
  BY <1>1, <1>2, <1>3 DEF Filling

LEMMA UrbsCarry ==
    ASSUME Basics, UrbInv, Apart(done)', Told(done)', \A s \in Transfers : Dwindles(s),
           \A p \in Threads : pc'[p] \in {"urbs", "submitted"} =>
               pc'[p] = pc[p] /\ cur'[p] = cur[p] /\ n'[p] = n[p] /\ x'[cur[p]] = x[cur[p]]
    PROVE  UrbInv'
<1>1. ASSUME NEW p \in Threads PROVE Filling(p)'
  <2>1. CASE pc'[p] \in {"urbs", "submitted"}
    BY <2>1, FillingStays DEF Basics, UrbInv
  <2>2. CASE pc'[p] \notin {"urbs", "submitted"}
    BY <2>2 DEF Filling
  <2> QED
    BY <2>1, <2>2
<1> QED
  BY <1>1 DEF UrbInv

(* URBs that only fade, none new to the kernel.                            *)
LEMMA UrbsFade ==
    ASSUME Basics, UrbInv, done \in Seq(Endings), done' \in Seq(Endings), Fades(done', done),
           \A s \in Transfers, u \in 1 .. U : <<s, u, TRUE>> \in queued' => Queued(s, u),
           unplugged => unplugged'
    PROVE  Apart(done)' /\ Told(done)' /\ \A s \in Transfers : Dwindles(s)
<1>1. PICK q \in Seq(Endings) : q = done'
  OBVIOUS
<1>2. PICK r \in Seq(Endings) : r = done
  OBVIOUS
<1>3. /\ \A t, u, st : Back(q, t, u, st) => Back(r, t, u, st)
      /\ Apart(r) => Apart(q)
      /\ Told(r) => Told(q)
  BY <1>1, <1>2, FadesKeep
<1>4. Apart(q) /\ Told(q)
  BY <1>2, <1>3 DEF UrbInv
<1>5. \A k \in DOMAIN q : q[k][2] \in 1 .. U
  <2>1. \A k \in DOMAIN q : q[k] \in Endings
    OBVIOUS
  <2> QED
    BY <2>1 DEF Endings
<1>6. Apart(done)'
  BY <1>1, <1>4, <1>5 DEF Apart, Queued, FreshIn
<1>7. Told(done)'
  BY <1>1, <1>4 DEF Told, Back
<1>8. \A s \in Transfers : Dwindles(s)
  BY <1>1, <1>2, <1>3 DEF Dwindles
<1> QED
  BY <1>6, <1>7, <1>8

(* URBs that come back behind those in q.                                  *)
LEMMA UrbsReturn ==
    ASSUME Basics, UrbInv, done \in Seq(Endings), NEW q \in Seq(Endings), Fades(q, done),
           NEW t \in Transfers, NEW S, Returns(t, q, S), unplugged' = unplugged,
           \A u \in 1 .. U, st \in S : Queued(t, u) /\ <<t, u, TRUE>> \notin queued' =>
               /\ st = "nodev" => unplugged
               /\ st = "overflow" => u = Urbs(t)
               /\ st = "stall" => "stall" \in Env
    PROVE  Apart(done)' /\ Told(done)' /\ \A s \in Transfers : Dwindles(s)
<1>1. PICK r \in Seq(Endings) : r = done
  OBVIOUS
<1>2. /\ \A s, u, st : Back(q, s, u, st) => Back(r, s, u, st)
      /\ Apart(r) => Apart(q)
      /\ Told(r) => Told(q)
  BY <1>1, FadesKeep
<1>3. Apart(q) /\ Told(q)
  BY <1>1, <1>2 DEF UrbInv
<1>4. /\ \A s, u, st : Back(done', s, u, st) =>
                Back(q, s, u, st) \/ (s = t /\ Queued(t, u) /\ <<t, u, TRUE>> \notin queued' /\ st \in S)
      /\ Apart(done)'
  BY <1>3, ReturnsKeep
<1>5. queued' \subseteq queued
  BY DEF Returns
<1>6. \A s \in Transfers : Dwindles(s)
  BY <1>1, <1>2, <1>4, <1>5 DEF Dwindles, Queued
<1>7. ASSUME NEW s \in Transfers, NEW u \in 1 .. U
      PROVE  /\ Back(done', s, u, "nodev") => unplugged'
             /\ Back(done', s, u, "overflow") => u = Urbs(s)
             /\ Back(done', s, u, "stall") => "stall" \in Env
  BY <1>3, <1>4 DEF Told
<1>8. Told(done)'
  BY <1>7 DEF Told, Back, Urbs
<1> QED
  BY <1>4, <1>6, <1>8

LEMMA DiscardUrbs ==
    ASSUME Basics, UrbInv, done \in Seq(Endings), NEW q \in Seq(Endings), Fades(q, done),
           NEW t \in Transfers, NEW first \in 1 .. U + 1, NEW last \in 0 .. U,
           NEW st \in {"full", "unlinked"}, Discard(t, first, last, st, q), unplugged' = unplugged
    PROVE  Apart(done)' /\ Told(done)' /\ \A s \in Transfers : Dwindles(s)
<1>1. Returns(t, q, {"full", "unlinked"})
  BY DiscardReturns
<1> QED
  BY <1>1, UrbsReturn

(* What the completion of a bulk URB does: u of t, with status e.          *)
BulkHandles(t, q, u, e, kst) ==
    LET f == x[t]  report == Reports(f, u, e) IN
    /\ pc["E"] = "complete" /\ t = cur["E"] /\ t \in Bulk /\ tl[t] = "none"
    /\ InFlight(t) /\ HasUrbs(t)
    /\ x' = [x EXCEPT ![t] = [f EXCEPT !.retired = @ + 1, !.action = NewAction(f, u, e),
                                       !.status = NewStatus(f, u, e), !.urbs = ~report]]
    /\ IF report
       THEN /\ queued' = Stale(t, queued) /\ done' = StaleDone(t, q)
            /\ out' = NewStatus(f, u, e)
            /\ Go("E", IF NewAction(f, u, e) = "CANCELLED" THEN "late" ELSE "remove")
       ELSE /\ IF f.action = "NORMAL" /\ TearsDown(f, u, e)
               THEN Discard(t, u + 1, U, kst, q)
               ELSE UNCHANGED queued /\ done' = q
            /\ Go("E", "reap") /\ UNCHANGED out
    /\ UNCHANGED <<unplugged, cur, n, exp, poll, accepted>>

(* The URB that E handles is the first of those that have come back.       *)
First(t, q, u, e) ==
    /\ Handled(t, q) /\ Head(done) = <<t, u, TRUE, e>> /\ Fades(q, done)
    /\ 1 \in FreshDone(t) /\ done[1] = <<t, u, TRUE, e>> /\ Back(done, t, u, e)

LEMMA HeadIs ==
    ASSUME UInv, pc["E"] = "complete", tl[cur["E"]] = "none"
    PROVE  \E t \in Transfers, q \in Seq(Endings), u \in 1 .. U, e \in UrbStatus : First(t, q, u, e)
<1> USE DEF UInv
<1>0. Basics
  BY TypesGiveBasics
<1>1. PICK t \in Transfers, q \in Seq(Endings) : Handled(t, q)
  BY HeadIsFresh
<1>2. done \in Seq(Endings) /\ done # <<>> /\ Head(done)[3] /\ Head(done)[1] = t /\ q = Tail(done)
  BY <1>1 DEF FreshInv, TypeOK, Endings, Handled
<1>3. Head(done) \in Endings
  BY <1>2
<1>4. PICK u \in 1 .. U, e \in UrbStatus : u = Head(done)[2] /\ e = Head(done)[4]
  <2>1. Head(done)[2] \in 1 .. U /\ Head(done)[4] \in UrbStatus
    BY <1>3 DEF Endings
  <2> QED
    BY <2>1, Zenon
<1>5. Head(done)[3] = TRUE
  <2>1. Head(done)[3] \in BOOLEAN
    BY <1>3 DEF Endings
  <2> QED
    BY <1>2, <2>1, Zenon
<1>6. Head(done) = <<t, u, TRUE, e>>
  <2>1. Head(done) = <<Head(done)[1], Head(done)[2], Head(done)[3], Head(done)[4]>>
    BY <1>3 DEF Endings
  <2> QED
    BY <1>2, <1>4, <1>5, <2>1
<1>7. 1 \in FreshDone(t) /\ done[1] = <<t, u, TRUE, e>>
  <2>1. 1 \in DOMAIN done /\ done[1] = Head(done)
    BY <1>2
  <2>2. done[1][1] = t /\ done[1][3]
    BY <1>2, <2>1
  <2> QED
    BY <1>6, <2>1, <2>2 DEF FreshDone, FreshIn
<1>8. Back(done, t, u, e)
  BY <1>7 DEF Back, FreshDone
<1>9. Fades(q, done)
  <2>1. PICK r \in Seq(Endings) : r = done
    BY <1>2
  <2>2. Fades(Tail(r), r)
    BY <1>2, <2>1, TailFades
  <2> QED
    BY <1>2, <2>1, <2>2
<1> QED
  BY <1>1, <1>6, <1>7, <1>8, <1>9 DEF First

LEMMA BulkIs ==
    ASSUME UInv, NEW kst \in {"full", "unlinked"}, BulkCompletion(kst)
    PROVE  \E t \in Transfers, q \in Seq(Endings), u \in 1 .. U, e \in UrbStatus :
             First(t, q, u, e) /\ BulkHandles(t, q, u, e, kst)
<1>1. PICK t \in Transfers, q \in Seq(Endings), u \in 1 .. U, e \in UrbStatus : First(t, q, u, e)
  BY HeadIs DEF BulkCompletion
<1>2. /\ x[t].urbs /\ InFlight(t) /\ HasUrbs(t) /\ t = cur["E"] /\ q = Tail(done)
      /\ Head(done)[2] = u /\ Head(done)[4] = e
  BY <1>1 DEF Handled, HasUrbs, First
<1>3. pc["E"] = "complete" /\ t \in Bulk /\ tl[t] = "none"
  BY <1>2 DEF BulkCompletion
<1> DEFINE r == [x[t] EXCEPT !.retired = @ + 1, !.action = NewAction(x[t], u, e),
                             !.status = NewStatus(x[t], u, e), !.urbs = ~Reports(x[t], u, e)]
<1>4. x' = [x EXCEPT ![t] = r]
  BY <1>2, ZenonT(60) DEF BulkCompletion
<1>5. UNCHANGED <<unplugged, cur, n, exp, poll, accepted>>
  BY DEF BulkCompletion, ghost
<1> HIDE DEF r
<1>6. IF Reports(x[t], u, e)
      THEN /\ queued' = Stale(t, queued) /\ done' = StaleDone(t, q)
           /\ out' = NewStatus(x[t], u, e)
           /\ Go("E", IF NewAction(x[t], u, e) = "CANCELLED" THEN "late" ELSE "remove")
      ELSE /\ IF x[t].action = "NORMAL" /\ TearsDown(x[t], u, e)
              THEN Discard(t, u + 1, U, kst, q)
              ELSE UNCHANGED queued /\ done' = q
           /\ Go("E", "reap") /\ UNCHANGED out
  BY <1>2 DEF BulkCompletion
<1> QED
  BY <1>1, <1>2, <1>3, <1>4, <1>5, <1>6 DEF BulkHandles, r

LEMMA StaleFewer ==
    ASSUME UInv, NEW t \in Transfers, queued' = Stale(t, queued)
    PROVE  /\ \A s, v : <<s, v, TRUE>> \in queued' => Queued(s, v) /\ s # t
           /\ \A e \in queued' : e[3] => e \in queued
<1>1. \A e \in queued' : e \in queued \/ \E c \in queued : e = <<t, c[2], FALSE>>
  BY DEF Stale
<1>2. ASSUME NEW s, NEW v, <<s, v, TRUE>> \in queued' PROVE <<s, v, TRUE>> \in queued /\ s # t
  <2>1. PICK c \in queued : <<s, v, TRUE>> = IF c[1] = t THEN <<t, c[2], FALSE>> ELSE c
    BY <1>2 DEF Stale
  <2>2. c[1] # t
    BY <2>1
  <2>3. c = <<s, v, TRUE>>
    BY <2>1, <2>2
  <2>4. c[1] = s
    BY <2>3
  <2> QED
    BY <2>2, <2>3, <2>4
<1>3. ASSUME NEW e \in queued', e[3] PROVE e \in queued
  <2>1. ASSUME NEW c \in queued, e = <<t, c[2], FALSE>> PROVE FALSE
    <3>1. e[3] = FALSE
      BY <2>1
    <3> QED
      BY <1>3, <3>1
  <2> QED
    BY <1>1, <2>1
<1> QED
  BY <1>2, <1>3 DEF Queued

LEMMA NoneFresh == ASSUME UInv, NEW p \in Threads, SubmitEnlist(p) PROVE ~HasFresh(cur[p])
<1>1. /\ Basics
      /\ \A q \in Threads : pc[q] \in {"urbs", "submitted"} =>
           \A s \in Threads : pc[s] \in Submitting /\ cur[s] = cur[q] => s = q
  BY Filled
<1>2. pc[p] = "enlist" /\ ~InFlight(cur[p]) /\ cur[p] \in Transfers
  BY <1>1 DEF SubmitEnlist, Basics
<1>3. \A q \in Threads : ~Fills(q, cur[p])
  BY <1>1, <1>2 DEF Fills, Submitting
<1> QED
  BY <1>2, <1>3 DEF UInv, FreshInv

(* A submission that stops at its URB m.                                   *)
Partial(p, t, m, a, k, st) ==
    /\ t = cur[p] /\ m = n[p] /\ m > 1 /\ t \in Bulk /\ k = U - m + 1
    /\ a \in {"SUBMIT_FAILED", "COMPLETED_EARLY"}
    /\ UNCHANGED <<unplugged, cur, n, exp, poll, out, accepted>>
    /\ pc[p] = "urbs" /\ pc' = [pc EXCEPT ![p] = "submitted"]
    /\ x' = [x EXCEPT ![t].action = a, ![t].retired = k]
    /\ UNCHANGED <<done, queued>> \/ Discard(t, 1, m - 1, st, done)

LEMMA LaterIs ==
    ASSUME UInv, UrbInv, NEW p \in Threads, NEW st \in {"full", "unlinked"}, LaterUrbRefused(p, st)
    PROVE  \E t \in Transfers, m \in 1 .. U, a \in Actions, k \in Nat : Partial(p, t, m, a, k, st)
<1>1. Basics
  BY TypesGiveBasics DEF UInv
<1>2. pc[p] = "urbs" /\ cur[p] \in Transfers /\ n[p] \in 1 .. Urbs(cur[p]) /\ n[p] > 1
      /\ Urbs(cur[p]) \in 1 .. U
  BY <1>1 DEF LaterUrbRefused, Basics, UInv, Counting
<1>3. cur[p] \notin Control /\ cur[p] \in Bulk /\ Urbs(cur[p]) = U
  BY <1>1, <1>2 DEF Basics, Urbs
<1>4. x[cur[p]].retired = 0
  BY <1>2 DEF UrbInv, Filling, Virgin, Idle
<1>5. PICK t \in Transfers, m \in 1 .. U, k \in Nat : t = cur[p] /\ m = n[p] /\ k = U - m + 1
  <2>1. n[p] \in 1 .. U
    BY <1>2, <1>3
  <2>2. U - n[p] + 1 \in Nat
    BY <1>1, <2>1 DEF Basics
  <2> QED
    BY <1>2, <2>1, <2>2
<1>6. x[t].retired + Urbs(t) - n[p] + 1 = k
  BY <1>1, <1>3, <1>4, <1>5 DEF Basics
<1>7. PICK a \in {"SUBMIT_FAILED", "COMPLETED_EARLY"} :
        /\ x' = [x EXCEPT ![t].action = a, ![t].retired = k]
        /\ UNCHANGED <<done, queued>> \/ Discard(t, 1, m - 1, st, done)
  <2>1. x \in [Transfers -> Fields]
    BY DEF UInv, TypeOK, Fields
  <2> QED
    BY <1>5, <1>6, <2>1 DEF LaterUrbRefused, kernel, Fields
<1>8. UNCHANGED <<unplugged, cur, n, exp, poll, out, accepted>> /\ pc' = [pc EXCEPT ![p] = "submitted"]
  BY DEF LaterUrbRefused, Go, kernel, event, ghost
<1> QED
  BY <1>2, <1>3, <1>5, <1>7, <1>8 DEF Partial, Actions

(* An URB that ends comes back once, with what its status tells.           *)
LEMMA CompletionUrbs ==
    ASSUME UInv, UrbInv, NEW e \in queued, NEW st \in UrbStatus, KernelCompletes(e, st)
    PROVE  Apart(done)' /\ Told(done)' /\ \A s \in Transfers : Dwindles(s)
<1>a. Basics /\ done \in Seq(Endings) /\ x \in [Transfers -> Fields]
  BY Filled
<1>b. Fades(done, done) /\ \A s, u : Queued(s, u) <=> <<s, u, TRUE>> \in queued
  <2>1. PICK r \in Seq(Endings) : r = done
    BY <1>a
  <2> QED
    BY <2>1, SameFades DEF Queued
<1>1. UNCHANGED <<x, unplugged, pc, cur, n>> /\ queued' = queued \ {e} /\ done' = Append(done, <<e[1], e[2], e[3], st>>)
  BY DEF KernelCompletes, thread
<1>2. /\ e = <<e[1], e[2], e[3]>> /\ e[1] \in Transfers /\ e[2] \in 1 .. U /\ e[3] \in BOOLEAN
      /\ Len(done) \in Nat
  BY <1>a DEF UInv, TypeOK
<1>3. /\ done' \in Seq(Endings) /\ Len(done') = Len(done) + 1
      /\ \A k \in 1 .. Len(done) : done'[k] = done[k]
      /\ done'[Len(done) + 1] = <<e[1], e[2], e[3], st>>
  BY <1>a, <1>1, <1>2 DEF Endings
<1>4. CASE e[3]
  <2>1. PICK t \in Transfers, u \in 1 .. U, r \in Seq(Endings) : t = e[1] /\ u = e[2] /\ r = done
    BY <1>a, <1>2
  <2>2. e = <<t, u, TRUE>>
    <3>1. e[3] = TRUE
      BY <1>2, <1>4, Zenon
    <3> QED
      BY <1>2, <2>1, <3>1, Zenon
  <2>3. Queued(t, u) /\ <<t, u, TRUE>> \notin queued' /\ queued' \subseteq queued
    BY <1>1, <2>2 DEF Queued
  <2>4. Returns(t, r, {st})
    <3>1. \A k \in Len(r) + 1 .. Len(done') : k = Len(r) + 1
      BY <1>2, <1>3, <2>1
    <3>2. done'[Len(r) + 1] = <<t, u, TRUE, st>> /\ Len(r) <= Len(done')
      <4>1. e[1] = t /\ e[2] = u /\ e[3] = TRUE
        BY <2>2
      <4>2. Len(r) = Len(done)
        BY <2>1
      <4>3. done'[Len(r) + 1] = <<e[1], e[2], e[3], st>>
        BY <1>3, <4>2
      <4>4. Len(r) <= Len(done')
        BY <1>2, <1>3, <4>2
      <4> QED
        BY <4>1, <4>3, <4>4
    <3>3. \A k \in Len(r) + 1 .. Len(done') :
            /\ done'[k][1] = t /\ done'[k][3] /\ done'[k][4] \in {st}
            /\ Queued(t, done'[k][2]) /\ <<t, done'[k][2], TRUE>> \notin queued'
      <4> TAKE k \in Len(r) + 1 .. Len(done')
      <4>1. done'[k] = <<t, u, TRUE, st>>
        BY <3>1, <3>2
      <4>2. done'[k][1] = t /\ done'[k][2] = u /\ done'[k][3] = TRUE /\ done'[k][4] = st
        BY <4>1
      <4> QED
        BY <2>3, <4>2
    <3> QED
      BY <1>3, <2>1, <2>3, <3>1, <3>2, <3>3 DEF Returns
  <2>5. \A v \in 1 .. U : Queued(t, v) /\ <<t, v, TRUE>> \notin queued' => v = u
    <3> TAKE v \in 1 .. U
    <3> HAVE Queued(t, v) /\ <<t, v, TRUE>> \notin queued'
    <3>1. <<t, v, TRUE>> = e
      BY <1>1 DEF Queued
    <3> QED
      BY <2>2, <3>1
  <2>6. /\ st = "nodev" => unplugged
        /\ st = "overflow" => u = Urbs(t)
        /\ st = "stall" => "stall" \in Env
    BY <2>1 DEF KernelCompletes
  <2>7. \A v \in 1 .. U, z \in {st} : Queued(t, v) /\ <<t, v, TRUE>> \notin queued' =>
             /\ z = "nodev" => unplugged
             /\ z = "overflow" => v = Urbs(t)
             /\ z = "stall" => "stall" \in Env
    BY <2>5, <2>6
  <2>8. Apart(done)' /\ Told(done)' /\ \A s \in Transfers : Dwindles(s)
    BY <1>a, <1>b, <1>1, <2>1, <2>4, <2>7, UrbsReturn
  <2> QED
    BY <2>8
<1>5. CASE ~e[3]
  <2>1. Fades(done', done)
    <3>1. \A k \in DOMAIN done' : k \in 1 .. Len(done) \/ k = Len(done) + 1
      BY <1>2, <1>3
    <3>2. \A k \in DOMAIN done' : done'[k][3] => k \in DOMAIN done /\ k + 0 = k /\ done'[k] = done[k]
      BY <1>a, <1>2, <1>3, <1>5, <3>1
    <3> QED
      BY <3>2 DEF Fades
  <2>2. Apart(done)' /\ Told(done)' /\ \A s \in Transfers : Dwindles(s)
    BY <1>a, <1>b, <1>1, <1>3, <2>1, UrbsFade
  <2> QED
    BY <2>2
<1> QED
  BY <1>4, <1>5

(* The transfer's lock keeps the completion and the cancels away from what *)
(* a submission fills in.                                                  *)
LEMMA UrbsKept == ASSUME UInv, UrbInv, CancelInv, Step PROVE UrbInv'
<1>1. /\ Basics /\ done \in Seq(Endings) /\ x \in [Transfers -> Fields]
      /\ \A p \in Threads : pc[p] \in {"urbs", "submitted"} =>
                /\ cur[p] \in Transfers /\ tl[cur[p]] = p /\ p # "none" /\ ~InFlight(cur[p])
                /\ \A q \in Threads : pc[q] \in Submitting /\ cur[q] = cur[p] => q = p
  BY Filled
<1>2. Fades(done, done) /\ \A s, u : Queued(s, u) <=> <<s, u, TRUE>> \in queued
  <2>1. PICK r \in Seq(Endings) : r = done
    BY <1>1
  <2> QED
    BY <2>1, SameFades DEF Queued
<1>3. ASSUME done' = done, \A e \in queued' : e \in queued, unplugged => unplugged'
      PROVE  Apart(done)' /\ Told(done)' /\ \A s \in Transfers : Dwindles(s)
  BY <1>1, <1>2, <1>3, UrbsFade
<1>4. CASE Calm
  <2>1. done' \in Seq(Endings) /\ Fades(done', done)
    <3>1. PICK r \in Seq(Endings) : r = done
      BY <1>1
    <3>2. CASE done' = done
      BY <1>1, <1>2, <3>2
    <3>3. CASE r # <<>> /\ done' = Tail(r)
      BY <3>1, <3>3, TailFades
    <3> QED
      BY <1>4, <3>1, <3>2, <3>3 DEF Calm
  <2>2. queued' = queued /\ unplugged' = unplugged /\ x' = x
    BY <1>4 DEF Calm
  <2>3. Apart(done)' /\ Told(done)' /\ \A s \in Transfers : Dwindles(s)
    BY <1>1, <1>2, <2>1, <2>2, UrbsFade
  <2>4. \A p \in Threads : pc'[p] \in {"urbs", "submitted"} =>
          pc'[p] = pc[p] /\ cur'[p] = cur[p] /\ n'[p] = n[p]
    BY <1>4 DEF Calm, Marked
  <2> QED
    BY <1>1, <2>2, <2>3, <2>4, UrbsCarry
<1>5. CASE Unplug
  <2>1. UNCHANGED <<x, queued, done, pc, cur, n>> /\ unplugged'
    BY <1>5 DEF Unplug, thread
  <2> QED
    BY <1>1, <1>3, <2>1, UrbsCarry
<1>6. ASSUME NEW e \in queued, NEW st \in UrbStatus, KernelCompletes(e, st) PROVE UrbInv'
  <2>1. UNCHANGED <<x, unplugged, pc, cur, n>>
    BY <1>6 DEF KernelCompletes, thread
  <2>2. Apart(done)' /\ Told(done)' /\ \A s \in Transfers : Dwindles(s)
    BY <1>6, CompletionUrbs
  <2> QED
    BY <1>1, <2>1, <2>2, UrbsCarry
<1>7. CASE Cancels
  <2>1. PICK t \in Transfers, st \in {"full", "unlinked"}, by \in {"user", "timeout"} :
          /\ Cancel(t, st, by)
          /\ \/ pc' = pc
             \/ \E p \in Threads : pc[p] = "expire" /\ Go(p, IF CancelReturn(t) = "OK" THEN "mark" ELSE "expire")
          /\ UNCHANGED <<unplugged, cur, n>>
    BY <1>7 DEF Cancels
  <2>2. tl[t] = "none" /\ \A s \in Transfers \ {t} : x'[s] = x[s]
    BY <1>1, <2>1 DEF Cancel
  <2>3. Apart(done)' /\ Told(done)' /\ \A s \in Transfers : Dwindles(s)
    <3>1. CASE queued' = queued /\ done' = done
      BY <1>3, <2>1, <3>1
    <3>2. CASE Discard(t, 1, Urbs(t), st, done)
      <4>1. PICK f \in 1 .. U + 1, r \in Seq(Endings), l \in 0 .. U : f = 1 /\ r = done /\ l = Urbs(t)
        <5>1. 1 \in 1 .. U + 1 /\ Urbs(t) \in 0 .. U
          BY <1>1 DEF Basics
        <5> QED
          BY <1>1, <5>1
      <4>2. Discard(t, f, l, st, r)
        BY <3>2, <4>1
      <4> QED
        BY <1>1, <1>2, <2>1, <4>1, <4>2, DiscardUrbs
    <3> QED
      BY <2>1, <3>1, <3>2 DEF Cancel
  <2>4. \A p \in Threads : pc'[p] \in {"urbs", "submitted"} => pc'[p] = pc[p]
    <3>1. CASE pc' = pc
      BY <3>1
    <3>2. ASSUME NEW p \in Threads, pc[p] = "expire",
                 Go(p, IF CancelReturn(t) = "OK" THEN "mark" ELSE "expire")
          PROVE  \A q \in Threads : pc'[q] \in {"urbs", "submitted"} => pc'[q] = pc[q]
      BY <1>1, <3>2 DEF Go, Basics
    <3> QED
      BY <2>1, <3>1, <3>2
  <2>5. \A p \in Threads : pc[p] \in {"urbs", "submitted"} => cur[p] # t
    BY <1>1, <2>2
  <2> QED
    BY <1>1, <2>1, <2>2, <2>3, <2>4, <2>5, UrbsCarry
<1>a. ASSUME NEW p \in Threads, pc[p] \in Submitting,
             \A q \in Threads \ {p} : pc'[q] = pc[q] /\ cur'[q] = cur[q] /\ n'[q] = n[q],
             \A s \in Transfers \ {cur[p]} : x'[s] = x[s] /\ Dwindles(s)
      PROVE  \A q \in Threads \ {p} : Filling(q)'
  <2> TAKE q \in Threads \ {p}
  <2>1. CASE pc[q] \in {"urbs", "submitted"}
    <3>1. cur[q] \in Transfers \ {cur[p]}
      BY <1>1, <1>a, <2>1
    <3> QED
      BY <1>1, <1>a, <3>1, FillingStays DEF UrbInv
  <2>2. CASE pc[q] \notin {"urbs", "submitted"}
    BY <1>a, <2>2 DEF Filling
  <2> QED
    BY <2>1, <2>2
<1>8. ASSUME NEW p \in Threads, SubmitEnlist(p) PROVE UrbInv'
  <2>1. PICK t \in Transfers : t = cur[p]
    BY <1>1 DEF Basics
  <2>2. /\ UNCHANGED <<done, queued, unplugged, cur, n>>
        /\ pc[p] = "enlist" /\ pc' = [pc EXCEPT ![p] = "urbs"] /\ x' = [x EXCEPT ![t] = Virgin]
        /\ ~InFlight(t)
    BY <1>8, <2>1 DEF SubmitEnlist, Go, kernel, Virgin
  <2>3. Apart(done)' /\ Told(done)' /\ \A s \in Transfers : Dwindles(s)
    BY <1>3, <2>2
  <2>4. \A q \in Threads \ {p} : Filling(q)'
    BY <1>1, <1>a, <2>1, <2>2, <2>3 DEF Basics, Submitting
  <2>5. ~HasFresh(t)
    BY <1>8, <2>1, NoneFresh
  <2>6. Out(t) = {}
    <3>1. ASSUME NEW u \in 1 .. U, Queued(t, u) PROVE FALSE
      <4>1. u \in Nat
        BY <1>1 DEF Basics
      <4> QED
        BY <2>5, <3>1, <4>1 DEF Queued, HasFresh, FreshQueued
    <3>2. ASSUME NEW u, NEW st, Back(done, t, u, st) PROVE FALSE
      BY <2>5, <3>2 DEF Back, HasFresh, FreshDone
    <3> QED
      BY <3>1, <3>2 DEF Out
  <2>7. x'[t] = Virgin /\ pc'[p] = "urbs"
    BY <1>1, <2>2 DEF Basics
  <2>8. Out(cur[p])' = {}
    BY <2>1, <2>2, <2>6 DEF Out, Queued
  <2>9. Filling(p)'
    BY <2>1, <2>2, <2>7, <2>8 DEF Filling
  <2> QED
    BY <2>3, <2>4, <2>9 DEF UrbInv
<1>9. ASSUME NEW p \in Threads, UrbAccepted(p) PROVE UrbInv'
  <2>1. PICK t \in Transfers, m \in 1 .. U : t = cur[p] /\ m = n[p]
    <3>1. n[p] \in 1 .. U /\ cur[p] \in Transfers
      BY <1>1, <1>9 DEF UInv, Counting, UrbAccepted, Basics
    <3> QED
      BY <3>1
  <2>2. /\ UNCHANGED <<done, unplugged, cur, x>> /\ queued' = queued \cup {<<t, m, TRUE>>}
        /\ n' = [n EXCEPT ![p] = @ + 1] /\ pc[p] = "urbs"
        /\ pc' = [pc EXCEPT ![p] = IF m = Urbs(t) THEN "submitted" ELSE "urbs"]
    BY <1>9, <2>1 DEF UrbAccepted, Go
  <2>3. x[t] = Virgin /\ \A u \in 1 .. U : u \in Out(t) => u < m
    BY <2>1, <2>2 DEF UrbInv, Filling
  <2>4. \A k \in FreshIn(done, t) : done[k][2] # m
    <3> SUFFICES ASSUME NEW k \in FreshIn(done, t), done[k][2] = m PROVE FALSE
      OBVIOUS
    <3>1. done[k] \in Endings
      BY <1>1 DEF FreshIn
    <3>2. done[k][4] \in UrbStatus
      BY <3>1 DEF Endings
    <3>3. Back(done, t, m, done[k][4])
      BY DEF Back
    <3>4. m \in Out(t)
      BY <3>2, <3>3 DEF Out
    <3> QED
      BY <1>1, <2>3, <3>4 DEF Basics
  <2>5. Apart(done)'
    <3>1. Apart(done)
      BY DEF UrbInv
    <3>2. \A s \in Transfers : \A v : <<s, v, TRUE>> \in queued' => Queued(s, v) \/ (s = t /\ v = m)
      BY <2>2 DEF Queued
    <3>3. \A s : FreshIn(done', s) = FreshIn(done, s)
      BY <2>2
    <3>4. ASSUME NEW s \in Transfers, NEW k \in FreshIn(done, s) PROVE <<s, done[k][2], TRUE>> \notin queued'
      BY <2>4, <3>1, <3>2 DEF Apart
    <3> QED
      BY <2>2, <3>1, <3>3, <3>4 DEF Apart, Queued
  <2>6. Told(done)'
    BY <2>2 DEF UrbInv, Told, Back, FreshIn
  <2>7. \A s \in Transfers \ {t} : x'[s] = x[s] /\ Dwindles(s)
    BY <2>2 DEF Dwindles, Queued, Back, FreshIn
  <2>8. \A q \in Threads \ {p} : Filling(q)'
    BY <1>1, <1>a, <2>1, <2>2, <2>7 DEF Basics, Submitting
  <2>9. ASSUME NEW u \in 1 .. U, u \in Out(t)' PROVE u < m + 1
    <3>1. u \in Out(t) \/ u = m
      BY <2>2, <2>9 DEF Out, Queued, Back, FreshIn
    <3> QED
      BY <1>1, <2>3, <3>1 DEF Basics
  <2>10. n'[p] = m + 1 /\ pc'[p] \in {"urbs", "submitted"}
    BY <1>1, <2>1, <2>2 DEF Basics
  <2>11. Out(cur[p])' = Out(t)' /\ x'[cur'[p]] = Virgin
    BY <2>1, <2>2, <2>3 DEF Out, Queued
  <2>12. Virgin.action = "NORMAL" /\ Virgin.expiry = {}
    BY DEF Virgin, Idle
  <2>13. Filling(p)'
    BY <2>9, <2>10, <2>11, <2>12 DEF Filling
  <2> QED
    BY <2>5, <2>6, <2>8, <2>13 DEF UrbInv
<1>10. ASSUME NEW p \in Threads, FirstUrbRefused(p) \/ Submitted(p) PROVE UrbInv'
  <2>1. /\ done' = done /\ queued' = queued /\ unplugged' = unplugged /\ cur' = cur
        /\ \A q \in Threads \ {p} : pc'[q] = pc[q] /\ n'[q] = n[q]
        /\ pc[p] \in {"urbs", "submitted"} /\ pc'[p] \notin {"urbs", "submitted"}
        /\ \A s \in Transfers \ {cur[p]} : x'[s] = x[s]
    <3>1. CASE FirstUrbRefused(p)
      BY <1>1, <3>1 DEF FirstUrbRefused, Go, Basics, kernel
    <3>2. CASE Submitted(p)
      <4>1. UNCHANGED <<done, queued, unplugged, cur>> /\ pc[p] = "submitted"
        BY <3>2 DEF Submitted, kernel
      <4>2. n' = [n EXCEPT ![p] = 1] /\ pc' = [pc EXCEPT ![p] = back[p]]
        BY <3>2 DEF Submitted, Go
      <4>3. \A s \in Transfers \ {cur[p]} : x'[s] = x[s]
        BY <1>1, <3>2 DEF Submitted
      <4>4. pc'[p] = back[p] /\ \A q \in Threads \ {p} : pc'[q] = pc[q] /\ n'[q] = n[q]
        BY <1>1, <4>2 DEF Basics
      <4>5. back[p] \in {"rest", "wait", "unref"}
        BY <1>1 DEF Basics
      <4> QED
        BY <4>1, <4>3, <4>4, <4>5
    <3> QED
      BY <1>10, <3>1, <3>2
  <2>2. \A q \in Threads \ {p} : pc[q] \in {"urbs", "submitted"} => cur[q] # cur[p]
    BY <1>1, <2>1 DEF Submitting
  <2>3. \A q \in Threads \ {p} : pc[q] \in {"urbs", "submitted"} => x'[cur[q]] = x[cur[q]]
    BY <1>1, <2>1, <2>2
  <2> QED
    BY <1>1, <1>3, <2>1, <2>3, UrbsCarry
<1>11. ASSUME NEW p \in Threads, NEW st \in {"full", "unlinked"}, LaterUrbRefused(p, st) PROVE UrbInv'
  <2>1. PICK t \in Transfers, m \in 1 .. U, a \in Actions, k \in Nat, r \in Seq(Endings) :
          Partial(p, t, m, a, k, st) /\ r = done
    BY <1>1, <1>11, LaterIs
  <2>2. /\ UNCHANGED <<unplugged, cur, n>> /\ pc[p] = "urbs" /\ pc' = [pc EXCEPT ![p] = "submitted"]
        /\ t = cur[p] /\ x' = [x EXCEPT ![t].action = a, ![t].retired = k]
        /\ UNCHANGED <<done, queued>> \/ Discard(t, 1, m - 1, st, r)
    BY <2>1 DEF Partial
  <2>3. Apart(done)' /\ Told(done)' /\ \A s \in Transfers : Dwindles(s)
    <3>1. CASE UNCHANGED <<done, queued>>
      BY <1>3, <2>2, <3>1
    <3>2. CASE Discard(t, 1, m - 1, st, r)
      <4>1. PICK f \in 1 .. U + 1, l \in 0 .. U : f = 1 /\ l = m - 1
        <5>1. m - 1 \in 0 .. U /\ 1 \in 1 .. U + 1
          BY <1>1 DEF Basics
        <5> QED
          BY <5>1
      <4>2. Discard(t, f, l, st, r)
        BY <3>2, <4>1
      <4> QED
        BY <1>1, <1>2, <2>1, <2>2, <4>2, DiscardUrbs
    <3> QED
      BY <2>2, <3>1, <3>2
  <2>4. \A q \in Threads \ {p} : Filling(q)'
    BY <1>1, <1>a, <2>1, <2>2, <2>3 DEF Basics, Submitting
  <2>5. x[t] = Virgin
    BY <2>1, <2>2 DEF UrbInv, Filling
  <2>6. x'[t].action \in {"SUBMIT_FAILED", "COMPLETED_EARLY"} /\ x'[t].expiry = {}
    <3>1. a \in {"SUBMIT_FAILED", "COMPLETED_EARLY"}
      BY <2>1 DEF Partial
    <3>2. x'[t].action = a /\ x'[t].expiry = x[t].expiry
      BY <1>1, <2>2 DEF Fields
    <3>3. x[t].expiry = {}
      BY <2>5 DEF Virgin, Idle
    <3> QED
      BY <3>1, <3>2, <3>3
  <2>7. pc'[p] = "submitted" /\ cur'[p] = t
    BY <1>1, <2>1, <2>2 DEF Basics
  <2>8. Filling(p)'
    BY <2>6, <2>7 DEF Filling
  <2> QED
    BY <2>3, <2>4, <2>8 DEF UrbInv
<1>12. ASSUME NEW p \in Threads, TimeoutMark(p) PROVE UrbInv'
  <2>1. /\ done' = done /\ queued' = queued /\ unplugged' = unplugged /\ cur' = cur /\ n' = n
        /\ pc[p] = "mark" /\ pc' = [pc EXCEPT ![p] = "expire"]
        /\ \A s \in Transfers \ {exp} : x'[s] = x[s]
    BY <1>1, <1>12 DEF TimeoutMark, Go, kernel, ghost
  <2>2. accepted[exp] = "timeout" /\ exp \in Transfers
    BY <2>1 DEF CancelInv, UInv, TypeOK
  <2>3. InFlight(exp)
    BY <2>2 DEF CancelInv, CancelOf
  <2>4. \A q \in Threads : pc'[q] \in {"urbs", "submitted"} => pc'[q] = pc[q]
    BY <1>1, <2>1 DEF Basics
  <2>5. \A q \in Threads : pc[q] \in {"urbs", "submitted"} => cur[q] # exp
    BY <1>1, <2>3
  <2> QED
    BY <1>1, <1>3, <2>1, <2>4, <2>5, UrbsCarry
<1>13. ASSUME NEW kst \in {"full", "unlinked"}, BulkCompletion(kst) PROVE UrbInv'
  <2>1. PICK t \in Transfers, q \in Seq(Endings), u \in 1 .. U, e \in UrbStatus :
          First(t, q, u, e) /\ BulkHandles(t, q, u, e, kst)
    BY <1>13, BulkIs
  <2>2. Fades(q, done) /\ tl[t] = "none"
    BY <2>1 DEF First, BulkHandles
  <2>3. PICK r \in Seq(Endings) : r = done
    BY <1>1
  <2>4. UNCHANGED <<unplugged, cur, n>> /\ \A s \in Transfers \ {t} : x'[s] = x[s]
    BY <1>1, <2>1 DEF BulkHandles
  <2>5. Apart(done)' /\ Told(done)' /\ \A s \in Transfers : Dwindles(s)
    <3>1. CASE queued' = Stale(t, queued) /\ done' = StaleDone(t, q)
      <4>1. done' \in Seq(Endings) /\ Fades(done', q)
        BY <3>1, StaleFades
      <4>2. PICK z \in Seq(Endings) : z = done'
        BY <4>1
      <4>3. Fades(done', done)
        BY <2>2, <2>3, <4>1, <4>2, FadesTwice
      <4>4. \A s \in Transfers, v \in 1 .. U : <<s, v, TRUE>> \in queued' => Queued(s, v)
        BY <2>1, <3>1, StaleFewer
      <4> QED
        BY <1>1, <2>4, <4>1, <4>3, <4>4, UrbsFade
    <3>2. CASE queued' = queued /\ done' = q
      BY <1>1, <1>2, <2>2, <2>4, <3>2, UrbsFade
    <3>3. CASE Discard(t, u + 1, U, kst, q)
      <4>1. PICK f \in 1 .. U + 1, l \in 0 .. U : f = u + 1 /\ l = U
        BY <1>1 DEF Basics
      <4>2. Discard(t, f, l, kst, q)
        BY <3>3, <4>1
      <4> QED
        BY <1>1, <2>2, <2>4, <4>2, DiscardUrbs
    <3> QED
      BY <2>1, <3>1, <3>2, <3>3 DEF BulkHandles
  <2>6. \A p \in Threads : pc'[p] \in {"urbs", "submitted"} => pc'[p] = pc[p]
    BY <1>1, <2>1 DEF BulkHandles, Go, Basics
  <2>7. \A p \in Threads : pc[p] \in {"urbs", "submitted"} => cur[p] # t
    BY <1>1, <2>2
  <2> QED
    BY <1>1, <2>4, <2>5, <2>6, <2>7, UrbsCarry
<1>14. CASE ControlCompletion
  <2>1. PICK t \in Transfers, q \in Seq(Endings), u \in 1 .. U, e \in UrbStatus : First(t, q, u, e)
    BY <1>14, HeadIs DEF ControlCompletion
  <2>2. Fades(q, done) /\ t = cur["E"] /\ q = Tail(done)
    BY <2>1 DEF First, Handled
  <2>3. /\ UNCHANGED <<unplugged, cur, n, queued>> /\ tl[t] = "none" /\ done' = q
        /\ x' = [x EXCEPT ![t].urbs = FALSE]
    BY <1>14, <2>2 DEF ControlCompletion
  <2>4. Apart(done)' /\ Told(done)' /\ \A s \in Transfers : Dwindles(s)
    BY <1>1, <1>2, <2>2, <2>3, UrbsFade
  <2>5. \A p \in Threads : pc'[p] \in {"urbs", "submitted"} => pc'[p] = pc[p]
    BY <1>1, <1>14 DEF ControlCompletion, Go, Basics
  <2>6. \A p \in Threads : pc[p] \in {"urbs", "submitted"} => cur[p] # t
    BY <1>1, <2>3
  <2> QED
    BY <1>1, <2>3, <2>4, <2>5, <2>6, UrbsCarry
<1>15. CASE ClearPriv
  <2>1. PICK t \in Transfers, r \in Seq(Endings) : t = cur["E"] /\ r = done
    BY <1>1 DEF Basics
  <2>2. /\ UNCHANGED <<unplugged, cur, n>> /\ tl[t] = "none" /\ x' = [x EXCEPT ![t].urbs = FALSE]
        /\ \/ queued' = Stale(t, queued) /\ done' = StaleDone(t, r)
           \/ UNCHANGED <<done, queued>>
    BY <1>15, <2>1 DEF ClearPriv
  <2>3. Apart(done)' /\ Told(done)' /\ \A s \in Transfers : Dwindles(s)
    <3>1. CASE queued' = Stale(t, queued) /\ done' = StaleDone(t, r)
      <4>1. done' \in Seq(Endings) /\ Fades(done', r)
        BY <3>1, StaleFades
      <4>2. \A s \in Transfers, v \in 1 .. U : <<s, v, TRUE>> \in queued' => Queued(s, v)
        BY <3>1, StaleFewer
      <4> QED
        BY <1>1, <2>1, <2>2, <4>1, <4>2, UrbsFade
    <3>2. CASE UNCHANGED <<done, queued>>
      BY <1>3, <2>2, <3>2
    <3> QED
      BY <2>2, <3>1, <3>2
  <2>4. \A p \in Threads : pc'[p] \in {"urbs", "submitted"} => pc'[p] = pc[p]
    BY <1>1, <1>15 DEF ClearPriv, Go, Basics
  <2>5. \A p \in Threads : pc[p] \in {"urbs", "submitted"} => cur[p] # t
    BY <1>1, <2>2
  <2> QED
    BY <1>1, <2>2, <2>3, <2>4, <2>5, UrbsCarry
<1>16. CASE Cancellation \/ Remove
  <2>1. UNCHANGED <<x, done, queued, unplugged, cur, n>>
    BY <1>16 DEF Cancellation, Remove, kernel
  <2>2. \A q \in Threads : pc'[q] \in {"urbs", "submitted"} => pc'[q] = pc[q]
    BY <1>1, <1>16 DEF Cancellation, Remove, Go, Basics
  <2> QED
    BY <1>1, <1>3, <2>1, <2>2, UrbsCarry
<1>17. CASE ClearInFlight
  <2>1. UNCHANGED <<done, queued, unplugged, cur, n>> /\ tl[cur["E"]] = "none"
        /\ \A s \in Transfers \ {cur["E"]} : x'[s] = x[s]
    BY <1>1, <1>17 DEF ClearInFlight, kernel
  <2>2. \A q \in Threads : pc'[q] \in {"urbs", "submitted"} => pc'[q] = pc[q]
    BY <1>1, <1>17 DEF ClearInFlight, Go, Basics
  <2> QED
    BY <1>1, <1>3, <2>1, <2>2, UrbsCarry
<1> QED
  BY <1>4, <1>5, <1>6, <1>7, <1>8, <1>9, <1>10, <1>11, <1>12, <1>13, <1>14, <1>15, <1>16, <1>17 DEF Step

-----------------------------------------------------------------------------
(* CancelInv.                                                              *)

(* What CancelOf reads of the URBs of s.                                   *)
SeesLess(s) ==
    /\ <<s, Urbs(s), TRUE>> \in queued' => Queued(s, Urbs(s))
    /\ \A u \in 1 .. U : s \in Control /\ Back(done', s, u, "unlinked") =>
         Back(done, s, u, "unlinked") \/ unplugged'

SameOutcome(s) ==
    /\ x'[s].flags = x[s].flags /\ x'[s].action = x[s].action /\ x'[s].status = x[s].status
    /\ "TIMED_OUT" \in x'[s].expiry <=> "TIMED_OUT" \in x[s].expiry
    /\ accepted'[s] = accepted[s]

LEMMA OtherCancel ==
    ASSUME NEW s \in Transfers, CancelOf(s), SeesLess(s), unplugged => unplugged',
           SameOutcome(s),
           AtClear(s)' <=> AtClear(s), Marks(s) => Marks(s)'
    PROVE  CancelOf(s)'
<1>1. (InFlight(s)' <=> InFlight(s)) /\ (Cancelling(s)' <=> Cancelling(s))
  BY DEF InFlight, Cancelling, SameOutcome
<1>2. \A u : Back(done, s, u, "unlinked")' <=> Back(done', s, u, "unlinked")
  BY DEF Back, FreshIn
<1>3. Queued(s, Urbs(s))' <=> <<s, Urbs(s), TRUE>> \in queued'
  BY DEF Queued, Urbs
<1> QED
  BY <1>1, <1>2, <1>3 DEF CancelOf, SeesLess, SameOutcome

LEMMA SeesFading ==
    ASSUME UInv, done' \in Seq(Endings), Fades(done', done),
           \A s, u : <<s, u, TRUE>> \in queued' => Queued(s, u)
    PROVE  \A s \in Transfers : SeesLess(s)
<1>1. PICK q \in Seq(Endings), r \in Seq(Endings) : q = done' /\ r = done
  BY DEF UInv, TypeOK, Endings
<1>2. \A t, u, st : Back(q, t, u, st) => Back(r, t, u, st)
  BY <1>1, FadesKeep
<1> QED
  BY <1>1, <1>2 DEF SeesLess

LEMMA SeesReturning ==
    ASSUME UInv, NEW t \in Transfers, NEW q \in Seq(Endings), Fades(q, done), NEW S, Returns(t, q, S),
           t \in Control /\ "unlinked" \in S => unplugged'
    PROVE  \A s \in Transfers : SeesLess(s)
<1>1. PICK r \in Seq(Endings) : r = done
  BY DEF UInv, TypeOK, Endings
<1>2. \A s, u, st : Back(q, s, u, st) => Back(r, s, u, st)
  BY <1>1, FadesKeep
<1>3. Basics
  BY TypesGiveBasics DEF UInv
<1>4. \A s, u, st : Back(done', s, u, st) =>
                Back(q, s, u, st) \/ (s = t /\ Queued(t, u) /\ <<t, u, TRUE>> \notin queued' /\ st \in S)
  BY <1>3, ReturnsKeep
<1>5. queued' \subseteq queued
  BY DEF Returns
<1> QED
  BY <1>1, <1>2, <1>4, <1>5 DEF SeesLess, Queued

LEMMA SeesStale ==
    ASSUME UInv, NEW t \in Transfers, NEW q \in Seq(Endings), Fades(q, done),
           queued' = Stale(t, queued), done' = StaleDone(t, q)
    PROVE  \A s \in Transfers : SeesLess(s)
<1>1. done' \in Seq(Endings) /\ Fades(done', q)
  BY StaleFades
<1>2. PICK z \in Seq(Endings), r \in Seq(Endings) : z = done' /\ r = done
  BY <1>1 DEF UInv, TypeOK, Endings
<1>3. Fades(done', done)
  BY <1>1, <1>2, FadesTwice
<1>4. \A s, v : <<s, v, TRUE>> \in queued' => Queued(s, v)
  BY StaleFewer
<1> QED
  BY <1>1, <1>3, <1>4, SeesFading

LEMMA SeesSame ==
    ASSUME UNCHANGED <<done, queued>>
    PROVE  \A s \in Transfers : SeesLess(s)
  BY DEF SeesLess, Queued, Back, FreshIn

LEMMA SeesCompletion ==
    ASSUME UInv, NEW e \in queued, NEW st \in UrbStatus, KernelCompletes(e, st)
    PROVE  \A s \in Transfers : SeesLess(s)
<1>1. /\ queued' = queued \ {e} /\ done' = Append(done, <<e[1], e[2], e[3], st>>)
      /\ unplugged' = unplugged /\ (st = "unlinked" => unplugged)
  BY DEF KernelCompletes
<1>2. PICK r \in Seq(Endings) : r = done
  BY DEF UInv, TypeOK, Endings
<1>3. ASSUME st # "unlinked", NEW s, NEW u, Back(done', s, u, "unlinked") PROVE Back(done, s, u, "unlinked")
  <2>1. PICK k \in FreshIn(done', s) : done'[k][2] = u /\ done'[k][4] = "unlinked"
    BY <1>3 DEF Back
  <2>2. k \in 1 .. Len(r) + 1 /\ done'[k][1] = s /\ done'[k][3] /\ Len(r) \in Nat
    BY <1>1, <1>2 DEF FreshIn
  <2>3. k # Len(r) + 1
    BY <1>1, <1>2, <1>3, <2>1
  <2>4. k \in DOMAIN r /\ r[k] = done'[k]
    BY <1>1, <1>2, <2>2, <2>3
  <2> QED
    BY <1>2, <2>1, <2>2, <2>4 DEF Back, FreshIn
<1> QED
  BY <1>1, <1>3 DEF SeesLess, Queued

(* E has found out what became of the transfer, and knows it still.        *)
LEMMA ReportStays ==
    ASSUME CancelInv, unplugged => unplugged',
           pc'["E"] \in {"late", "remove"} =>
               /\ pc'["E"] = pc["E"] /\ cur'["E"] = cur["E"]
               /\ pc["E"] = "remove" => out' = out /\ accepted'[cur["E"]] = accepted[cur["E"]]
               /\ pc["E"] = "late" => x'[cur["E"]].action = x[cur["E"]].action
    PROVE  /\ pc'["E"] = "late" => x'[cur'["E"]].action = "CANCELLED"
           /\ CancelIsReported'
  BY DEF CancelInv, CancelIsReported

(* A bulk completion keeps a cancelled transfer cancelled and cancels none. *)
LEMMA BulkOutcome ==
    ASSUME NEW f \in Fields, NEW u \in 1 .. U, NEW e \in UrbStatus
    PROVE  /\ NewAction(f, u, e) = "CANCELLED" <=> f.action = "CANCELLED"
           /\ f.status \notin {"CANCELLED", "TIMED_OUT"} =>
                NewStatus(f, u, e) \notin {"CANCELLED", "TIMED_OUT"}
           /\ NewStatus(f, u, e) = "NO_DEVICE" => f.status = "NO_DEVICE" \/ e = "nodev"
           /\ f.action = "NORMAL" /\ NewAction(f, u, e) # "NORMAL" => TearsDown(f, u, e)
<1>1. f.action \in Actions /\ f.status \in Statuses
  BY DEF Fields
<1>2. NewAction(f, u, e) = "CANCELLED" <=> f.action = "CANCELLED"
  BY <1>1 DEF NewAction, Actions
<1>3. f.status \notin {"CANCELLED", "TIMED_OUT"} => NewStatus(f, u, e) \notin {"CANCELLED", "TIMED_OUT"}
  BY <1>1 DEF NewStatus, Statuses
<1>4. NewStatus(f, u, e) = "NO_DEVICE" => f.status = "NO_DEVICE" \/ e = "nodev"
  BY <1>1 DEF NewStatus, Statuses
<1>5. f.action = "NORMAL" /\ NewAction(f, u, e) # "NORMAL" => TearsDown(f, u, e)
  BY <1>1 DEF NewAction, TearsDown
<1> QED
  BY <1>2, <1>3, <1>4, <1>5

LEMMA BulkCancelKept ==
    ASSUME UInv, UrbInv, CancelInv, NEW kst \in {"full", "unlinked"}, BulkCompletion(kst)
    PROVE  CancelInv'
<1>1. Basics /\ done \in Seq(Endings) /\ x \in [Transfers -> Fields]
  BY Filled
<1>2. PICK t \in Transfers, q \in Seq(Endings), u \in 1 .. U, e \in UrbStatus :
        First(t, q, u, e) /\ BulkHandles(t, q, u, e, kst)
  BY BulkIs
<1>3. /\ Fades(q, done) /\ t = cur["E"] /\ t \in Bulk /\ Back(done, t, u, e)
      /\ pc["E"] = "complete" /\ InFlight(t) /\ "E" \in Threads /\ t \notin Control
  BY <1>1, <1>2 DEF First, BulkHandles, Basics
<1> DEFINE f == x[t]
           r == [f EXCEPT !.retired = @ + 1, !.action = NewAction(f, u, e),
                          !.status = NewStatus(f, u, e), !.urbs = ~Reports(f, u, e)]
<1>4. UNCHANGED <<unplugged, cur, exp, accepted>> /\ x' = [x EXCEPT ![t] = r]
  BY <1>2 DEF BulkHandles
<1>5. r.flags = f.flags /\ r.expiry = f.expiry /\ r.action = NewAction(f, u, e) /\ r.status = NewStatus(f, u, e)
  BY <1>1 DEF Fields
<1> HIDE DEF r
<1>6. /\ x'[t].flags = x[t].flags /\ x'[t].expiry = x[t].expiry
      /\ x'[t].action = NewAction(x[t], u, e) /\ x'[t].status = NewStatus(x[t], u, e)
      /\ \A s \in Transfers \ {t} : x'[s] = x[s]
  BY <1>1, <1>4, <1>5
<1>7. /\ NewAction(x[t], u, e) = "CANCELLED" <=> x[t].action = "CANCELLED"
      /\ x[t].status \notin {"CANCELLED", "TIMED_OUT"} =>
           NewStatus(x[t], u, e) \notin {"CANCELLED", "TIMED_OUT"}
      /\ NewStatus(x[t], u, e) = "NO_DEVICE" => x[t].status = "NO_DEVICE" \/ e = "nodev"
      /\ x[t].action = "NORMAL" /\ NewAction(x[t], u, e) # "NORMAL" => TearsDown(x[t], u, e)
  BY <1>1, BulkOutcome
<1>8. /\ \A p \in Threads \ {"E"} : pc'[p] = pc[p]
      /\ pc'["E"] \in {"late", "remove", "reap"}
      /\ pc'["E"] = "late" => NewAction(x[t], u, e) = "CANCELLED"
      /\ pc'["E"] = "remove" => NewAction(x[t], u, e) # "CANCELLED" /\ out' = NewStatus(x[t], u, e)
  BY <1>1, <1>2 DEF BulkHandles, Go, Basics
<1>9. e = "nodev" => unplugged
  BY <1>3 DEF UrbInv, Told
<1>10. CancelOf(t)
  BY DEF CancelInv
<1>11. \A s \in Transfers : SeesLess(s)
  <2>1. CASE queued' = Stale(t, queued) /\ done' = StaleDone(t, q)
    BY <1>3, <2>1, SeesStale
  <2>2. CASE queued' = queued /\ done' = q
    <3>1. \A s, v : <<s, v, TRUE>> \in queued' => Queued(s, v)
      BY <2>2 DEF Queued
    <3>2. done' \in Seq(Endings) /\ Fades(done', done)
      BY <1>3, <2>2
    <3> QED
      BY <3>1, <3>2, SeesFading
  <2>3. CASE Discard(t, u + 1, U, kst, q)
    <3>1. PICK g \in 1 .. U + 1, l \in 0 .. U : g = u + 1 /\ l = U
      BY <1>1 DEF Basics
    <3>2. Discard(t, g, l, kst, q)
      BY <2>3, <3>1
    <3>3. Returns(t, q, {"full", "unlinked"})
      BY <1>1, <3>2, DiscardReturns
    <3> QED
      BY <1>3, <3>3, SeesReturning
  <2> QED
    BY <1>2, <2>1, <2>2, <2>3 DEF BulkHandles
<1>12. \A s \in Transfers : /\ AtClear(s)' <=> AtClear(s)
                            /\ Marks(s) <=> Marks(s)'
  <2>1. ~(pc["E"] = "clear") /\ ~(pc'["E"] = "clear")
    BY <1>3, <1>8
  <2>2. \A p \in Threads : pc'[p] = "mark" <=> pc[p] = "mark"
    BY <1>3, <1>8
  <2> QED
    BY <1>4, <2>1, <2>2 DEF AtClear, Marks
<1>13. ASSUME NEW s \in Transfers \ {t} PROVE CancelOf(s)'
  BY <1>4, <1>6, <1>11, <1>12, OtherCancel DEF CancelInv, SameOutcome
<1>14. ASSUME ~unplugged, <<t, U, TRUE>> \in queued' PROVE NewAction(x[t], u, e) = "NORMAL"
  <2>1. Urbs(t) = U
    BY <1>3 DEF Urbs
  <2>2. Queued(t, U) /\ x[t].action = "NORMAL"
    BY <1>10, <1>11, <1>14, <2>1 DEF SeesLess, CancelOf
  <2>3. u # U
    <3> SUFFICES ASSUME u = U PROVE FALSE
      OBVIOUS
    <3>1. PICK k \in FreshIn(done, t) : done[k][2] = u
      BY <1>3 DEF Back
    <3> QED
      BY <2>2, <3>1 DEF UrbInv, Apart
  <2>4. ASSUME TearsDown(x[t], u, e) PROVE FALSE
    <3>1. CASE Reports(x[t], u, e)
      <4>1. queued' = Stale(t, queued)
        BY <1>2, <3>1 DEF BulkHandles
      <4> QED
        BY <1>14, <4>1, StaleFewer
    <3>2. CASE ~Reports(x[t], u, e)
      <4>1. Discard(t, u + 1, U, kst, q)
        BY <1>2, <2>2, <2>4, <3>2 DEF BulkHandles
      <4>2. PICK g \in 1 .. U + 1, l \in 0 .. U : g = u + 1 /\ l = U
        BY <1>1 DEF Basics
      <4>3. Discard(t, g, l, kst, q)
        BY <4>1, <4>2
      <4>4. \A v \in g .. l : <<t, v, TRUE>> \notin queued'
        BY <1>1, <1>14, <4>3, DiscardReturns
      <4>5. U \in g .. l
        BY <1>1, <2>3, <4>2 DEF Basics
      <4> QED
        BY <1>14, <4>4, <4>5
    <3> QED
      BY <3>1, <3>2
  <2> QED
    BY <1>7, <2>2, <2>4
<1>15. CancelOf(t)'
  <2>1. (InFlight(t)' <=> InFlight(t)) /\ (Cancelling(t)' <=> Cancelling(t))
    BY <1>6 DEF InFlight, Cancelling
  <2>2. ~unplugged' /\ Queued(t, Urbs(t))' => x'[t].action = "NORMAL"
    BY <1>3, <1>4, <1>6, <1>14 DEF Queued, Urbs
  <2>3. /\ accepted'[t] = accepted[t] /\ unplugged' = unplugged /\ x'[t].expiry = x[t].expiry
        /\ x'[t].action = "CANCELLED" <=> x[t].action = "CANCELLED"
        /\ x'[t].status \notin {"CANCELLED", "TIMED_OUT"}
        /\ x'[t].status = "NO_DEVICE" => unplugged
    BY <1>4, <1>6, <1>7, <1>9, <1>10 DEF CancelOf
  <2> QED
    BY <1>3, <1>10, <1>12, <2>1, <2>2, <2>3 DEF CancelOf
<1>16. \A p \in Threads : pc'[p] = "mark" => accepted'[exp'] = "timeout"
  BY <1>3, <1>4, <1>8 DEF CancelInv
<1>17. pc'["E"] = "late" => x'[cur'["E"]].action = "CANCELLED"
  BY <1>3, <1>4, <1>6, <1>8
<1>18. ASSUME pc'["E"] = "remove"
       PROVE  accepted'[t] = "none" /\ out' \notin {"CANCELLED", "TIMED_OUT"} /\ (out' = "NO_DEVICE" => unplugged')
  BY <1>4, <1>6, <1>7, <1>8, <1>9, <1>10, <1>18 DEF CancelOf
<1>19. CancelIsReported'
  BY <1>3, <1>4, <1>18 DEF CancelIsReported
<1> QED
  BY <1>13, <1>15, <1>16, <1>17, <1>19 DEF CancelInv

(* A step that changes at most the transfers in C.                         *)
LEMMA CancelCarry ==
    ASSUME CancelInv, NEW C, \A s \in Transfers \cap C : CancelOf(s)',
           \A s \in Transfers \ C :
               SameOutcome(s) /\ SeesLess(s) /\ (AtClear(s)' <=> AtClear(s)) /\ (Marks(s) => Marks(s)'),
           unplugged => unplugged',
           \A p \in Threads : pc'[p] = "mark" => accepted'[exp'] = "timeout",
           pc'["E"] = "late" => x'[cur'["E"]].action = "CANCELLED",
           CancelIsReported'
    PROVE  CancelInv'
<1>1. ASSUME NEW s \in Transfers PROVE CancelOf(s)'
  <2>1. CASE s \notin C
    BY <2>1, OtherCancel DEF CancelInv
  <2> QED
    BY <2>1
<1> QED
  BY <1>1 DEF CancelInv

(* Nobody is at "mark" while another thread has the list's lock, or none.  *)
LEMMA OneMark ==
    ASSUME UInv
    PROVE  /\ \A p, q \in Threads : pc[p] = "mark" /\ pc[q] \in {"expire", "mark"} => p = q
           /\ fl = "none" => \A p \in Threads : pc[p] # "mark"
<1>1. Basics
  BY TypesGiveBasics DEF UInv
<1> QED
  BY <1>1 DEF UInv, LocksExact, Basics

(* E, and the threads that mark, stay where they are.                      *)
LEMMA CancelQuiet ==
    ASSUME CancelInv, \A s \in Transfers : SameOutcome(s) /\ SeesLess(s), unplugged => unplugged',
           cur["E"] \in Transfers, exp \in Transfers, exp' = exp, out' = out \/ pc["E"] # "remove",
           \A p \in Threads : pc'[p] = "mark" <=> pc[p] = "mark",
           \/ pc'["E"] = pc["E"] /\ cur'["E"] = cur["E"]
           \/ {pc["E"], pc'["E"]} \cap {"late", "remove", "clear"} = {}
    PROVE  CancelInv'
<1>1. \A s \in Transfers : (AtClear(s)' <=> AtClear(s)) /\ (Marks(s) => Marks(s)')
  BY DEF AtClear, Marks
<1>2. \A p \in Threads : pc'[p] = "mark" => accepted'[exp'] = "timeout"
  BY DEF CancelInv, SameOutcome
<1>3. /\ pc'["E"] = "late" => x'[cur'["E"]].action = "CANCELLED"
      /\ CancelIsReported'
  BY ReportStays DEF SameOutcome
<1>4. Transfers \cap {} = {} /\ Transfers \ {} = Transfers
  OBVIOUS
<1> QED
  BY <1>1, <1>2, <1>3, <1>4, CancelCarry

(* Submissions: nothing of the transfer has come back, nobody cancels it.  *)
LEMMA SubmitCancelKept ==
    ASSUME UInv, UrbInv, CancelInv, NEW p \in Threads,
           \/ SubmitEnlist(p) \/ UrbAccepted(p) \/ FirstUrbRefused(p)
           \/ \E st \in {"full", "unlinked"} : LaterUrbRefused(p, st)
           \/ Submitted(p)
    PROVE  CancelInv'
<1>1. /\ Basics /\ done \in Seq(Endings) /\ x \in [Transfers -> Fields]
      /\ \A q \in Threads : pc[q] \in {"urbs", "submitted"} => ~InFlight(cur[q])
  BY Filled
<1>2. PICK t \in Transfers : t = cur[p]
  BY <1>1 DEF Basics
<1>3. ~InFlight(t)
  BY <1>1, <1>2 DEF SubmitEnlist, UrbAccepted, FirstUrbRefused, LaterUrbRefused, Submitted
<1>4. CancelOf(t) /\ accepted[t] = "none"
  BY <1>3 DEF CancelInv, CancelOf
<1>5. UNCHANGED <<unplugged, cur, exp, out, accepted>>
  BY DEF SubmitEnlist, UrbAccepted, FirstUrbRefused, LaterUrbRefused, Submitted, kernel, event, ghost
<1>6. /\ \A q \in Threads \ {p} : pc'[q] = pc[q]
      /\ pc[p] \in {"enlist", "urbs", "submitted"}
      /\ pc'[p] \in {"urbs", "submitted", "undo", "rest", "wait", "unref"}
  BY <1>1, ZenonT(60) DEF SubmitEnlist, UrbAccepted, FirstUrbRefused, LaterUrbRefused, Submitted, Go, Basics
<1>7. \A s \in Transfers \ {t} : x'[s] = x[s]
  <2>1. CASE SubmitEnlist(p)
    BY <1>1, <1>2, <2>1 DEF SubmitEnlist
  <2>2. CASE UrbAccepted(p)
    BY <2>2 DEF UrbAccepted
  <2>3. CASE FirstUrbRefused(p)
    BY <1>1, <1>2, <2>3 DEF FirstUrbRefused
  <2>4. CASE \E st \in {"full", "unlinked"} : LaterUrbRefused(p, st)
    BY <1>1, <1>2, <2>4 DEF LaterUrbRefused
  <2>5. CASE Submitted(p)
    BY <1>1, <1>2, <2>5 DEF Submitted
  <2> QED
    BY <2>1, <2>2, <2>3, <2>4, <2>5
<1>8. /\ \A q \in Threads : pc'[q] = "mark" <=> pc[q] = "mark"
      /\ \A s : (AtClear(s)' <=> AtClear(s)) /\ (Marks(s)' <=> Marks(s))
      /\ pc'["E"] \in {"late", "remove", "clear"} => pc'["E"] = pc["E"]
  <2>1. \A q \in Threads : \A c \in {"mark", "late", "remove", "clear"} : pc'[q] = c <=> pc[q] = c
    BY <1>6
  <2>2. "E" \in Threads
    BY <1>1 DEF Basics
  <2> QED
    BY <1>5, <2>1, <2>2 DEF AtClear, Marks
<1>9. \A s \in Transfers \ {t} : SameOutcome(s)
  BY <1>5, <1>7 DEF SameOutcome
<1>10. \A q \in Threads : pc'[q] = "mark" => accepted'[exp'] = "timeout"
  BY <1>5, <1>8 DEF CancelInv
<1>11. /\ pc'["E"] = "late" => x'[cur'["E"]].action = "CANCELLED"
       /\ CancelIsReported'
  <2>1. pc["E"] = "late" => InFlight(cur["E"])
    BY DEF UInv, HeldInv
  <2>2. pc["E"] = "late" => cur["E"] \in Transfers \ {t}
    BY <1>1, <1>3, <2>1 DEF Basics
  <2>3. pc["E"] = "late" => x'[cur["E"]].action = x[cur["E"]].action
    BY <1>7, <2>2
  <2> QED
    BY <1>5, <1>8, <2>3, ReportStays
<1>12. /\ UNCHANGED <<done, queued>> => \A s \in Transfers : SeesLess(s)
       /\ CancelOf(t)' /\ (\A s \in Transfers \ {t} : SeesLess(s)) => CancelInv'
  <2>1. Transfers \cap {t} = {t}
    OBVIOUS
  <2> QED
    BY <1>5, <1>8, <1>9, <1>10, <1>11, <2>1, CancelCarry, SeesSame
<1>13. CASE SubmitEnlist(p)
  <2>1. UNCHANGED <<done, queued>> /\ x'[t] = Virgin
    BY <1>1, <1>2, <1>13 DEF SubmitEnlist, kernel, Virgin
  <2>2. \A u, st : ~Back(done, t, u, st)
    BY <1>2, <1>13, NoneFresh DEF Back, HasFresh, FreshDone
  <2>3. Virgin.flags = {} /\ Virgin.action = "NORMAL" /\ Virgin.expiry = {} /\ Virgin.status = "COMPLETED"
    BY DEF Virgin, Idle
  <2>4. \A u, st : ~Back(done, t, u, st)'
    BY <2>1, <2>2 DEF Back, FreshIn
  <2>5. CancelOf(t)'
    BY <1>4, <1>5, <2>1, <2>3, <2>4 DEF CancelOf, InFlight
  <2> QED
    BY <1>12, <2>1, <2>5
<1>14. CASE UrbAccepted(p)
  <2>1. x' = x /\ done' = done /\ queued' = queued \cup {<<t, n[p], TRUE>>} /\ pc[p] = "urbs"
    BY <1>2, <1>14 DEF UrbAccepted
  <2>2. x[t] = Virgin
    BY <1>2, <2>1 DEF UrbInv, Filling
  <2>3. x'[t].action = "NORMAL"
    BY <2>1, <2>2 DEF Virgin, Idle
  <2>4. \A u : Back(done, t, u, "unlinked")' <=> Back(done, t, u, "unlinked")
    BY <2>1 DEF Back, FreshIn
  <2>5. (InFlight(t)' <=> InFlight(t)) /\ (Cancelling(t)' <=> Cancelling(t))
    BY <2>1 DEF InFlight, Cancelling
  <2>6. CancelOf(t)'
    BY <1>4, <1>5, <1>8, <2>1, <2>3, <2>4, <2>5 DEF CancelOf
  <2>7. \A s \in Transfers \ {t} : SeesLess(s)
    BY <2>1 DEF SeesLess, Queued, Back, FreshIn
  <2> QED
    BY <1>12, <2>6, <2>7
<1>15. CASE FirstUrbRefused(p)
  <2>1. UNCHANGED <<done, queued>> /\ x' = [x EXCEPT ![t].urbs = FALSE]
    BY <1>2, <1>15 DEF FirstUrbRefused, kernel
  <2>2. SameOutcome(t)
    BY <1>1, <1>5, <2>1 DEF SameOutcome, Fields
  <2>3. CancelOf(t)'
    BY <1>4, <1>5, <1>8, <1>12, <2>1, <2>2, OtherCancel
  <2> QED
    BY <1>12, <2>1, <2>3
<1>16. ASSUME NEW st \in {"full", "unlinked"}, LaterUrbRefused(p, st) PROVE CancelInv'
  <2>1. PICK m \in 1 .. U, a \in Actions, k \in Nat, r \in Seq(Endings) :
          Partial(p, t, m, a, k, st) /\ r = done
    <3>1. PICK s \in Transfers, m \in 1 .. U, a \in Actions, k \in Nat : Partial(p, s, m, a, k, st)
      BY <1>16, LaterIs
    <3>2. s = t
      BY <1>2, <3>1 DEF Partial
    <3> QED
      BY <1>1, <3>1, <3>2
  <2>2. /\ t \in Bulk /\ t \notin Control /\ a # "CANCELLED" /\ pc[p] = "urbs" /\ m = n[p]
        /\ x' = [x EXCEPT ![t].action = a, ![t].retired = k]
        /\ UNCHANGED <<done, queued>> \/ Discard(t, 1, m - 1, st, r)
    BY <1>1, <2>1 DEF Partial, Basics
  <2>3. \A s \in Transfers : SeesLess(s)
    <3>1. CASE UNCHANGED <<done, queued>>
      BY <1>12, <3>1
    <3>2. CASE Discard(t, 1, m - 1, st, r)
      <4>1. PICK f \in 1 .. U + 1, l \in 0 .. U : f = 1 /\ l = m - 1
        <5>1. m - 1 \in 0 .. U /\ 1 \in 1 .. U + 1
          BY <1>1 DEF Basics
        <5> QED
          BY <5>1
      <4>2. Discard(t, f, l, st, r)
        BY <3>2, <4>1
      <4>3. Returns(t, r, {"full", "unlinked"})
        BY <1>1, <4>2, DiscardReturns
      <4>4. Fades(r, done)
        BY <2>1, SameFades
      <4> QED
        BY <2>2, <4>3, <4>4, SeesReturning
    <3> QED
      BY <2>2, <3>1, <3>2
  <2>4. x'[t].flags = x[t].flags /\ x'[t].action = a /\ x'[t].status = x[t].status
    BY <1>1, <2>2 DEF Fields
  <2>5. ~(<<t, Urbs(t), TRUE>> \in queued')
    <3> SUFFICES ASSUME <<t, Urbs(t), TRUE>> \in queued' PROVE FALSE
      OBVIOUS
    <3>1. Urbs(t) = U /\ U \in 1 .. U
      BY <1>1, <2>2 DEF Urbs, Basics
    <3>2. Queued(t, U)
      BY <2>3, <3>1 DEF SeesLess
    <3>3. U \in Out(t)
      BY <3>1, <3>2 DEF Out
    <3>4. U < n[p]
      BY <1>2, <2>2, <3>1, <3>3 DEF UrbInv, Filling
    <3> QED
      BY <1>1, <2>2, <3>4 DEF Basics
  <2>6. CancelOf(t)'
    <3>1. ~InFlight(t)'
      BY <1>3, <2>4 DEF InFlight
    <3>2. ~Queued(t, Urbs(t))'
      BY <2>5 DEF Queued, Urbs
    <3> QED
      BY <1>4, <1>5, <2>2, <2>4, <3>1, <3>2 DEF CancelOf
  <2> QED
    BY <1>12, <2>3, <2>6
<1>17. CASE Submitted(p)
  <2>1. UNCHANGED <<done, queued>> /\ x' = [x EXCEPT ![t].flags = @ \cup {"IN_FLIGHT"}] /\ pc[p] = "submitted"
    BY <1>2, <1>17 DEF Submitted, kernel
  <2>2. x'[t].action = x[t].action /\ x'[t].expiry = x[t].expiry /\ x'[t].status = x[t].status
    BY <1>1, <2>1 DEF Fields
  <2>3. x[t].action # "CANCELLED" /\ x[t].expiry = {}
    BY <1>2, <2>1 DEF UrbInv, Filling
  <2>4. \A u : Back(done, t, u, "unlinked")' <=> Back(done, t, u, "unlinked")
    BY <2>1 DEF Back, FreshIn
  <2>5. Queued(t, Urbs(t))' <=> Queued(t, Urbs(t))
    BY <2>1 DEF Queued, Urbs
  <2>6. CancelOf(t)'
    BY <1>4, <1>5, <2>2, <2>3, <2>4, <2>5 DEF CancelOf
  <2> QED
    BY <1>12, <2>1, <2>6
<1> QED
  BY <1>13, <1>14, <1>15, <1>16, <1>17
(* A cancel of t for the timeout brings the thread to "mark" if it succeeds. *)
CancelMoves(t, by, r) ==
    /\ \A p \in Threads : pc'[p] \notin {"expire", "mark"} => pc'[p] = pc[p]
    /\ \A p \in Threads : pc[p] \notin {"expire", "mark"} => pc'[p] = pc[p]
    /\ \A p \in Threads : pc'[p] = "mark" =>
         (pc[p] = "mark" /\ pc' = pc) \/ (by = "timeout" /\ exp' = t /\ r = "OK")
    /\ \A p \in Threads : pc[p] = "mark" => pc'[p] = "mark" /\ exp' = exp
    /\ by = "timeout" /\ r = "OK" => Marks(t)'
    /\ pc' = pc => exp' = exp \/ (\A p \in Threads : pc[p] # "mark")

(* A cancel that finds the last URB still queued is the transfer's only    *)
(* one, and takes that URB back.                                           *)
LEMMA CancelsCancelKept == ASSUME UInv, UrbInv, CancelInv, Cancels PROVE CancelInv'
<1>1. /\ Basics /\ done \in Seq(Endings) /\ x \in [Transfers -> Fields]
      /\ accepted \in [Transfers -> {"none", "user", "timeout"}]
  BY Filled DEF UInv, TypeOK
<1>2. PICK t \in Transfers, st \in {"full", "unlinked"}, by \in {"user", "timeout"} :
        /\ Cancel(t, st, by)
        /\ \/ pc' = pc /\ exp' = exp /\ by = "user"
           \/ \E p \in Threads :
                /\ pc[p] = "expire" /\ exp' = t /\ t \in Control /\ by = "timeout"
                /\ Go(p, IF CancelReturn(t) = "OK" THEN "mark" ELSE "expire")
        /\ UNCHANGED <<unplugged, cur, n, poll, out>>
  BY DEF Cancels
<1>3. CancelOf(t)
  BY DEF CancelInv
<1> DEFINE r == CancelReturn(t)
           did == InFlight(t) /\ ~Cancelling(t)
<1>4. CancelMoves(t, by, r)
  <2>1. CASE pc' = pc /\ exp' = exp /\ by = "user"
    <3>1. by # "timeout"
      BY <2>1
    <3> QED
      BY <2>1, <3>1, Zenon DEF CancelMoves
  <2>2. ASSUME NEW p \in Threads, pc[p] = "expire", exp' = t, by = "timeout",
               Go(p, IF r = "OK" THEN "mark" ELSE "expire")
        PROVE  CancelMoves(t, by, r)
    <3>1. \A q \in Threads : pc[q] # "mark"
      BY <2>2, OneMark
    <3>2. /\ \A q \in Threads \ {p} : pc'[q] = pc[q]
          /\ pc'[p] = IF r = "OK" THEN "mark" ELSE "expire"
      BY <1>1, <2>2 DEF Go, Basics
    <3> QED
      BY <2>2, <3>1, <3>2 DEF Marks, CancelMoves
  <2> QED
    BY <1>2, <2>1, <2>2
<1>5. "E" \in Threads
  BY <1>1 DEF Basics
<1>6. \A s : AtClear(s)' <=> AtClear(s)
  BY <1>2, <1>4, <1>5 DEF AtClear, CancelMoves
<1>7. \A s : Marks(s) => Marks(s)'
  BY <1>4 DEF Marks, CancelMoves
<1>8. \A s \in Transfers \ {t} : x'[s] = x[s] /\ accepted'[s] = accepted[s]
  BY <1>1, <1>2 DEF Cancel
<1>9. \A s \in Transfers \ {t} : SameOutcome(s)
  BY <1>8 DEF SameOutcome
<1>10. /\ x'[t].status = x[t].status
       /\ "TIMED_OUT" \in x'[t].expiry <=> "TIMED_OUT" \in x[t].expiry
       /\ InFlight(t)' <=> InFlight(t)
       /\ Cancelling(t)' <=> InFlight(t) \/ Cancelling(t)
       /\ x'[t].action = IF did /\ r = "OK" /\ ~(t \in Bulk /\ x[t].action = "ERROR")
                         THEN "CANCELLED" ELSE x[t].action
       /\ accepted'[t] = IF did /\ r = "OK" THEN by ELSE accepted[t]
       /\ IF did THEN Discard(t, 1, Urbs(t), st, done) ELSE UNCHANGED <<done, queued>>
  <2>1. CASE did
    <3> DEFINE e1 == x[t].expiry \cup IF by = "timeout" THEN {"HANDLED"} ELSE {}
               f1 == x[t].flags \cup {"CANCELLING"} \cup IF r = "NO_DEVICE" THEN {"DISAPPEARED"} ELSE {}
               a1 == IF r = "OK" /\ ~(t \in Bulk /\ x[t].action = "ERROR") THEN "CANCELLED" ELSE x[t].action
    <3>1. x' = [x EXCEPT ![t].flags = f1, ![t].expiry = e1, ![t].action = a1]
      BY <1>2, <2>1 DEF Cancel
    <3>2. "TIMED_OUT" \in e1 <=> "TIMED_OUT" \in x[t].expiry
      OBVIOUS
    <3>3. /\ "IN_FLIGHT" \in f1 <=> "IN_FLIGHT" \in x[t].flags
          /\ "CANCELLING" \in f1
      OBVIOUS
    <3>5. accepted'[t] = (IF r = "OK" THEN by ELSE accepted[t]) /\ Discard(t, 1, Urbs(t), st, done)
      BY <1>1, <1>2, <2>1 DEF Cancel
    <3> HIDE DEF e1, f1
    <3>6. x'[t].status = x[t].status /\ x'[t].flags = f1 /\ x'[t].expiry = e1 /\ x'[t].action = a1
      BY <1>1, <3>1 DEF Fields
    <3> QED
      BY <2>1, <3>2, <3>3, <3>5, <3>6 DEF InFlight, Cancelling
  <2>2. CASE ~did
    <3> DEFINE e1 == x[t].expiry \cup IF by = "timeout" THEN {"HANDLED"} ELSE {}
    <3>1. x' = [x EXCEPT ![t].expiry = e1] /\ UNCHANGED <<queued, done, accepted>>
      BY <1>2, <2>2 DEF Cancel
    <3>2. "TIMED_OUT" \in e1 <=> "TIMED_OUT" \in x[t].expiry
      OBVIOUS
    <3> HIDE DEF e1
    <3>3. x'[t].status = x[t].status /\ x'[t].flags = x[t].flags /\ x'[t].expiry = e1 /\ x'[t].action = x[t].action
      BY <1>1, <3>1 DEF Fields
    <3> QED
      BY <2>2, <3>1, <3>2, <3>3 DEF InFlight, Cancelling
  <2> QED
    BY <2>1, <2>2
<1>11. did => accepted[t] = "none"
  BY <1>3 DEF CancelOf
<1>12. r = "OK" => /\ did /\ ~unplugged /\ Queued(t, Urbs(t)) /\ HasUrbs(t)
                   /\ x[t].action = "NORMAL" /\ ~AtClear(t)
                   /\ ~(cur["E"] = t /\ pc["E"] \in {"late", "remove"})
  <2> SUFFICES ASSUME r = "OK" 
      PROVE  /\ did /\ ~unplugged /\ Queued(t, Urbs(t)) /\ HasUrbs(t)
             /\ x[t].action = "NORMAL" /\ ~AtClear(t)
             /\ ~(cur["E"] = t /\ pc["E"] \in {"late", "remove"})
    OBVIOUS
  <2>1. did /\ ~unplugged /\ Queued(t, Urbs(t)) /\ HasUrbs(t)
    BY DEF CancelReturn, Queued, HasUrbs
  <2>2. x[t].action = "NORMAL"
    BY <1>3, <2>1 DEF CancelOf
  <2> QED
    BY <2>1, <2>2 DEF UInv, FreshInv, AtClear
<1>13. PICK f \in 1 .. U + 1, l \in 0 .. U, z \in Seq(Endings) : f = 1 /\ l = Urbs(t) /\ z = done
  <2>1. 1 \in 1 .. U + 1 /\ Urbs(t) \in 0 .. U
    BY <1>1 DEF Basics
  <2> QED
    BY <1>1, <2>1
<1>14. did => /\ Returns(t, z, {"full", "unlinked"})
              /\ ~unplugged => \A u \in f .. l : <<t, u, TRUE>> \notin queued'
              /\ (\A u \in f .. l : ~Queued(t, u)) => done' = z
  BY <1>1, <1>10, <1>13, DiscardReturns
<1>15. /\ queued' \subseteq queued
       /\ \A s, u : Back(done', s, u, "unlinked") => s = t \/ Back(done, s, u, "unlinked")
  <2>1. CASE did
    <3>1. \A s, u, c : Back(done', s, u, c) => Back(z, s, u, c) \/ s = t
      BY <1>1, <1>14, <2>1, ReturnsKeep
    <3> QED
      BY <1>13, <1>14, <2>1, <3>1 DEF Returns
  <2>2. CASE ~did
    BY <1>10, <2>2
  <2> QED
    BY <2>1, <2>2
<1>16. \A s \in Transfers \ {t} : SeesLess(s)
  BY <1>15 DEF SeesLess, Queued
<1>17. \A p \in Threads : pc'[p] = "mark" => accepted'[exp'] = "timeout"
  <2> SUFFICES ASSUME NEW p \in Threads, pc'[p] = "mark" PROVE accepted'[exp'] = "timeout"
    OBVIOUS
  <2>1. CASE by = "timeout" /\ exp' = t /\ r = "OK"
    BY <1>10, <1>12, <2>1
  <2>2. CASE pc[p] = "mark" /\ pc' = pc
    <3>1. exp' = exp /\ accepted[exp] = "timeout" /\ exp \in Transfers
      BY <1>4, <2>2 DEF CancelInv, UInv, TypeOK, CancelMoves
    <3>2. CASE exp = t
      BY <1>10, <1>11, <3>1, <3>2
    <3>3. CASE exp # t
      BY <1>8, <3>1, <3>3
    <3> QED
      BY <3>2, <3>3
  <2> QED
    BY <1>4, <2>1, <2>2 DEF CancelMoves
<1>18. /\ pc'["E"] = "late" => x'[cur'["E"]].action = "CANCELLED"
       /\ CancelIsReported'
  <2>1. pc'["E"] \in {"late", "remove"} => pc'["E"] = pc["E"] /\ cur'["E"] = cur["E"] /\ out' = out
    BY <1>2, <1>4, <1>5 DEF CancelMoves
  <2>2. cur["E"] \in Transfers
    BY <1>1 DEF Basics
  <2>3. pc["E"] \in {"late", "remove"} => accepted'[cur["E"]] = accepted[cur["E"]]
                                          /\ x'[cur["E"]].action = x[cur["E"]].action
    BY <1>8, <1>10, <1>12, <2>2
  <2> QED
    BY <1>2, <2>1, <2>3, ReportStays
<1>19. CancelOf(t)'
  <2>1. CASE r = "OK"
    <3>1. accepted'[t] = by /\ x'[t].action = "CANCELLED" /\ InFlight(t)' /\ Cancelling(t)' /\ ~AtClear(t)'
      BY <1>6, <1>10, <1>12, <2>1
    <3>2. "TIMED_OUT" \notin x'[t].expiry
      BY <1>3, <1>10, <1>11, <1>12, <2>1 DEF CancelOf
    <3>3. ~Queued(t, Urbs(t))'
      <4>1. Urbs(t) \in f .. l
        BY <1>1, <1>13 DEF Basics
      <4> QED
        BY <1>12, <1>14, <2>1, <4>1 DEF Queued, Urbs
    <3>4. x'[t].status \notin {"CANCELLED", "TIMED_OUT"} /\ (x'[t].status = "NO_DEVICE" => unplugged')
      BY <1>2, <1>3, <1>10 DEF CancelOf
    <3>5. by = "timeout" => Marks(t)'
      BY <1>4, <2>1 DEF CancelMoves
    <3> QED
      BY <1>2, <3>1, <3>2, <3>3, <3>4, <3>5 DEF CancelOf
  <2>2. CASE r # "OK"
    <3>1. x'[t].action = x[t].action /\ accepted'[t] = accepted[t]
      BY <1>10, <2>2
    <3>2. Queued(t, Urbs(t))' => Queued(t, Urbs(t))
      BY <1>15 DEF Queued, Urbs
    <3>3. ASSUME t \in Control, ~unplugged PROVE done' = done
      <4>1. CASE ~did
        BY <1>10, <4>1
      <4>2. CASE did
        <5>1. ~Queued(t, Urbs(t))
          <6> SUFFICES ASSUME Queued(t, Urbs(t)) PROVE FALSE
            OBVIOUS
          <6>1. HasFresh(t)
            <7>1. Urbs(t) \in Nat
              BY <1>1 DEF Basics
            <7> QED
              BY <7>1 DEF HasFresh, FreshQueued, Queued
          <6>2. x[t].urbs
            BY <6>1 DEF UInv, FreshInv, HasUrbs
          <6> QED
            BY <2>2, <3>3, <4>2, <6>2 DEF CancelReturn, Queued
        <5>2. \A u \in f .. l : u = Urbs(t)
          BY <1>1, <1>13, <3>3 DEF Basics
        <5> QED
          BY <1>13, <1>14, <4>2, <5>1, <5>2
      <4> QED
        BY <4>1, <4>2
    <3>4. \A u \in 1 .. U : t \in Control /\ Back(done, t, u, "unlinked")' =>
            unplugged' \/ x'[t].action = "CANCELLED"
      BY <1>2, <1>3, <3>1, <3>3 DEF CancelOf, Back, FreshIn
    <3>5. /\ unplugged' = unplugged /\ x'[t].status = x[t].status
          /\ "TIMED_OUT" \in x'[t].expiry <=> "TIMED_OUT" \in x[t].expiry
          /\ InFlight(t)' <=> InFlight(t)
          /\ Cancelling(t) => Cancelling(t)'
          /\ AtClear(t)' <=> AtClear(t)
          /\ Marks(t) => Marks(t)'
      BY <1>2, <1>6, <1>7, <1>10
    <3> QED
      BY <1>3, <3>1, <3>2, <3>4, <3>5 DEF CancelOf
  <2> QED
    BY <2>1, <2>2
<1>20. Transfers \cap {t} = {t}
  OBVIOUS
<1> QED
  BY <1>2, <1>6, <1>7, <1>9, <1>16, <1>17, <1>18, <1>19, <1>20, CancelCarry
LEMMA CancelKept == ASSUME UInv, UrbInv, CancelInv, Step PROVE CancelInv'
<1>1. /\ Basics /\ done \in Seq(Endings) /\ x \in [Transfers -> Fields] /\ "E" \in Threads
      /\ cur["E"] \in Transfers /\ exp \in Transfers
  BY Filled DEF UInv, TypeOK, Basics
<1>2. PICK t \in Transfers : t = cur["E"]
  BY <1>1
<1>3. CASE Calm
  <2>1. UNCHANGED <<x, accepted, queued, unplugged, exp>>
    BY <1>3 DEF Calm
  <2>2. done' \in Seq(Endings) /\ Fades(done', done)
    <3>1. PICK r \in Seq(Endings) : r = done
      BY <1>1
    <3>2. CASE done' = done
      BY <3>1, <3>2, SameFades
    <3>3. CASE r # <<>> /\ done' = Tail(r)
      BY <3>1, <3>3, TailFades
    <3> QED
      BY <1>3, <3>1, <3>2, <3>3 DEF Calm
  <2>3. \A s \in Transfers : SeesLess(s)
    BY <2>1, <2>2, SeesFading DEF Queued
  <2>4. \A s \in Transfers : SameOutcome(s)
    BY <2>1 DEF SameOutcome
  <2>5. /\ out' = out \/ pc["E"] # "remove"
        /\ \A p \in Threads : pc'[p] = "mark" <=> pc[p] = "mark"
    BY <1>3 DEF Calm, Marked
  <2>6. \/ pc'["E"] = pc["E"] /\ cur'["E"] = cur["E"]
        \/ {pc["E"], pc'["E"]} \cap {"late", "remove", "clear"} = {}
    BY <1>1, <1>3 DEF Calm, Marked
  <2> QED
    BY <1>1, <2>1, <2>3, <2>4, <2>5, <2>6, CancelQuiet
<1>4. CASE Unplug \/ \E e \in queued, st \in UrbStatus : KernelCompletes(e, st)
  <2>1. UNCHANGED <<x, accepted, pc, cur, exp, out>> /\ (unplugged => unplugged')
    BY <1>4 DEF Unplug, KernelCompletes, thread, event, ghost
  <2>2. \A s \in Transfers : SeesLess(s)
    BY <1>4, SeesCompletion, SeesSame DEF Unplug
  <2>3. \A s \in Transfers : SameOutcome(s)
    BY <2>1 DEF SameOutcome
  <2> QED
    BY <1>1, <2>1, <2>2, <2>3, CancelQuiet
<1>5. CASE Cancels
  BY <1>5, CancelsCancelKept
<1>6. ASSUME NEW p \in Threads,
             \/ SubmitEnlist(p) \/ UrbAccepted(p) \/ FirstUrbRefused(p)
             \/ \E st \in {"full", "unlinked"} : LaterUrbRefused(p, st)
             \/ Submitted(p)
      PROVE  CancelInv'
  BY <1>6, SubmitCancelKept
<1>7. ASSUME NEW p \in Threads, TimeoutMark(p) PROVE CancelInv'
  <2>1. PICK s \in Transfers : s = exp
    BY <1>1
  <2>2. /\ UNCHANGED <<accepted, done, queued, unplugged, cur, exp, out>>
        /\ pc[p] = "mark" /\ pc' = [pc EXCEPT ![p] = "expire"]
        /\ x' = [x EXCEPT ![s].expiry = @ \cup {"TIMED_OUT"}]
    BY <1>7, <2>1 DEF TimeoutMark, Go, kernel, event, ghost
  <2>3. \A z \in Transfers : SeesLess(z)
    BY <2>2, SeesSame
  <2>4. accepted[s] = "timeout" /\ CancelOf(s)
    BY <2>1, <2>2 DEF CancelInv
  <2>5. x'[s].flags = x[s].flags /\ x'[s].action = x[s].action /\ x'[s].status = x[s].status
        /\ x'[s].expiry = x[s].expiry \cup {"TIMED_OUT"}
    BY <1>1, <2>2 DEF Fields
  <2>6. /\ \A q \in Threads : pc[q] \in {"late", "remove", "clear"} => pc'[q] = pc[q]
        /\ \A q \in Threads : pc'[q] \in {"late", "remove", "clear"} => pc'[q] = pc[q]
        /\ \A q \in Threads : pc'[q] # "mark"
    <3>1. \A q \in Threads \ {p} : pc'[q] = pc[q] /\ pc[q] # "mark"
      BY <1>1, <2>2, OneMark DEF Basics
    <3>2. pc'[p] = "expire"
      BY <1>1, <2>2 DEF Basics
    <3> QED
      BY <2>2, <3>1, <3>2
  <2>7. \A z : AtClear(z)' <=> AtClear(z)
    BY <1>1, <2>2, <2>6 DEF AtClear
  <2>8. CancelOf(s)'
    <3>1. /\ InFlight(s)' <=> InFlight(s)
          /\ Cancelling(s)' <=> Cancelling(s)
          /\ Queued(s, Urbs(s))' <=> Queued(s, Urbs(s))
          /\ \A u : Back(done, s, u, "unlinked")' <=> Back(done, s, u, "unlinked")
          /\ "TIMED_OUT" \in x'[s].expiry
      BY <2>2, <2>5 DEF InFlight, Cancelling, Queued, Urbs, Back, FreshIn
    <3> QED
      BY <2>2, <2>4, <2>5, <2>7, <3>1 DEF CancelOf
  <2>9. \A z \in Transfers \ {s} : SameOutcome(z) /\ ~Marks(z)
    BY <1>1, <2>1, <2>2 DEF SameOutcome, Marks
  <2>10. /\ pc'["E"] = "late" => x'[cur'["E"]].action = "CANCELLED"
         /\ CancelIsReported'
    <3>1. \A z \in Transfers : x'[z].action = x[z].action
      BY <2>5, <2>9 DEF SameOutcome
    <3> QED
      BY <1>1, <2>2, <2>6, <3>1, ReportStays
  <2>11. Transfers \cap {s} = {s}
    OBVIOUS
  <2> QED
    BY <2>2, <2>3, <2>6, <2>7, <2>8, <2>9, <2>10, <2>11, CancelCarry
<1>a. ASSUME pc' = [pc EXCEPT !["E"] = pc'["E"]], pc["E"] # "mark", pc'["E"] # "mark",
             UNCHANGED <<accepted, exp>>
      PROVE  /\ \A s \in Transfers : Marks(s) => Marks(s)'
             /\ \A p \in Threads : pc'[p] = "mark" => accepted'[exp'] = "timeout"
  <2>1. \A p \in Threads : pc'[p] = "mark" <=> pc[p] = "mark"
    BY <1>1, <1>a DEF Basics
  <2> QED
    BY <1>a, <2>1 DEF Marks, CancelInv
<1>8. ASSUME NEW kst \in {"full", "unlinked"}, BulkCompletion(kst) PROVE CancelInv'
  BY <1>8, BulkCancelKept
<1>9. CASE ControlCompletion
  <2>1. PICK q \in Seq(Endings), u \in 1 .. U, e \in UrbStatus : First(t, q, u, e)
    <3>1. PICK s \in Transfers, q \in Seq(Endings), u \in 1 .. U, e \in UrbStatus : First(s, q, u, e)
      BY <1>9, HeadIs DEF ControlCompletion
    <3> QED
      BY <1>2, <3>1 DEF First, Handled
  <2>2. /\ Fades(q, done) /\ q = Tail(done) /\ Head(done)[4] = e /\ Back(done, t, u, e) /\ InFlight(t)
    BY <2>1 DEF First, Handled
  <2>3. /\ UNCHANGED <<unplugged, cur, exp, queued, accepted>> /\ t \in Control /\ done' = q
        /\ x' = [x EXCEPT ![t].urbs = FALSE] /\ out' = ControlStatus(e)
        /\ pc["E"] = "complete" /\ Go("E", IF x[t].action = "CANCELLED" THEN "late" ELSE "remove")
    BY <1>2, <1>9, <2>2 DEF ControlCompletion, ghost
  <2>4. \A s \in Transfers : SeesLess(s)
    BY <2>2, <2>3, SeesFading DEF Queued
  <2>5. \A s \in Transfers : SameOutcome(s)
    BY <1>1, <2>3 DEF SameOutcome, Fields
  <2>6. pc' = [pc EXCEPT !["E"] = pc'["E"]] /\ pc'["E"] = IF x[t].action = "CANCELLED" THEN "late" ELSE "remove"
    BY <1>1, <2>3 DEF Go, Basics
  <2>7. \A s : (AtClear(s)' <=> AtClear(s)) /\ ~AtClear(s)
    BY <2>3, <2>6 DEF AtClear
  <2>8. ASSUME pc'["E"] = "remove" PROVE CancelIsReported'
    <3>1. accepted'[t] = "none" /\ x[t].action # "CANCELLED" /\ CancelOf(t)
      BY <2>3, <2>6, <2>8 DEF CancelInv, CancelOf
    <3>2. /\ ControlStatus(e) # "TIMED_OUT"
          /\ ControlStatus(e) = "CANCELLED" => e = "unlinked"
          /\ ControlStatus(e) = "NO_DEVICE" => e = "nodev"
      BY DEF ControlStatus, UrbStatus
    <3>3. e = "unlinked" => unplugged
      BY <2>2, <2>3, <3>1 DEF CancelOf
    <3>4. e = "nodev" => unplugged
      BY <2>2 DEF UrbInv, Told
    <3> QED
      BY <1>2, <2>3, <3>1, <3>2, <3>3, <3>4 DEF CancelIsReported
  <2>9. /\ CancelIsReported'
        /\ pc'["E"] = "late" => x'[cur'["E"]].action = "CANCELLED"
    <3>1. x'[t].action = x[t].action
      BY <2>5 DEF SameOutcome
    <3> QED
      BY <1>2, <2>3, <2>6, <2>8, <3>1 DEF CancelIsReported
  <2>10. pc["E"] # "mark" /\ pc'["E"] # "mark" /\ Transfers \cap {} = {} /\ Transfers \ {} = Transfers
    BY <2>3, <2>6
  <2> QED
    BY <1>a, <2>3, <2>4, <2>5, <2>6, <2>7, <2>9, <2>10, CancelCarry
<1>10. CASE Cancellation
  <2>1. /\ UNCHANGED <<x, accepted, done, queued, unplugged, cur, exp>> /\ fl = "none"
        /\ pc["E"] = "late" /\ pc' = [pc EXCEPT !["E"] = "remove"]
        /\ out' = IF "TIMED_OUT" \in x[t].expiry THEN "TIMED_OUT" ELSE "CANCELLED"
    BY <1>2, <1>10 DEF Cancellation, Go, kernel, ghost
  <2>2. pc'["E"] = "remove" /\ pc' = [pc EXCEPT !["E"] = pc'["E"]]
    BY <1>1, <2>1 DEF Basics
  <2>3. /\ InFlight(t) /\ ~AtClear(t) /\ x[t].action = "CANCELLED" /\ CancelOf(t) /\ ~Marks(t)
        /\ \A s : (AtClear(s)' <=> AtClear(s))
    BY <1>2, <2>1, <2>2, OneMark DEF UInv, HeldInv, AtClear, CancelInv, Marks
  <2>4. accepted[t] \in {"user", "timeout"} /\ ("TIMED_OUT" \in x[t].expiry <=> accepted[t] = "timeout")
    <3>1. accepted[t] \in {"none", "user", "timeout"}
      BY DEF UInv, TypeOK
    <3> QED
      BY <2>3, <3>1 DEF CancelOf
  <2>5. CancelIsReported'
    BY <1>2, <2>1, <2>4 DEF CancelIsReported
  <2>6. \A s \in Transfers : SeesLess(s) /\ SameOutcome(s)
    BY <2>1, SeesSame DEF SameOutcome
  <2>7. pc["E"] # "mark" /\ pc'["E"] # "mark" /\ Transfers \cap {} = {} /\ Transfers \ {} = Transfers
    BY <2>1, <2>2
  <2> QED
    BY <1>a, <2>1, <2>2, <2>3, <2>5, <2>6, <2>7, CancelCarry
<1>11. CASE Remove
  <2>1. /\ UNCHANGED <<x, done, queued, unplugged, cur, exp>> /\ fl = "none"
        /\ pc["E"] = "remove" /\ pc' = [pc EXCEPT !["E"] = "clear"]
        /\ accepted' = [accepted EXCEPT ![t] = "none"]
    BY <1>2, <1>11 DEF Remove, Go, kernel
  <2>2. /\ pc'["E"] = "clear" /\ \A p \in Threads : pc[p] # "mark" /\ pc'[p] # "mark"
        /\ AtClear(t)' /\ \A s \in Transfers \ {t} : (AtClear(s)' <=> AtClear(s)) /\ ~Marks(s)
    <3>1. pc'["E"] = "clear" /\ \A p \in Threads : pc[p] # "mark" /\ pc'[p] # "mark"
      BY <1>1, <2>1, OneMark DEF Basics
    <3> QED
      BY <1>2, <2>1, <3>1 DEF AtClear, Marks
  <2>3. \A s \in Transfers : SeesLess(s)
    BY <2>1, SeesSame
  <2>4. accepted \in [Transfers -> {"none", "user", "timeout"}]
    BY DEF UInv, TypeOK
  <2>5. \A s \in Transfers \ {t} : SameOutcome(s)
    BY <2>1, <2>4 DEF SameOutcome
  <2>6. CancelOf(t)'
    <3>1. /\ Queued(t, Urbs(t))' <=> Queued(t, Urbs(t))
          /\ \A u : Back(done, t, u, "unlinked")' <=> Back(done, t, u, "unlinked")
      BY <2>1 DEF Queued, Urbs, Back, FreshIn
    <3>2. accepted'[t] = "none" /\ CancelOf(t)
      BY <2>1, <2>4 DEF CancelInv
    <3> QED
      BY <2>1, <2>2, <3>1, <3>2 DEF CancelOf
  <2>7. Transfers \cap {t} = {t} /\ CancelIsReported' /\ pc'["E"] # "late"
    BY <2>2 DEF CancelIsReported
  <2> QED
    BY <2>1, <2>2, <2>3, <2>5, <2>6, <2>7, CancelCarry
<1>12. CASE ClearInFlight
  <2>1. /\ UNCHANGED <<accepted, done, queued, unplugged, cur, exp>>
        /\ pc["E"] = "clear" /\ pc' = [pc EXCEPT !["E"] = "callback"]
        /\ x' = [x EXCEPT ![t].flags = @ \ {"IN_FLIGHT"}]
    BY <1>2, <1>12 DEF ClearInFlight, Go, kernel, ghost
  <2>2. pc'["E"] = "callback" /\ pc' = [pc EXCEPT !["E"] = pc'["E"]]
    BY <1>1, <2>1 DEF Basics
  <2>3. AtClear(t) /\ \A s \in Transfers \ {t} : AtClear(s)' <=> AtClear(s)
    BY <1>2, <2>1, <2>2 DEF AtClear
  <2>4. /\ x'[t].flags = x[t].flags \ {"IN_FLIGHT"} /\ x'[t].action = x[t].action
        /\ x'[t].status = x[t].status /\ x'[t].expiry = x[t].expiry
        /\ \A s \in Transfers \ {t} : SameOutcome(s)
    BY <1>1, <2>1 DEF Fields, SameOutcome
  <2>5. CancelOf(t)'
    <3>1. /\ Queued(t, Urbs(t))' <=> Queued(t, Urbs(t))
          /\ \A u : Back(done, t, u, "unlinked")' <=> Back(done, t, u, "unlinked")
      BY <2>1 DEF Queued, Urbs, Back, FreshIn
    <3>2. accepted'[t] = "none" /\ CancelOf(t) /\ ~InFlight(t)'
      BY <2>1, <2>3, <2>4 DEF CancelInv, CancelOf, InFlight
    <3> QED
      BY <2>1, <2>4, <3>1, <3>2 DEF CancelOf
  <2>6. \A s \in Transfers : SeesLess(s)
    BY <2>1, SeesSame
  <2>7. Transfers \cap {t} = {t} /\ CancelIsReported' /\ pc'["E"] # "late" /\ pc["E"] # "mark" /\ pc'["E"] # "mark"
    BY <2>1, <2>2 DEF CancelIsReported
  <2> QED
    BY <1>a, <2>1, <2>2, <2>3, <2>4, <2>5, <2>6, <2>7, CancelCarry
<1>13. CASE ClearPriv
  <2>1. /\ UNCHANGED <<accepted, unplugged, cur, exp>> /\ out' = "NO_DEVICE"
        /\ pc["E"] = "clearpriv" /\ pc' = [pc EXCEPT !["E"] = "remove"]
        /\ x' = [x EXCEPT ![t].urbs = FALSE]
        /\ \/ queued' = Stale(t, queued) /\ done' = StaleDone(t, done)
           \/ UNCHANGED <<done, queued>>
    BY <1>2, <1>13 DEF ClearPriv, Go, ghost
  <2>2. pc'["E"] = "remove" /\ pc' = [pc EXCEPT !["E"] = pc'["E"]] /\ unplugged
    BY <1>1, <2>1 DEF Basics, UInv, ScanInv
  <2>3. \A s \in Transfers : SeesLess(s)
    <3>1. PICK z \in Seq(Endings) : z = done
      BY <1>1
    <3>2. Fades(z, done)
      BY <3>1, SameFades
    <3> QED
      BY <2>1, <3>1, <3>2, SeesStale, SeesSame
  <2>4. \A s \in Transfers : SameOutcome(s)
    BY <1>1, <2>1 DEF SameOutcome, Fields
  <2>5. \A s : AtClear(s)' <=> AtClear(s)
    BY <2>1, <2>2 DEF AtClear
  <2>6. CancelIsReported'
    BY <2>1, <2>2 DEF CancelIsReported
  <2>7. Transfers \cap {} = {} /\ Transfers \ {} = Transfers /\ pc["E"] # "mark" /\ pc'["E"] # "mark"
    BY <2>1, <2>2
  <2> QED
    BY <1>a, <2>1, <2>2, <2>3, <2>4, <2>5, <2>6, <2>7, CancelCarry
<1> QED
  BY <1>3, <1>4, <1>5, <1>6, <1>7, <1>8, <1>9, <1>10, <1>11, <1>12, <1>13 DEF Step

LEMMA InitOutcome == Init => UrbInv /\ CancelInv
<1> SUFFICES ASSUME Init PROVE UrbInv /\ CancelInv
  OBVIOUS
<1>1. /\ queued = {} /\ done = <<>> /\ \A t \in Transfers : accepted[t] = "none" /\ x[t] = Idle
      /\ \A p \in Threads : pc[p] = "rest"
  BY DEF Init
<1>2. \A q, t : q = <<>> => FreshIn(q, t) = {}
  BY DEF FreshIn
<1>3. \A t, u, st : ~Back(done, t, u, st)
  BY <1>1, <1>2 DEF Back
<1>4. "E" \in Threads /\ pc["E"] = "rest"
  BY <1>1 DEF Threads
<1>5. UrbInv
  BY <1>1, <1>2, <1>3 DEF UrbInv, Apart, Told, Filling
<1>6. Idle.action = "NORMAL" /\ Idle.expiry = {} /\ Idle.flags = {} /\ Idle.status = "COMPLETED"
  BY DEF Idle
<1>7. \A t \in Transfers : CancelOf(t)
  BY <1>1, <1>3, <1>6 DEF CancelOf, InFlight
<1> QED
  BY <1>1, <1>4, <1>5, <1>7 DEF CancelInv, CancelIsReported

(***************************************************************************)
(* A cancel that returned 0 is what the callback hears of, a timeout is    *)
(* told from a cancel, and none of them is reported of a transfer nobody   *)
(* cancelled: however cancels, timeouts, completions, resubmissions and an *)
(* unplug interleave.                                                      *)
(***************************************************************************)
THEOREM CancelReportedAlways == SingleUse => (Spec => []CancelIsReported)
<1> SUFFICES ASSUME SingleUse PROVE Spec => []CancelIsReported
  OBVIOUS
<1>1. Init => UrbInv /\ CancelInv
  BY InitOutcome
<1>2. UInv /\ UrbInv /\ CancelInv /\ [Next]_vars => (UrbInv /\ CancelInv)'
  BY Steps, UrbsKept, CancelKept
<1>3. CancelInv => CancelIsReported
  BY DEF CancelInv
<1> QED
  BY <1>1, <1>2, <1>3, UInvAlways, PTL DEF Spec

-----------------------------------------------------------------------------
(* AwaitInv.                                                               *)

(* An endpoint does not stall, or each transfer is one URB: where a stall  *)
(* tears down a transfer in state NORMAL, the next URB may end it early.   *)
StallEnds == "stall" \notin Env \/ U = 1

LEMMA Counts ==
    ASSUME NEW m \in Nat, NEW B \in SUBSET (1 .. m), NEW A \in SUBSET B
    PROVE  /\ Cardinality(A) \in Nat /\ Cardinality(B) \in Nat
           /\ Cardinality(A) <= Cardinality(B) /\ Cardinality(B) <= m
           /\ \A u \in B \ A : Cardinality(A) + 1 <= Cardinality(B)
           /\ \A u \in B : Cardinality(B) <= 1 => B = {u}
<1>1. IsFiniteSet(1 .. m) /\ Cardinality(1 .. m) = m
  <2>1. 1 \in Int /\ m \in Int
    OBVIOUS
  <2>2. IsFiniteSet(1 .. m) /\ Cardinality(1 .. m) = IF 1 > m THEN 0 ELSE m - 1 + 1
    BY <2>1, FS_Interval
  <2> QED
    BY <2>2
<1>2. IsFiniteSet(B) /\ Cardinality(B) <= m
  BY <1>1, FS_Subset
<1>3. IsFiniteSet(A) /\ Cardinality(A) <= Cardinality(B)
  BY <1>2, FS_Subset
<1>4. Cardinality(A) \in Nat /\ Cardinality(B) \in Nat
  BY <1>2, <1>3, FS_CardinalityType
<1>5. ASSUME NEW u \in B \ A PROVE Cardinality(A) + 1 <= Cardinality(B)
  <2>1. Cardinality(A) # Cardinality(B)
    <3> SUFFICES ASSUME Cardinality(A) = Cardinality(B) PROVE FALSE
      OBVIOUS
    <3>1. A = B
      BY <1>2, FS_Subset
    <3> QED
      BY <1>5, <3>1
  <2> QED
    BY <1>3, <1>4, <2>1
<1>6. ASSUME NEW u \in B, Cardinality(B) <= 1 PROVE B = {u}
  <2>1. {u} \in SUBSET B /\ Cardinality({u}) = 1
    BY FS_Singleton
  <2>2. Cardinality({u}) <= Cardinality(B)
    BY <1>2, <2>1, FS_Subset
  <2>3. Cardinality({u}) = Cardinality(B)
    BY <1>4, <1>6, <2>1, <2>2
  <2> QED
    BY <1>2, <2>1, <2>3, FS_Subset
<1> QED
  BY <1>2, <1>3, <1>4, <1>5, <1>6

(* The URBs of s that come back keep their order, and none is discarded.   *)
Keeps(s) ==
    /\ \A v : <<s, v, TRUE>> \in queued' <=> Queued(s, v)
    /\ Ordered(done, s) => Ordered(done, s)'
    /\ Dwindles(s)

LEMMA KeepsFading ==
    ASSUME done \in Seq(Endings), done' \in Seq(Endings), Fades(done', done),
           NEW s, \A v : <<s, v, TRUE>> \in queued' <=> Queued(s, v)
    PROVE  Keeps(s)
<1>1. PICK q \in Seq(Endings), r \in Seq(Endings) : q = done' /\ r = done
  OBVIOUS
<1>2. /\ \A t, u, st : Back(q, t, u, st) => Back(r, t, u, st)
      /\ \A t : Ordered(r, t) => Ordered(q, t)
  BY <1>1, FadesKeep
<1>3. Ordered(done, s) => Ordered(done, s)'
  <2>1. Ordered(done, s)' <=> Ordered(q, s)
    BY <1>1 DEF Ordered, Queued, FreshIn
  <2> QED
    BY <1>1, <1>2, <2>1
<1> QED
  BY <1>1, <1>2, <1>3 DEF Keeps, Dwindles

LEMMA KeepsStale ==
    ASSUME UInv, NEW t \in Transfers, NEW q \in Seq(Endings), Fades(q, done),
           queued' = Stale(t, queued), done' = StaleDone(t, q)
    PROVE  /\ \A s \in Transfers \ {t} : Keeps(s)
           /\ Out(t)' = {} /\ Ordered(done, t)' /\ \A v : <<t, v, TRUE>> \notin queued'
<1>1. done' \in Seq(Endings) /\ Fades(done', q) /\ FreshIn(done', t) = {}
  BY StaleFades
<1>2. PICK z \in Seq(Endings), r \in Seq(Endings) : z = done' /\ r = done
  BY <1>1 DEF UInv, TypeOK, Endings
<1>3. Fades(done', done) /\ done \in Seq(Endings)
  BY <1>1, <1>2, FadesTwice
<1>4. \A s, v : <<s, v, TRUE>> \in queued' => Queued(s, v) /\ s # t
  BY StaleFewer
<1>5. ASSUME NEW s \in Transfers \ {t}, NEW v, Queued(s, v) PROVE <<s, v, TRUE>> \in queued'
  <2>1. <<s, v, TRUE>> \in queued /\ <<s, v, TRUE>>[1] # t
    BY <1>5 DEF Queued
  <2> QED
    BY <2>1 DEF Stale
<1>6. \A s \in Transfers \ {t} : Keeps(s)
  BY <1>1, <1>3, <1>4, <1>5, KeepsFading
<1>7. \A v : <<t, v, TRUE>> \notin queued'
  BY <1>4
<1>8. Out(t)' = {} /\ Ordered(done, t)'
  BY <1>1, <1>7 DEF Out, Queued, Back, Ordered
<1> QED
  BY <1>6, <1>7, <1>8

LEMMA KeepsDiscard ==
    ASSUME UInv, NEW t \in Transfers, NEW first \in 1 .. U + 1, NEW last \in 0 .. U,
           NEW st \in {"full", "unlinked"}, NEW q \in Seq(Endings), Fades(q, done),
           Discard(t, first, last, st, q)
    PROVE  /\ \A s \in Transfers \ {t} : Keeps(s)
           /\ unplugged \/ (\A u \in first .. last : ~Queued(t, u)) => Keeps(t) /\ done' = q
           /\ \A s, u, c : Back(done', s, u, c) => Back(q, s, u, c) \/ (s = t /\ Queued(t, u))
           /\ \A s, v : <<s, v, TRUE>> \in queued' => Queued(s, v)
           /\ \A s \in Transfers : Dwindles(s)
           /\ queued' \subseteq queued
           /\ (\A k \in DOMAIN q : q[k][3]) => \A k \in DOMAIN done' : done'[k][3]
<1>1. Basics /\ done \in Seq(Endings)
  BY Filled
<1>2. /\ Returns(t, q, {"full", "unlinked"})
      /\ (\A u \in first .. last : ~Queued(t, u)) => done' = q
  BY <1>1, DiscardReturns
<1>3. /\ queued' \subseteq queued /\ done' \in Seq(Endings) /\ Len(q) \in Nat /\ Len(q) <= Len(done')
      /\ \A k \in 1 .. Len(q) : done'[k] = q[k]
      /\ \A k \in Len(q) + 1 .. Len(done') : done'[k][1] = t /\ done'[k][3]
  <2>1. Len(q) \in Nat
    OBVIOUS
  <2> QED
    BY <1>2, <2>1, Zenon DEF Returns
<1>4. \A s, u, c : Back(done', s, u, c) => Back(q, s, u, c) \/ (s = t /\ Queued(t, u))
  BY <1>1, <1>2, ReturnsKeep
<1>5. PICK r \in Seq(Endings) : r = done
  BY <1>1
<1>6. /\ \A s, u, c : Back(q, s, u, c) => Back(r, s, u, c)
      /\ \A s : Ordered(r, s) => Ordered(q, s)
  BY <1>5, FadesKeep
<1>7. \A s \in Transfers : Dwindles(s)
  BY <1>3, <1>4, <1>5, <1>6 DEF Dwindles, Queued
<1>8. \A k \in DOMAIN done' : k \in 1 .. Len(q) \/ k \in Len(q) + 1 .. Len(done')
  BY <1>3
<1>9. ASSUME NEW s \in Transfers \ {t} PROVE Keeps(s)
  <2>1. \A k \in FreshIn(done', s) : k \in FreshIn(q, s) /\ done'[k] = q[k]
    BY <1>3, <1>8 DEF FreshIn
  <2>2. \A v : <<s, v, TRUE>> \in queued' <=> Queued(s, v)
    <3>1. ASSUME NEW v, Queued(s, v) PROVE <<s, v, TRUE>> \in queued'
      <4>1. \A u : <<s, v, TRUE>> # <<t, u, TRUE>>
        OBVIOUS
      <4> QED
        BY <3>1, <4>1 DEF Discard, Queued
    <3> QED
      BY <1>3, <3>1 DEF Queued
  <2>3. Ordered(done, s) => Ordered(done, s)'
    BY <1>5, <1>6, <2>1, <2>2 DEF Ordered, Queued
  <2> QED
    BY <1>7, <2>2, <2>3 DEF Keeps
<1>10. ASSUME unplugged \/ (\A u \in first .. last : ~Queued(t, u)) PROVE Keeps(t) /\ done' = q
  <2>1. done' = q
    BY <1>2, <1>10 DEF Discard
  <2>2. queued' = queued
    BY <1>10 DEF Discard, Queued
  <2> QED
    BY <1>1, <1>3, <2>1, <2>2, KeepsFading DEF Queued
<1>11. (\A k \in DOMAIN q : q[k][3]) => \A k \in DOMAIN done' : done'[k][3]
  BY <1>3, <1>8, SMTT(30)
<1>12. \A s, v : <<s, v, TRUE>> \in queued' => Queued(s, v)
  BY <1>3 DEF Queued
<1> QED
  BY <1>3, <1>4, <1>7, <1>9, <1>10, <1>11, <1>12

(* A step that leaves s's URBs their order; nobody gives up filling it in  *)
(* while they are with the kernel.                                         *)
FillsOn(s) == \A p \in Threads : cur[p] = s /\ pc[p] = "urbs" => cur'[p] = s /\ pc'[p] = "urbs"

LEMMA CountStays ==
    ASSUME Basics, NEW s \in Transfers, Cardinality(Out(s)) + x[s].retired <= Urbs(s),
           x[s].retired \in Nat, x'[s].retired = x[s].retired, Dwindles(s)
    PROVE  Cardinality(Out(s)') + x'[s].retired <= Urbs(s)
<1>1. Out(s)' \subseteq Out(s)
  BY OutShrinks
<1>2. PICK B \in SUBSET (1 .. U) : B = Out(s)
  BY DEF Out
<1>3. PICK A \in SUBSET B : A = Out(s)'
  BY <1>1, <1>2
<1>4. U \in Nat /\ Urbs(s) \in Nat
  BY DEF Basics
<1>5. Cardinality(A) \in Nat /\ Cardinality(B) \in Nat /\ Cardinality(A) <= Cardinality(B)
  BY <1>4, Counts
<1> QED
  BY <1>2, <1>3, <1>4, <1>5

(* Where s's URBs stay with the kernel the last of them does.              *)
LEMMA LastStays ==
    ASSUME Basics, NEW s \in Transfers, AwaitOf(s), FillsOn(s), x[s].action = "NORMAL",
           \A v : <<s, v, TRUE>> \in queued' <=> Queued(s, v)
    PROVE  \A v \in 1 .. U : Queued(s, v)' =>
             Queued(s, Urbs(s))' \/ \E p \in Threads : cur'[p] = s /\ pc'[p] = "urbs"
<1> SUFFICES ASSUME NEW v \in 1 .. U, Queued(s, v)'
    PROVE  Queued(s, Urbs(s))' \/ \E p \in Threads : cur'[p] = s /\ pc'[p] = "urbs"
  OBVIOUS
<1>1. Queued(s, v)
  BY DEF Queued
<1>2. Queued(s, Urbs(s)) \/ \E p \in Threads : cur[p] = s /\ pc[p] = "urbs"
  BY <1>1 DEF AwaitOf
<1>3. Queued(s, Urbs(s)) => Queued(s, Urbs(s))'
  BY DEF Queued, Urbs
<1> QED
  BY <1>2, <1>3 DEF FillsOn

LEMMA AwaitStays ==
    ASSUME Basics, NEW s \in Transfers, AwaitOf(s), Keeps(s), x[s].retired \in Nat,
           x'[s].retired = x[s].retired, x'[s].action = "NORMAL" => x[s].action = "NORMAL",
           FillsOn(s) \/ \A u \in 1 .. U : ~Queued(s, u)
    PROVE  AwaitOf(s)'
<1>1. Cardinality(Out(s)') + x'[s].retired <= Urbs(s)
  BY CountStays DEF AwaitOf, Keeps
<1>2. ASSUME x'[s].action = "NORMAL"
      PROVE  /\ Ordered(done, s)'
             /\ \A u \in 1 .. U : Queued(s, u)' =>
                  Queued(s, Urbs(s))' \/ \E p \in Threads : cur'[p] = s /\ pc'[p] = "urbs"
  <2>1. Ordered(done, s)'
    BY <1>2 DEF AwaitOf, Keeps
  <2>2. CASE FillsOn(s)
    BY <1>2, <2>1, <2>2, LastStays DEF Keeps
  <2>3. CASE \A u \in 1 .. U : ~Queued(s, u)
    BY <2>1, <2>3 DEF Keeps, Queued
  <2> QED
    BY <2>2, <2>3
<1>3. Urbs(s)' = Urbs(s)
  BY DEF Urbs
<1> QED
  BY <1>1, <1>2, <1>3 DEF AwaitOf

LEMMA PollStays ==
    ASSUME AwaitInv, poll' = poll, AllFresh /\ poll \in {"live", "err"} => AllFresh',
           pc'["E"] \in {"reap", "complete"} => pc["E"] \in {"reap", "complete"}
    PROVE  /\ poll' \in {"live", "err"} => AllFresh'
           /\ pc'["E"] \in {"reap", "complete"} => poll' \in {"live", "err"}
  BY DEF AwaitInv

(* An URB of t that comes back is behind the others, before those left.    *)
LEMMA CompletionAwait ==
    ASSUME UInv, AwaitInv, NEW e \in queued, NEW st \in UrbStatus, KernelCompletes(e, st),
           \A s \in Transfers : Dwindles(s)
    PROVE  AwaitInv'
<1>1. Basics /\ done \in Seq(Endings) /\ x \in [Transfers -> Fields]
  BY Filled
<1>2. /\ UNCHANGED <<x, pc, cur, poll>> /\ queued' = queued \ {e}
      /\ done' = Append(done, <<e[1], e[2], e[3], st>>)
      /\ \A f \in queued : f[1] = e[1] /\ f[3] = e[3] => e[2] <= f[2]
  BY DEF KernelCompletes, thread, event
<1>3. /\ e = <<e[1], e[2], e[3]>> /\ e[1] \in Transfers /\ e[2] \in 1 .. U /\ e[3] \in BOOLEAN
      /\ Len(done) \in Nat
  BY <1>1 DEF UInv, TypeOK
<1>4. /\ done' \in Seq(Endings) /\ Len(done') = Len(done) + 1
      /\ \A k \in 1 .. Len(done) : done'[k] = done[k]
      /\ done'[Len(done) + 1] = <<e[1], e[2], e[3], st>>
  BY <1>1, <1>2, <1>3 DEF Endings
<1>5. \A k \in DOMAIN done' : k \in 1 .. Len(done) \/ k = Len(done) + 1
  BY <1>3, <1>4
<1>6. PICK t \in Transfers, u \in 1 .. U, r \in Seq(Endings) : t = e[1] /\ u = e[2] /\ r = done
  BY <1>1, <1>3
<1>7. DOMAIN r = 1 .. Len(r) /\ Len(r) = Len(done)
  BY <1>6
<1>8. ASSUME NEW s \in Transfers, s # t \/ ~e[3] PROVE AwaitOf(s)'
  <2>1. \A v : <<s, v, TRUE>> \in queued' <=> Queued(s, v)
    <3>1. ASSUME NEW v, <<s, v, TRUE>> = e PROVE FALSE
      <4>1. e[1] = s /\ e[3] = TRUE
        BY <3>1
      <4> QED
        BY <1>6, <1>8, <4>1
    <3> QED
      BY <1>2, <3>1 DEF Queued
  <2>2. \A k \in FreshIn(done', s) : k \in FreshIn(done, s) /\ done'[k] = done[k]
    BY <1>4, <1>5, <1>6, <1>7, <1>8 DEF FreshIn
  <2>3. Ordered(done, s) => Ordered(done, s)'
    BY <2>1, <2>2 DEF Ordered, Queued
  <2>4. Keeps(s)
    BY <2>1, <2>3 DEF Keeps
  <2>5. FillsOn(s) /\ x[s].retired \in Nat
    BY <1>1, <1>2 DEF FillsOn, Fields
  <2> QED
    BY <1>1, <1>2, <2>4, <2>5, AwaitStays DEF AwaitInv
<1>9. ASSUME e[3] PROVE AwaitOf(t)'
  <2>1. e = <<t, u, TRUE>>
    <3>1. e[3] = TRUE
      BY <1>3, <1>9, Zenon
    <3> QED
      BY <1>3, <1>6, <3>1, Zenon
  <2>2. Queued(t, u)
    BY <2>1 DEF Queued
  <2>3. \A v \in 1 .. U : Queued(t, v)' <=> Queued(t, v) /\ v # u
    BY <1>2, <2>1 DEF Queued
  <2>4. \A v \in 1 .. U : Queued(t, v)' => u < v
    <3> SUFFICES ASSUME NEW v \in 1 .. U, Queued(t, v)' PROVE u < v
      OBVIOUS
    <3>1. <<t, v, TRUE>> \in queued /\ v # u
      BY <2>3 DEF Queued
    <3>2. u <= v
      BY <1>2, <2>1, <3>1
    <3> QED
      BY <1>1, <3>1, <3>2 DEF Basics
  <2>5. AwaitOf(t) /\ x[t].retired \in Nat
    BY <1>1 DEF AwaitInv, Fields
  <2>6. Cardinality(Out(t)') + x'[t].retired <= Urbs(t)
    BY <1>1, <1>2, <2>5, CountStays DEF AwaitOf
  <2>7. ASSUME x'[t].action = "NORMAL" PROVE Ordered(done, t)'
    <3>1. Ordered(done, t)
      BY <1>2, <2>5, <2>7 DEF AwaitOf
    <3>2. ASSUME NEW k \in FreshIn(done', t)
          PROVE  (k \in FreshIn(done, t) /\ k \in 1 .. Len(r) /\ done'[k] = done[k])
                 \/ (k = Len(r) + 1 /\ done'[k][2] = u)
      <4>1. CASE k \in 1 .. Len(done)
        BY <1>4, <1>6, <1>7, <3>2, <4>1 DEF FreshIn
      <4>2. CASE k = Len(done) + 1
        BY <1>4, <1>6, <1>7, <4>2
      <4> QED
        BY <1>5, <3>2, <4>1, <4>2 DEF FreshIn
    <3>3. \A k \in FreshIn(done, t) : done[k][2] < u
      BY <2>2, <3>1 DEF Ordered
    <3>4. ASSUME NEW j \in FreshIn(done', t), NEW k \in FreshIn(done', t), j < k
          PROVE  done'[j][2] < done'[k][2]
      <4>1. j \in FreshIn(done, t) /\ j \in 1 .. Len(r) /\ done'[j] = done[j]
        BY <1>3, <1>7, <3>2, <3>4
      <4>2. CASE k \in FreshIn(done, t) /\ done'[k] = done[k]
        BY <3>1, <3>4, <4>1, <4>2 DEF Ordered
      <4>3. CASE k = Len(r) + 1 /\ done'[k][2] = u
        BY <3>3, <4>1, <4>3
      <4> QED
        BY <3>2, <4>2, <4>3
    <3>5. ASSUME NEW k \in FreshIn(done', t), NEW v \in 1 .. U, Queued(t, v)' PROVE done'[k][2] < v
      <4>1. Queued(t, v) /\ u < v
        BY <2>3, <2>4, <3>5
      <4> QED
        BY <3>1, <3>2, <4>1 DEF Ordered
    <3> QED
      BY <3>4, <3>5 DEF Ordered
  <2>8. ASSUME x'[t].action = "NORMAL", NEW v \in 1 .. U, Queued(t, v)'
        PROVE  Queued(t, Urbs(t))' \/ \E p \in Threads : cur'[p] = t /\ pc'[p] = "urbs"
    <3>1. Queued(t, Urbs(t)) \/ \E p \in Threads : cur[p] = t /\ pc[p] = "urbs"
      BY <1>2, <2>3, <2>5, <2>8 DEF AwaitOf
    <3>2. CASE Queued(t, Urbs(t))
      <4>1. Urbs(t) # u
        <5>1. CASE t \in Control
          <6>1. Queued(t, v) /\ v \in Nat /\ u \in Nat /\ u < v
            BY <1>1, <2>3, <2>4, <2>8 DEF Basics
          <6>2. u = 1 /\ v = 1
            BY <2>2, <5>1, <6>1 DEF UInv, ControlOnce, Queued
          <6> QED
            BY <6>1, <6>2
        <5>2. CASE t \notin Control
          BY <1>1, <2>4, <2>8, <5>2 DEF Urbs, Basics
        <5> QED
          BY <5>1, <5>2
      <4>2. Urbs(t) \in 1 .. U
        BY <1>1 DEF Basics
      <4>3. Queued(t, Urbs(t))' <=> <<t, Urbs(t), TRUE>> \in queued'
        BY DEF Queued, Urbs
      <4> QED
        BY <1>2, <2>1, <3>2, <4>1, <4>3 DEF Queued
    <3> QED
      BY <1>2, <3>1, <3>2
  <2>9. Urbs(t)' = Urbs(t)
    BY DEF Urbs
  <2> QED
    BY <2>6, <2>7, <2>8, <2>9 DEF AwaitOf
<1>10. AllFresh => AllFresh'
  BY <1>2, <1>4, <1>5, <1>6, <1>7 DEF AllFresh
<1>11. \A s \in Transfers : AwaitOf(s)'
  BY <1>8, <1>9
<1> QED
  BY <1>2, <1>10, <1>11, PollStays DEF AwaitInv

(* A cancel that does not succeed finds none of t's URBs, or they have not *)
(* ended in order.                                                         *)
LEMMA CancelsAwait == ASSUME UInv, AwaitInv, Cancels PROVE AwaitInv'
<1>1. Basics /\ done \in Seq(Endings) /\ x \in [Transfers -> Fields]
  BY Filled
<1>2. PICK t \in Transfers, st \in {"full", "unlinked"}, by \in {"user", "timeout"} :
        /\ Cancel(t, st, by)
        /\ \/ pc' = pc
           \/ \E p \in Threads : pc[p] = "expire" /\ Go(p, IF CancelReturn(t) = "OK" THEN "mark" ELSE "expire")
        /\ UNCHANGED <<unplugged, cur, n, poll, out>>
  BY DEF Cancels
<1>3. /\ \A p \in Threads : pc[p] = "urbs" => pc'[p] = "urbs"
      /\ pc'["E"] \in {"reap", "complete"} => pc["E"] \in {"reap", "complete"}
  <2>1. ASSUME NEW p \in Threads, pc[p] = "expire", Go(p, IF CancelReturn(t) = "OK" THEN "mark" ELSE "expire")
        PROVE  \A q \in Threads : pc'[q] = pc[q] \/ (pc[q] = "expire" /\ pc'[q] \in {"mark", "expire"})
    BY <1>1, <2>1 DEF Go, Basics
  <2>2. \A q \in Threads : pc'[q] = pc[q] \/ (pc[q] = "expire" /\ pc'[q] \in {"mark", "expire"})
    BY <1>2, <2>1
  <2>3. "E" \in Threads
    BY <1>1 DEF Basics
  <2> QED
    BY <2>2, <2>3
<1>4. \A s : FillsOn(s)
  BY <1>2, <1>3 DEF FillsOn
<1>5. /\ \A s \in Transfers \ {t} : x'[s] = x[s]
      /\ x'[t].retired = x[t].retired
      /\ x'[t].action = IF InFlight(t) /\ ~Cancelling(t) /\ CancelReturn(t) = "OK"
                           /\ ~(t \in Bulk /\ x[t].action = "ERROR")
                        THEN "CANCELLED" ELSE x[t].action
      /\ \A s \in Transfers : x[s].retired \in Nat
  BY <1>1, <1>2 DEF Cancel, Fields
<1>6. CASE ~(InFlight(t) /\ ~Cancelling(t))
  <2>1. UNCHANGED <<queued, done>>
    BY <1>2, <1>6 DEF Cancel
  <2>2. PICK r \in Seq(Endings) : r = done
    BY <1>1
  <2>3. \A s \in Transfers : Keeps(s)
    BY <1>1, <2>1, <2>2, SameFades, KeepsFading DEF Queued
  <2>4. \A s \in Transfers : AwaitOf(s)'
    BY <1>1, <1>4, <1>5, <1>6, <2>3, AwaitStays DEF AwaitInv
  <2>5. AllFresh => AllFresh'
    BY <2>1 DEF AllFresh
  <2> QED
    BY <1>2, <1>3, <2>4, <2>5, PollStays DEF AwaitInv
<1>7. CASE InFlight(t) /\ ~Cancelling(t)
  <2>1. Discard(t, 1, Urbs(t), st, done)
    BY <1>2, <1>7 DEF Cancel
  <2>2. PICK f \in 1 .. U + 1, l \in 0 .. U, z \in Seq(Endings) : f = 1 /\ l = Urbs(t) /\ z = done
    <3>1. 1 \in 1 .. U + 1 /\ Urbs(t) \in 0 .. U
      BY <1>1 DEF Basics
    <3> QED
      BY <1>1, <3>1
  <2>3. Discard(t, f, l, st, z) /\ Fades(z, done)
    BY <2>1, <2>2, SameFades
  <2>4. /\ \A s \in Transfers \ {t} : Keeps(s)
        /\ unplugged \/ (\A u \in f .. l : ~Queued(t, u)) => Keeps(t) /\ done' = z
        /\ \A s \in Transfers : Dwindles(s)
        /\ queued' \subseteq queued
        /\ (\A k \in DOMAIN z : z[k][3]) => \A k \in DOMAIN done' : done'[k][3]
    BY <2>3, KeepsDiscard, ZenonT(60)
  <2>5. \A s \in Transfers \ {t} : AwaitOf(s)'
    BY <1>1, <1>4, <1>5, <2>4, AwaitStays DEF AwaitInv
  <2>6. AllFresh => AllFresh'
    BY <2>2, <2>4 DEF AllFresh
  <2>7. AwaitOf(t)'
    <3>1. CASE x'[t].action = "NORMAL"
      <4>1. x[t].action = "NORMAL" /\ CancelReturn(t) # "OK"
        BY <1>5, <1>7, <3>1
      <4>2. unplugged \/ (\A u \in f .. l : ~Queued(t, u))
        <5> SUFFICES ASSUME ~unplugged, NEW u \in f .. l, Queued(t, u) PROVE FALSE
          OBVIOUS
        <5>1. u \in 1 .. U /\ u \in Nat
          BY <1>1, <2>2 DEF Basics
        <5>2. HasFresh(t)
          BY <5>1 DEF HasFresh, FreshQueued, Queued
        <5>3. x[t].urbs
          BY <5>2 DEF UInv, FreshInv, HasUrbs
        <5>4. ~Queued(t, Urbs(t))
          BY <1>7, <4>1, <5>3 DEF CancelReturn, Queued
        <5>5. PICK p \in Threads : cur[p] = t /\ pc[p] = "urbs"
          BY <4>1, <5>1, <5>4 DEF AwaitInv, AwaitOf
        <5>6. ~InFlight(cur[p])
          BY <5>5, Filled
        <5> QED
          BY <1>7, <5>5, <5>6
      <4>3. Keeps(t)
        BY <2>4, <4>2
      <4> QED
        BY <1>1, <1>4, <1>5, <4>1, <4>3, AwaitStays DEF AwaitInv
    <3>2. CASE x'[t].action # "NORMAL"
      <4>1. Cardinality(Out(t)') + x'[t].retired <= Urbs(t)
        BY <1>1, <1>5, <2>4, CountStays DEF AwaitInv, AwaitOf
      <4>2. Urbs(t)' = Urbs(t)
        BY DEF Urbs
      <4> QED
        BY <3>2, <4>1, <4>2 DEF AwaitOf
    <3> QED
      BY <3>1, <3>2
  <2> QED
    BY <1>2, <1>3, <2>5, <2>6, <2>7, PollStays DEF AwaitInv
<1> QED
  BY <1>6, <1>7

(* While a transfer is filled in it has no more URBs out than accepted.    *)
LEMMA SubmitAwait ==
    ASSUME UInv, UrbInv, AwaitInv, NEW p \in Threads,
           \/ SubmitEnlist(p) \/ UrbAccepted(p) \/ FirstUrbRefused(p)
           \/ \E st \in {"full", "unlinked"} : LaterUrbRefused(p, st)
           \/ Submitted(p)
    PROVE  AwaitInv'
<1>1. /\ Basics /\ done \in Seq(Endings) /\ x \in [Transfers -> Fields]
      /\ \A q, s \in Threads : pc[q] \in {"urbs", "submitted"} /\ cur[s] = cur[q] /\ pc[s] \in Submitting => q = s
  BY Filled
<1>2. PICK t \in Transfers : t = cur[p]
  BY <1>1 DEF Basics
<1>3. UNCHANGED <<unplugged, cur, poll>>
  BY DEF SubmitEnlist, UrbAccepted, FirstUrbRefused, LaterUrbRefused, Submitted, kernel, event
<1>4. /\ \A q \in Threads \ {p} : pc'[q] = pc[q]
      /\ pc[p] \in {"enlist", "urbs", "submitted"}
      /\ pc'[p] \in {"urbs", "submitted", "undo", "rest", "wait", "unref"}
  BY <1>1, ZenonT(60) DEF SubmitEnlist, UrbAccepted, FirstUrbRefused, LaterUrbRefused, Submitted, Go, Basics
<1>5. \A s \in Transfers \ {t} : x'[s] = x[s]
  <2>1. CASE SubmitEnlist(p)
    BY <1>1, <1>2, <2>1 DEF SubmitEnlist
  <2>2. CASE UrbAccepted(p)
    BY <2>2 DEF UrbAccepted
  <2>3. CASE FirstUrbRefused(p)
    BY <1>1, <1>2, <2>3 DEF FirstUrbRefused
  <2>4. CASE \E st \in {"full", "unlinked"} : LaterUrbRefused(p, st)
    BY <1>1, <1>2, <2>4 DEF LaterUrbRefused
  <2>5. CASE Submitted(p)
    BY <1>1, <1>2, <2>5 DEF Submitted
  <2> QED
    BY <2>1, <2>2, <2>3, <2>4, <2>5
<1>6. \A s \in Transfers \ {t} : FillsOn(s)
  BY <1>2, <1>3, <1>4 DEF FillsOn
<1>7. \A s \in Transfers : x[s].retired \in Nat /\ AwaitOf(s)
  BY <1>1 DEF Fields, AwaitInv
<1>8. pc'["E"] \in {"reap", "complete"} => pc["E"] \in {"reap", "complete"}
  <2>1. "E" \in Threads
    BY <1>1 DEF Basics
  <2> QED
    BY <1>4, <2>1
<1>9. ASSUME \A s \in Transfers \ {t} : Keeps(s), AwaitOf(t)', AllFresh => AllFresh'
      PROVE  AwaitInv'
  <2>1. \A s \in Transfers \ {t} : AwaitOf(s)'
    BY <1>1, <1>5, <1>6, <1>7, <1>9, AwaitStays
  <2> QED
    BY <1>3, <1>8, <1>9, <2>1, PollStays DEF AwaitInv
<1>10. ASSUME UNCHANGED <<done, queued>>
       PROVE  (\A s \in Transfers : Keeps(s)) /\ (AllFresh => AllFresh')
  <2>1. PICK r \in Seq(Endings) : r = done
    BY <1>1
  <2> QED
    BY <1>1, <1>10, <2>1, SameFades, KeepsFading DEF Queued, AllFresh
<1>11. Urbs(t)' = Urbs(t) /\ U \in Nat /\ Urbs(t) \in Nat /\ Urbs(t) \in 1 .. U
  BY <1>1 DEF Urbs, Basics
<1>12. CASE SubmitEnlist(p)
  <2>1. UNCHANGED <<done, queued>> /\ x'[t] = Virgin
    BY <1>1, <1>2, <1>12 DEF SubmitEnlist, kernel, Virgin
  <2>2. ~HasFresh(t)
    BY <1>2, <1>12, NoneFresh
  <2>3. FreshIn(done, t) = {} /\ \A u \in 1 .. U : ~Queued(t, u)
    <3>1. \A u \in 1 .. U : u \in Nat
      BY <1>1 DEF Basics
    <3> QED
      BY <2>2, <3>1 DEF HasFresh, FreshDone, FreshQueued, Queued
  <2>4. FreshIn(done', t) = {} /\ \A u \in 1 .. U : ~Queued(t, u)'
    BY <2>1, <2>3 DEF Queued
  <2>5. Out(t)' = {} /\ Ordered(done, t)'
    BY <2>4 DEF Out, Back, Ordered
  <2>6. x'[t].retired = 0
    BY <2>1 DEF Virgin, Idle
  <2>7. Cardinality(Out(t)') = 0
    BY <2>5, FS_EmptySet
  <2>8. AwaitOf(t)'
    BY <1>11, <2>4, <2>5, <2>6, <2>7 DEF AwaitOf
  <2> QED
    BY <1>9, <1>10, <2>1, <2>8
<1>13. CASE UrbAccepted(p)
  <2>1. PICK m \in 1 .. U : m = n[p]
    BY <1>1, <1>13 DEF UInv, Counting, UrbAccepted, Basics
  <2>2. /\ UNCHANGED <<done, x>> /\ queued' = queued \cup {<<t, m, TRUE>>} /\ pc[p] = "urbs"
        /\ pc'[p] = IF m = Urbs(t) THEN "submitted" ELSE "urbs"
    BY <1>1, <1>2, <1>13, <2>1 DEF UrbAccepted, Go, Basics
  <2>3. /\ x[t] = Virgin /\ m <= Urbs(t) /\ \A u \in 1 .. U : u \in Out(t) => u < m
    BY <1>2, <2>1, <2>2 DEF UrbInv, Filling, UInv, Counting
  <2>4. ASSUME NEW s \in Transfers \ {t} PROVE Keeps(s)
    <3>1. \A v : <<s, v, TRUE>> # <<t, m, TRUE>>
      OBVIOUS
    <3>2. \A v : <<s, v, TRUE>> \in queued' <=> Queued(s, v)
      BY <2>2, <3>1 DEF Queued
    <3>3. PICK r \in Seq(Endings) : r = done
      BY <1>1
    <3> QED
      BY <1>1, <2>2, <3>2, <3>3, SameFades, KeepsFading
  <2>5. \A u \in 1 .. U : u \in Out(t)' => u \in Out(t) \/ u = m
    BY <2>2 DEF Out, Queued, Back, FreshIn
  <2>6. Cardinality(Out(t)') <= Urbs(t)
    <3>1. PICK k \in Nat : k = Urbs(t)
      BY <1>11
    <3>2. PICK B \in SUBSET (1 .. U) : B = Out(t)'
      BY DEF Out
    <3>3. B \in SUBSET (1 .. k)
      BY <1>11, <2>3, <2>5, <3>1, <3>2
    <3>4. PICK A \in SUBSET B : A = B
      OBVIOUS
    <3> QED
      BY <3>1, <3>2, <3>3, <3>4, Counts
  <2>7. x'[t].retired = 0
    BY <2>2, <2>3 DEF Virgin, Idle
  <2>8. x[t].action = "NORMAL" /\ Ordered(done, t)
    BY <1>7, <2>3 DEF AwaitOf, Virgin, Idle
  <2>9. \A k \in FreshIn(done, t) : done[k][2] < m
    <3> TAKE k \in FreshIn(done, t)
    <3>1. done[k] \in Endings
      BY <1>1 DEF FreshIn
    <3>2. done[k][4] \in UrbStatus /\ done[k][2] \in 1 .. U
      BY <3>1 DEF Endings
    <3>3. done[k][2] \in Out(t)
      BY <3>2 DEF Out, Back
    <3> QED
      BY <2>3, <3>2, <3>3
  <2>10. Ordered(done, t)'
    <3>1. \A u \in 1 .. U : Queued(t, u)' => Queued(t, u) \/ u = m
      BY <2>2 DEF Queued
    <3>2. FreshIn(done', t) = FreshIn(done, t) /\ done' = done
      BY <2>2
    <3> QED
      BY <2>8, <2>9, <3>1, <3>2 DEF Ordered
  <2>11. Queued(t, Urbs(t))' \/ (cur'[p] = t /\ pc'[p] = "urbs")
    BY <1>2, <1>3, <2>2 DEF Queued, Urbs
  <2>12. AwaitOf(t)'
    <3>1. Cardinality(Out(t)') \in Nat
      <4>1. PICK B \in SUBSET (1 .. U) : B = Out(t)'
        BY DEF Out
      <4>2. PICK A \in SUBSET B : A = B
        OBVIOUS
      <4> QED
        BY <1>11, <4>1, <4>2, Counts
    <3> QED
      BY <1>11, <2>6, <2>7, <2>10, <2>11, <3>1 DEF AwaitOf
  <2>13. AllFresh => AllFresh'
    <3>1. <<t, m, TRUE>>[3]
      OBVIOUS
    <3> QED
      BY <2>2, <3>1 DEF AllFresh
  <2> QED
    BY <1>9, <2>4, <2>12, <2>13
<1>14. CASE FirstUrbRefused(p)
  <2>1. UNCHANGED <<done, queued>> /\ x' = [x EXCEPT ![t].urbs = FALSE] /\ pc[p] = "urbs" /\ n[p] = 1
    BY <1>2, <1>14 DEF FirstUrbRefused, kernel
  <2>2. x'[t].retired = x[t].retired /\ x'[t].action = x[t].action
    BY <1>1, <2>1 DEF Fields
  <2>3. \A u \in 1 .. U : ~Queued(t, u)
    <3>1. \A u \in 1 .. U : u \in Nat
      BY <1>1 DEF Basics
    <3> QED
      BY <1>2, <2>1, <3>1 DEF UInv, FreshInv, HasFresh, FreshQueued, Queued
  <2>4. AwaitOf(t)'
    BY <1>1, <1>7, <1>10, <2>1, <2>2, <2>3, AwaitStays
  <2> QED
    BY <1>9, <1>10, <2>1, <2>4
<1>15. ASSUME NEW st \in {"full", "unlinked"}, LaterUrbRefused(p, st) PROVE AwaitInv'
  <2>1. PICK m \in 1 .. U, a \in Actions, k \in Nat, r \in Seq(Endings) :
          Partial(p, t, m, a, k, st) /\ r = done
    <3>1. PICK s \in Transfers, m \in 1 .. U, a \in Actions, k \in Nat : Partial(p, s, m, a, k, st)
      BY <1>15, LaterIs
    <3>2. s = t
      BY <1>2, <3>1 DEF Partial
    <3> QED
      BY <1>1, <3>1, <3>2
  <2>2. /\ t \in Bulk /\ a # "NORMAL" /\ pc[p] = "urbs" /\ m = n[p] /\ k = U - m + 1
        /\ x' = [x EXCEPT ![t].action = a, ![t].retired = k]
        /\ UNCHANGED <<done, queued>> \/ Discard(t, 1, m - 1, st, r)
    BY <2>1 DEF Partial
  <2>3. /\ \A s \in Transfers \ {t} : Keeps(s)
        /\ Dwindles(t)
        /\ AllFresh => AllFresh'
    <3>1. CASE UNCHANGED <<done, queued>>
      BY <1>10, <3>1 DEF Keeps
    <3>2. CASE Discard(t, 1, m - 1, st, r)
      <4>1. PICK f \in 1 .. U + 1, l \in 0 .. U : f = 1 /\ l = m - 1
        <5>1. m - 1 \in 0 .. U /\ 1 \in 1 .. U + 1
          BY <1>1 DEF Basics
        <5> QED
          BY <5>1
      <4>2. Discard(t, f, l, st, r) /\ Fades(r, done)
        BY <2>1, <3>2, <4>1, SameFades
      <4>3. /\ \A s \in Transfers \ {t} : Keeps(s)
            /\ \A s \in Transfers : Dwindles(s)
            /\ queued' \subseteq queued
            /\ (\A i \in DOMAIN r : r[i][3]) => \A i \in DOMAIN done' : done'[i][3]
        BY <4>2, KeepsDiscard, ZenonT(60)
      <4> QED
        BY <2>1, <4>3 DEF AllFresh
    <3> QED
      BY <2>2, <3>1, <3>2
  <2>4. Out(t)' \subseteq Out(t)
    BY <2>3, OutShrinks
  <2>5. \A u \in 1 .. U : u \in Out(t) => u < m
    BY <1>2, <2>2 DEF UrbInv, Filling
  <2>6. Cardinality(Out(t)') <= m - 1 /\ Cardinality(Out(t)') \in Nat
    <3>1. PICK i \in Nat : i = m - 1
      BY <1>11
    <3>2. PICK B \in SUBSET (1 .. U) : B = Out(t)'
      BY DEF Out
    <3>3. B \in SUBSET (1 .. i)
      BY <1>11, <2>4, <2>5, <3>1, <3>2
    <3>4. PICK A \in SUBSET B : A = B
      OBVIOUS
    <3> QED
      BY <3>1, <3>2, <3>3, <3>4, Counts
  <2>7. x'[t].retired = k /\ x'[t].action = a
    BY <1>1, <2>2 DEF Fields
  <2>8. Urbs(t) = U
    BY <1>1, <2>2 DEF Urbs, Basics
  <2>9. AwaitOf(t)'
    BY <1>11, <2>2, <2>6, <2>7, <2>8 DEF AwaitOf
  <2> QED
    BY <1>9, <2>3, <2>9
<1>16. CASE Submitted(p)
  <2>1. UNCHANGED <<done, queued>> /\ x' = [x EXCEPT ![t].flags = @ \cup {"IN_FLIGHT"}] /\ pc[p] = "submitted"
    BY <1>2, <1>16 DEF Submitted, kernel
  <2>2. x'[t].retired = x[t].retired /\ x'[t].action = x[t].action
    BY <1>1, <2>1 DEF Fields
  <2>3. FillsOn(t)
    BY <1>1, <1>2, <1>3, <1>4, <2>1 DEF FillsOn
  <2>4. AwaitOf(t)'
    BY <1>1, <1>7, <1>10, <2>1, <2>2, <2>3, AwaitStays
  <2> QED
    BY <1>9, <1>10, <2>1, <2>4
<1> QED
  BY <1>12, <1>13, <1>14, <1>15, <1>16

(* The URB that ends a bulk transfer is the only one of it that is out: it *)
(* is the last to be counted, or the last in order.                        *)
LEMMA LastIsAlone ==
    ASSUME UInv, UrbInv, AwaitInv, NEW t \in Transfers, NEW q \in Seq(Endings), NEW u \in 1 .. U,
           NEW e \in UrbStatus, First(t, q, u, e), t \in Bulk, Reports(x[t], u, e)
    PROVE  Out(t) = {u}
<1>1. Basics /\ done \in Seq(Endings) /\ x \in [Transfers -> Fields]
  BY Filled
<1>2. Urbs(t) = U /\ AwaitOf(t) /\ x[t].retired \in Nat /\ U \in Nat
  BY <1>1 DEF Urbs, Basics, AwaitInv, Fields
<1>3. u \in Out(t) /\ 1 \in FreshDone(t) /\ done[1][2] = u
  BY DEF First, Out
<1>4. PICK B \in SUBSET (1 .. U) : B = Out(t)
  BY DEF Out
<1>5. CASE x[t].retired + 1 = U
  <2>1. PICK A \in SUBSET B : A = B
    OBVIOUS
  <2>2. Cardinality(B) \in Nat /\ (Cardinality(B) <= 1 => B = {u})
    BY <1>2, <1>3, <1>4, <2>1, Counts, SMTT(30)
  <2>3. Cardinality(B) + x[t].retired <= U
    BY <1>2, <1>4 DEF AwaitOf
  <2> QED
    BY <1>2, <1>4, <1>5, <2>2, <2>3
<1>6. CASE x[t].action = "NORMAL" /\ (e = "overflow" \/ u = U)
  <2>1. u = U
    BY <1>2, <1>6 DEF First, UrbInv, Told
  <2>2. Ordered(done, t)
    BY <1>2, <1>6 DEF AwaitOf
  <2>3. ASSUME NEW v \in 1 .. U, Queued(t, v) PROVE FALSE
    <3>1. u < v
      BY <1>3, <2>2, <2>3 DEF Ordered, FreshDone
    <3> QED
      BY <1>2, <2>1, <3>1
  <2>4. ASSUME NEW v \in 1 .. U, NEW c, Back(done, t, v, c) PROVE v = u
    <3>1. PICK k \in FreshIn(done, t) : done[k][2] = v
      BY <2>4 DEF Back
    <3>2. k \in Nat \ {0}
      BY <1>1 DEF FreshIn
    <3>3. CASE k = 1
      BY <1>3, <3>1, <3>3
    <3>4. CASE k # 1
      <4>1. 1 < k
        BY <3>2, <3>4
      <4>2. u < v
        BY <1>3, <2>2, <3>1, <4>1 DEF Ordered, FreshDone
      <4> QED
        BY <1>2, <2>1, <4>2
    <3> QED
      BY <3>3, <3>4
  <2> QED
    BY <1>3, <1>4, <2>3, <2>4 DEF Out
<1> QED
  BY <1>5, <1>6 DEF Reports

(* What is still out of t when its URB u has been handled.                 *)
LEMMA HandledLeaves ==
    ASSUME UInv, UrbInv, NEW t \in Transfers, NEW q \in Seq(Endings), NEW u \in 1 .. U,
           NEW e \in UrbStatus, First(t, q, u, e)
    PROVE  /\ u \in Out(t) /\ ~Queued(t, u)
           /\ \A c : ~Back(q, t, u, c)
           /\ \A k \in FreshIn(q, t) : q[k][2] \in Out(t) \ {u}
           /\ AllFresh => \A k \in DOMAIN q : q[k][3]
<1>1. Basics /\ done \in Seq(Endings)
  BY Filled
<1>2. /\ done # <<>> /\ q = Tail(done) /\ 1 \in FreshDone(t) /\ done[1] = <<t, u, TRUE, e>>
      /\ Back(done, t, u, e)
  BY DEF First, Handled
<1>3. done[1][2] = u
  BY <1>2
<1>4. u \in Out(t) /\ ~Queued(t, u)
  BY <1>2, <1>3 DEF Out, UrbInv, Apart, FreshDone
<1>5. \A k \in DOMAIN q : k + 1 \in DOMAIN done /\ q[k] = done[k + 1] /\ k + 1 # 1
  BY <1>1, <1>2
<1>6. ASSUME NEW k \in FreshIn(q, t) PROVE q[k][2] \in Out(t) \ {u}
  <2>1. PICK j \in FreshIn(done, t) : j = k + 1
    BY <1>5 DEF FreshIn
  <2>2. q[k] = done[j] /\ j # 1 /\ done[j] \in Endings
    BY <1>1, <1>5, <2>1 DEF FreshIn
  <2>3. done[j][2] # u
    BY <1>2, <1>3, <2>1, <2>2 DEF UrbInv, Apart, FreshDone
  <2>4. done[j][2] \in 1 .. U /\ done[j][4] \in UrbStatus
    BY <2>2 DEF Endings
  <2> QED
    BY <2>1, <2>2, <2>3, <2>4 DEF Out, Back
<1>7. AllFresh => \A k \in DOMAIN q : q[k][3]
  BY <1>5 DEF AllFresh
<1> QED
  BY <1>4, <1>6, <1>7 DEF Back

LEMMA BulkAwait ==
    ASSUME UInv, UrbInv, AwaitInv, StallEnds, NEW kst \in {"full", "unlinked"}, BulkCompletion(kst)
    PROVE  AwaitInv'
<1>1. Basics /\ done \in Seq(Endings) /\ x \in [Transfers -> Fields]
  BY Filled
<1>2. PICK t \in Transfers, q \in Seq(Endings), u \in 1 .. U, e \in UrbStatus :
        First(t, q, u, e) /\ BulkHandles(t, q, u, e, kst)
  BY BulkIs
<1>3. /\ Fades(q, done) /\ t = cur["E"] /\ t \in Bulk /\ Back(done, t, u, e)
      /\ pc["E"] = "complete" /\ "E" \in Threads /\ tl[t] = "none"
  BY <1>1, <1>2 DEF First, BulkHandles, Basics
<1>4. /\ u \in Out(t) /\ ~Queued(t, u)
      /\ \A c : ~Back(q, t, u, c)
      /\ \A k \in FreshIn(q, t) : q[k][2] \in Out(t) \ {u}
      /\ AllFresh => \A k \in DOMAIN q : q[k][3]
  BY <1>2, HandledLeaves
<1> DEFINE f == x[t]
           r == [f EXCEPT !.retired = @ + 1, !.action = NewAction(f, u, e),
                          !.status = NewStatus(f, u, e), !.urbs = ~Reports(f, u, e)]
<1>5. UNCHANGED <<unplugged, cur, poll>> /\ x' = [x EXCEPT ![t] = r]
  BY <1>2 DEF BulkHandles
<1>6. r.retired = f.retired + 1 /\ r.action = NewAction(f, u, e)
  BY <1>1 DEF Fields
<1> HIDE DEF r
<1>7. /\ x'[t].retired = x[t].retired + 1 /\ x'[t].action = NewAction(x[t], u, e)
      /\ \A s \in Transfers \ {t} : x'[s] = x[s]
      /\ \A s \in Transfers : x[s].retired \in Nat /\ AwaitOf(s)
  BY <1>1, <1>5, <1>6 DEF Fields, AwaitInv
<1>8. /\ \A p \in Threads \ {"E"} : pc'[p] = pc[p]
      /\ pc'["E"] \in {"late", "remove", "reap"}
  BY <1>1, <1>2 DEF BulkHandles, Go, Basics
<1>9. \A s : FillsOn(s)
  BY <1>3, <1>5, <1>8 DEF FillsOn
<1>10. Urbs(t) = U /\ Urbs(t)' = U /\ U \in Nat
  BY <1>1, <1>3 DEF Urbs, Basics
<1>11. ASSUME \A s \in Transfers \ {t} : Keeps(s), AwaitOf(t)', AllFresh => AllFresh'
       PROVE  AwaitInv'
  <2>1. \A s \in Transfers \ {t} : AwaitOf(s)'
    BY <1>1, <1>7, <1>9, <1>11, AwaitStays
  <2> QED
    BY <1>3, <1>5, <1>11, <2>1, PollStays DEF AwaitInv
<1>12. ASSUME Out(t)' \subseteq Out(t) \ {u} PROVE Cardinality(Out(t)') + x'[t].retired <= U
  <2>1. PICK B \in SUBSET (1 .. U) : B = Out(t)
    BY DEF Out
  <2>2. PICK A \in SUBSET B : A = Out(t)' /\ u \in B \ A
    BY <1>4, <1>12, <2>1
  <2>3. Cardinality(A) + 1 <= Cardinality(B) /\ Cardinality(A) \in Nat /\ Cardinality(B) \in Nat
    BY <1>10, <2>2, Counts
  <2>4. Cardinality(B) + x[t].retired <= U
    BY <1>7, <1>10, <2>1 DEF AwaitOf
  <2> QED
    BY <1>7, <1>10, <2>2, <2>3, <2>4
<1>13. CASE Reports(x[t], u, e)
  <2>1. queued' = Stale(t, queued) /\ done' = StaleDone(t, q)
    BY <1>2, <1>13 DEF BulkHandles
  <2>2. /\ \A s \in Transfers \ {t} : Keeps(s)
        /\ Out(t)' = {} /\ Ordered(done, t)' /\ \A v : <<t, v, TRUE>> \notin queued'
    BY <1>3, <2>1, KeepsStale
  <2>3. AwaitOf(t)'
    BY <1>10, <1>12, <2>2 DEF AwaitOf, Queued
  <2>4. Out(t) = {u}
    BY <1>2, <1>3, <1>13, LastIsAlone
  <2>5. ASSUME AllFresh PROVE AllFresh'
    <3>1. \A c \in queued : c[1] # t
      <4> SUFFICES ASSUME NEW c \in queued, c[1] = t PROVE FALSE
        OBVIOUS
      <4>1. c[3] = TRUE /\ c[2] \in 1 .. U /\ c = <<c[1], c[2], c[3]>>
        <5>1. c[3] /\ c[3] \in BOOLEAN /\ c[2] \in 1 .. U /\ c = <<c[1], c[2], c[3]>>
          BY <2>5, SMTT(30) DEF AllFresh, UInv, TypeOK
        <5> QED
          BY <5>1, Zenon
      <4>2. c = <<t, c[2], TRUE>>
        BY <4>1
      <4>3. Queued(t, c[2])
        BY <4>2 DEF Queued
      <4>4. c[2] = u
        BY <2>4, <4>1, <4>3 DEF Out
      <4> QED
        BY <1>4, <4>3, <4>4
    <3>2. \A k \in DOMAIN q : q[k][3] /\ q[k][1] # t
      BY <1>4, <2>4, <2>5 DEF FreshIn
    <3>3. \A c \in queued' : c \in queued
      BY <2>1, <3>1 DEF Stale
    <3>4. \A k \in DOMAIN done' : done'[k][3]
      <4>1. PICK w \in Seq(Endings) :
              /\ w = StaleDone(t, q) /\ Len(w) = Len(q)
              /\ \A k \in 1 .. Len(q) : w[k] = IF q[k][1] = t THEN <<t, q[k][2], FALSE, q[k][4]>> ELSE q[k]
        BY StaleSeq, ZenonT(60)
      <4>2. DOMAIN w = 1 .. Len(q) /\ DOMAIN q = 1 .. Len(q)
        BY <4>1
      <4>3. \A k \in 1 .. Len(q) : w[k] = q[k]
        <5> TAKE k \in 1 .. Len(q)
        <5>1. q[k][1] # t
          BY <3>2, <4>2
        <5> QED
          BY <4>1, <5>1
      <4> QED
        BY <2>1, <3>2, <4>1, <4>2, <4>3
    <3> QED
      BY <2>5, <3>3, <3>4 DEF AllFresh
  <2> QED
    BY <1>11, <2>2, <2>3, <2>5
<1>14. CASE ~Reports(x[t], u, e) /\ x[t].action = "NORMAL" /\ TearsDown(x[t], u, e)
  <2>1. Discard(t, u + 1, U, kst, q)
    BY <1>2, <1>14 DEF BulkHandles
  <2>2. PICK g \in 1 .. U + 1, l \in 0 .. U : g = u + 1 /\ l = U
    BY <1>1 DEF Basics
  <2>3. Discard(t, g, l, kst, q)
    BY <2>1, <2>2
  <2>4. /\ \A s \in Transfers \ {t} : Keeps(s)
        /\ unplugged \/ (\A v \in g .. l : ~Queued(t, v)) => Keeps(t) /\ done' = q
        /\ \A s, v, c : Back(done', s, v, c) => Back(q, s, v, c) \/ (s = t /\ Queued(t, v))
        /\ \A s, v : <<s, v, TRUE>> \in queued' => Queued(s, v)
        /\ \A s \in Transfers : Dwindles(s)
        /\ queued' \subseteq queued
        /\ (\A k \in DOMAIN q : q[k][3]) => \A k \in DOMAIN done' : done'[k][3]
    BY <1>3, <2>3, KeepsDiscard, ZenonT(60)
  <2>5. Out(t)' \subseteq Out(t) \ {u}
    <3>1. Out(t)' \subseteq Out(t)
      BY <2>4, OutShrinks
    <3>2. ~Queued(t, u)' /\ \A c : ~Back(done', t, u, c)
      BY <1>4, <2>4 DEF Queued
    <3>3. \A c : Back(done, t, u, c)' <=> Back(done', t, u, c)
      BY DEF Back, FreshIn
    <3>4. u \notin Out(t)'
      BY <3>2, <3>3 DEF Out
    <3> QED
      BY <3>1, <3>4
  <2>6. AllFresh => AllFresh'
    BY <1>4, <2>4 DEF AllFresh
  <2>7. ASSUME x'[t].action = "NORMAL" PROVE Keeps(t)
    <3>1. e \in {"nodev", "stall"}
      BY <1>7, <1>14, <2>7 DEF NewAction, TearsDown
    <3>2. CASE e = "nodev"
      BY <1>3, <2>4, <3>2 DEF UrbInv, Told
    <3>3. CASE e = "stall"
      <4>1. U = 1
        BY <1>3, <3>3 DEF UrbInv, Told, StallEnds
      <4>2. g .. l = {}
        BY <2>2, <4>1
      <4> QED
        BY <2>4, <4>2
    <3> QED
      BY <3>1, <3>2, <3>3
  <2>8. AwaitOf(t)'
    <3>1. CASE x'[t].action # "NORMAL"
      BY <1>10, <1>12, <2>5, <3>1 DEF AwaitOf
    <3>2. CASE x'[t].action = "NORMAL"
      <4>1. Keeps(t) /\ Ordered(done, t)'
        BY <1>7, <1>14, <2>7, <3>2 DEF AwaitOf, Keeps
      <4>2. \A v \in 1 .. U : Queued(t, v)' =>
              Queued(t, Urbs(t))' \/ \E p \in Threads : cur'[p] = t /\ pc'[p] = "urbs"
        BY <1>1, <1>7, <1>9, <1>14, <4>1, LastStays DEF Keeps
      <4> QED
        BY <1>10, <1>12, <2>5, <4>1, <4>2 DEF AwaitOf
    <3> QED
      BY <3>1, <3>2
  <2> QED
    BY <1>11, <2>4, <2>6, <2>8
<1>15. CASE ~Reports(x[t], u, e) /\ ~(x[t].action = "NORMAL" /\ TearsDown(x[t], u, e))
  <2>1. queued' = queued /\ done' = q
    BY <1>2, <1>15 DEF BulkHandles
  <2>2. \A s \in Transfers : Keeps(s)
    BY <1>1, <1>3, <2>1, KeepsFading DEF Queued
  <2>3. Out(t)' \subseteq Out(t) \ {u}
    <3>1. Out(t)' \subseteq Out(t)
      BY <2>2, OutShrinks DEF Keeps
    <3>2. u \notin Out(t)'
      BY <1>4, <2>1 DEF Out, Queued, Back, FreshIn
    <3> QED
      BY <3>1, <3>2
  <2>4. AllFresh => AllFresh'
    BY <1>4, <2>1 DEF AllFresh
  <2>5. x'[t].action = "NORMAL" => x[t].action = "NORMAL"
    BY <1>7 DEF NewAction
  <2>6. AwaitOf(t)'
    <3>1. x'[t].action = "NORMAL" => Ordered(done, t)'
      BY <1>7, <2>2, <2>5 DEF AwaitOf, Keeps
    <3>2. x'[t].action = "NORMAL" => \A v \in 1 .. U : Queued(t, v)' =>
              Queued(t, Urbs(t))' \/ \E p \in Threads : cur'[p] = t /\ pc'[p] = "urbs"
      BY <1>1, <1>7, <1>9, <2>2, <2>5, LastStays DEF Keeps
    <3> QED
      BY <1>10, <1>12, <2>3, <3>1, <3>2 DEF AwaitOf
  <2> QED
    BY <1>11, <2>2, <2>4, <2>6
<1> QED
  BY <1>13, <1>14, <1>15

LEMMA AwaitKept == ASSUME UInv, UrbInv, AwaitInv, StallEnds, Step PROVE AwaitInv'
<1>1. /\ Basics /\ done \in Seq(Endings) /\ x \in [Transfers -> Fields] /\ "E" \in Threads
      /\ cur["E"] \in Transfers /\ exp \in Transfers
  BY Filled DEF UInv, TypeOK, Basics
<1>2. PICK t \in Transfers, z \in Seq(Endings) : t = cur["E"] /\ z = done
  BY <1>1
<1>3. Fades(z, done) /\ \A s \in Transfers : x[s].retired \in Nat /\ AwaitOf(s)
  BY <1>1, <1>2, SameFades DEF AwaitInv, Fields
<1>4. UNCHANGED <<done, queued>> => (\A s \in Transfers : Keeps(s)) /\ (AllFresh => AllFresh')
  BY <1>1, <1>2, <1>3, KeepsFading DEF Queued, AllFresh
<1>5. ASSUME \A s \in Transfers : x'[s].retired = x[s].retired /\ x'[s].action = x[s].action,
             \A s \in Transfers : Keeps(s) /\ FillsOn(s)
      PROVE  \A s \in Transfers : AwaitOf(s)'
  BY <1>1, <1>3, <1>5, AwaitStays
<1>6. CASE Calm
  <2>1. UNCHANGED <<x, queued, unplugged>> /\ \A s : FillsOn(s)
    BY <1>6 DEF Calm, FillsOn, Marked
  <2>2. done' \in Seq(Endings) /\ Fades(done', done) /\ (AllFresh => AllFresh')
    <3>1. CASE done' = done
      BY <1>1, <1>2, <1>3, <2>1, <3>1 DEF AllFresh
    <3>2. CASE z # <<>> /\ done' = Tail(z)
      <4>1. \A k \in DOMAIN Tail(z) : k + 1 \in DOMAIN z /\ Tail(z)[k] = z[k + 1]
        BY <3>2
      <4>2. Tail(z) \in Seq(Endings)
        BY <3>2
      <4> QED
        BY <1>2, <2>1, <3>2, <4>1, <4>2, TailFades DEF AllFresh
    <3> QED
      BY <1>2, <1>6, <3>1, <3>2 DEF Calm
  <2>3. \A s \in Transfers : Keeps(s)
    BY <1>1, <2>1, <2>2, KeepsFading DEF Queued
  <2>4. \A s \in Transfers : AwaitOf(s)'
    BY <1>5, <2>1, <2>3
  <2>5. /\ poll' \in {"live", "err"} => AllFresh'
        /\ pc'["E"] \in {"reap", "complete"} => poll' \in {"live", "err"}
    BY <1>6, <2>2 DEF Calm, AwaitInv
  <2> QED
    BY <2>4, <2>5 DEF AwaitInv
<1>7. CASE Unplug
  <2>1. UNCHANGED <<x, queued, done, pc, cur, poll>>
    BY <1>7 DEF Unplug, thread, event
  <2>2. \A s \in Transfers : AwaitOf(s)'
    BY <1>4, <1>5, <2>1 DEF FillsOn
  <2> QED
    BY <1>4, <2>1, <2>2, PollStays DEF AwaitInv
<1>8. ASSUME NEW e \in queued, NEW st \in UrbStatus, KernelCompletes(e, st) PROVE AwaitInv'
  BY <1>8, CompletionUrbs, CompletionAwait
<1>9. CASE Cancels
  BY <1>9, CancelsAwait
<1>10. ASSUME NEW p \in Threads,
              \/ SubmitEnlist(p) \/ UrbAccepted(p) \/ FirstUrbRefused(p)
              \/ \E st \in {"full", "unlinked"} : LaterUrbRefused(p, st)
              \/ Submitted(p)
       PROVE  AwaitInv'
  BY <1>10, SubmitAwait
<1>11. ASSUME NEW p \in Threads, TimeoutMark(p) PROVE AwaitInv'
  <2>1. UNCHANGED <<done, queued, unplugged, cur, poll>> /\ pc[p] = "mark" /\ pc' = [pc EXCEPT ![p] = "expire"]
    BY <1>11 DEF TimeoutMark, Go, kernel, event
  <2>2. \A s \in Transfers : x'[s].retired = x[s].retired /\ x'[s].action = x[s].action
    BY <1>1, <1>11 DEF TimeoutMark, Fields
  <2>3. /\ \A q \in Threads : pc[q] = "urbs" => pc'[q] = "urbs"
        /\ pc'["E"] \in {"reap", "complete"} => pc["E"] \in {"reap", "complete"}
    BY <1>1, <2>1 DEF Basics
  <2>4. \A s \in Transfers : AwaitOf(s)'
    BY <1>4, <1>5, <2>1, <2>2, <2>3 DEF FillsOn
  <2> QED
    BY <1>4, <2>1, <2>3, <2>4, PollStays DEF AwaitInv
<1>12. ASSUME NEW kst \in {"full", "unlinked"}, BulkCompletion(kst) PROVE AwaitInv'
  BY <1>12, BulkAwait
<1>a. ASSUME pc["E"] # "urbs", pc' = [pc EXCEPT !["E"] = pc'["E"]], cur' = cur PROVE \A s : FillsOn(s)
  BY <1>1, <1>a DEF FillsOn, Basics
<1>13. CASE ControlCompletion
  <2>1. PICK s \in Transfers, q \in Seq(Endings), u \in 1 .. U, e \in UrbStatus : First(s, q, u, e)
    BY <1>13, HeadIs DEF ControlCompletion
  <2>2. Fades(q, done) /\ q = Tail(done) /\ (AllFresh => \A k \in DOMAIN q : q[k][3])
    BY <2>1, HandledLeaves DEF First, Handled
  <2>3. /\ UNCHANGED <<unplugged, cur, queued, poll>> /\ done' = q
        /\ pc["E"] = "complete" /\ Go("E", IF x[t].action = "CANCELLED" THEN "late" ELSE "remove")
        /\ x' = [x EXCEPT ![t].urbs = FALSE]
    BY <1>2, <1>13, <2>2 DEF ControlCompletion
  <2>4. \A s1 \in Transfers : Keeps(s1)
    BY <1>1, <2>2, <2>3, KeepsFading DEF Queued
  <2>5. AllFresh => AllFresh'
    BY <2>2, <2>3 DEF AllFresh
  <2>6. pc' = [pc EXCEPT !["E"] = pc'["E"]] /\ pc'["E"] \in {"late", "remove"}
    BY <1>1, <2>3 DEF Go, Basics
  <2>7. \A s1 \in Transfers : x'[s1].retired = x[s1].retired /\ x'[s1].action = x[s1].action
    BY <1>1, <2>3 DEF Fields
  <2>8. \A s1 \in Transfers : AwaitOf(s1)'
    BY <1>5, <1>a, <2>3, <2>4, <2>6, <2>7
  <2> QED
    BY <2>3, <2>5, <2>6, <2>8, PollStays DEF AwaitInv
<1>14. CASE Cancellation \/ Remove \/ ClearInFlight
  <2>1. /\ UNCHANGED <<done, queued, unplugged, cur, poll>>
        /\ pc["E"] \in {"late", "remove", "clear"}
        /\ \E c \in {"remove", "clear", "callback"} : pc' = [pc EXCEPT !["E"] = c]
    BY <1>14 DEF Cancellation, Remove, ClearInFlight, Go, kernel, event
  <2>2. \A s \in Transfers : x'[s].retired = x[s].retired /\ x'[s].action = x[s].action
    BY <1>1, <1>14, SMTT(30) DEF Cancellation, Remove, ClearInFlight, Fields
  <2>3. pc' = [pc EXCEPT !["E"] = pc'["E"]] /\ pc'["E"] \in {"remove", "clear", "callback"}
    BY <1>1, <2>1 DEF Basics
  <2>4. \A s \in Transfers : AwaitOf(s)'
    BY <1>4, <1>5, <1>a, <2>1, <2>2, <2>3
  <2> QED
    BY <1>4, <2>1, <2>3, <2>4, PollStays DEF AwaitInv
<1>15. CASE ClearPriv
  <2>1. /\ UNCHANGED <<unplugged, cur, poll>> /\ x' = [x EXCEPT ![t].urbs = FALSE]
        /\ pc["E"] = "clearpriv" /\ pc' = [pc EXCEPT !["E"] = "remove"]
        /\ \/ queued' = Stale(t, queued) /\ done' = StaleDone(t, z)
           \/ UNCHANGED <<done, queued>>
    BY <1>2, <1>15 DEF ClearPriv, Go
  <2>2. pc' = [pc EXCEPT !["E"] = pc'["E"]] /\ pc'["E"] = "remove" /\ poll = "scan"
    BY <1>1, <2>1 DEF Basics, UInv, ScanInv
  <2>3. \A s \in Transfers : x'[s].retired = x[s].retired /\ x'[s].action = x[s].action
    BY <1>1, <2>1 DEF Fields
  <2>4. \A s \in Transfers : FillsOn(s)
    BY <1>a, <2>1, <2>2
  <2>5. CASE UNCHANGED <<done, queued>>
    <3>1. \A s \in Transfers : AwaitOf(s)'
      BY <1>4, <1>5, <2>3, <2>4, <2>5
    <3> QED
      BY <2>1, <2>2, <3>1 DEF AwaitInv
  <2>6. CASE queued' = Stale(t, queued) /\ done' = StaleDone(t, z)
    <3>1. /\ \A s \in Transfers \ {t} : Keeps(s)
          /\ Out(t)' = {} /\ Ordered(done, t)' /\ \A v : <<t, v, TRUE>> \notin queued'
      BY <1>3, <2>6, KeepsStale
    <3>2. \A s \in Transfers \ {t} : AwaitOf(s)'
      BY <1>1, <1>3, <2>3, <2>4, <3>1, AwaitStays
    <3>3. AwaitOf(t)'
      <4>1. PICK B \in SUBSET (1 .. U) : B = Out(t)
        BY DEF Out
      <4>2. PICK A \in SUBSET B : A = Out(t)'
        BY <3>1
      <4>3. U \in Nat /\ Urbs(t) \in Nat /\ Urbs(t)' = Urbs(t)
        BY <1>1 DEF Basics, Urbs
      <4>4. Cardinality(A) \in Nat /\ Cardinality(B) \in Nat /\ Cardinality(A) <= Cardinality(B)
        BY <4>3, Counts
      <4>5. Cardinality(Out(t)') + x'[t].retired <= Urbs(t)
        BY <1>3, <2>3, <4>1, <4>2, <4>3, <4>4 DEF AwaitOf
      <4> QED
        BY <3>1, <4>3, <4>5 DEF AwaitOf, Queued
    <3> QED
      BY <2>1, <2>2, <3>2, <3>3 DEF AwaitInv
  <2> QED
    BY <2>1, <2>5, <2>6
<1> QED
  BY <1>6, <1>7, <1>8, <1>9, <1>10, <1>11, <1>12, <1>13, <1>14, <1>15 DEF Step

LEMMA InitAwait == Init => AwaitInv
<1> SUFFICES ASSUME Init PROVE AwaitInv
  OBVIOUS
<1>1. /\ queued = {} /\ done = <<>> /\ \A t \in Transfers : x[t] = Idle
      /\ \A p \in Threads : pc[p] = "rest"
  BY DEF Init
<1>2. "E" \in Threads /\ pc["E"] = "rest" /\ U \in Nat \ {0}
  BY <1>1, UsbConstants DEF Threads
<1>3. ASSUME NEW t \in Transfers PROVE AwaitOf(t)
  <2>1. FreshIn(done, t) = {} /\ \A u : ~Queued(t, u)
    BY <1>1 DEF FreshIn, Queued
  <2>2. Out(t) = {} /\ Ordered(done, t)
    BY <2>1 DEF Out, Back, Ordered
  <2>3. Cardinality(Out(t)) = 0 /\ x[t].retired = 0
    BY <1>1, <2>2, FS_EmptySet DEF Idle
  <2>4. Urbs(t) \in Nat
    BY <1>2 DEF Urbs
  <2> QED
    BY <2>1, <2>2, <2>3, <2>4 DEF AwaitOf
<1>4. AllFresh
  BY <1>1 DEF AllFresh
<1> QED
  BY <1>2, <1>3, <1>4 DEF AwaitInv

(***************************************************************************)
(* An URB is reaped only while its transfer waits for it, and none is      *)
(* counted twice: a result is not reported, and its memory not freed,      *)
(* before the last of its URBs has come back.  It takes that an endpoint   *)
(* whose transfers are split does not stall: there the code reports early. *)
(***************************************************************************)
THEOREM ReapedAlways == SingleUse /\ StallEnds => (Spec => []ReapedIsAwaited)
<1> SUFFICES ASSUME SingleUse, StallEnds PROVE Spec => []ReapedIsAwaited
  OBVIOUS
<1>1. Init => UrbInv /\ CancelInv /\ AwaitInv
  BY InitOutcome, InitAwait
<1>2. UInv /\ UrbInv /\ CancelInv /\ AwaitInv /\ [Next]_vars => (UrbInv /\ CancelInv /\ AwaitInv)'
  BY Steps, UrbsKept, CancelKept, AwaitKept
<1>3. UInv /\ AwaitInv => ReapedIsAwaited
  <2> SUFFICES ASSUME UInv, AwaitInv PROVE ReapedIsAwaited
    OBVIOUS
  <2>1. Basics /\ done \in Seq(Endings) /\ x \in [Transfers -> Fields]
    BY Filled
  <2>2. ASSUME pc["E"] = "reap", done # <<>> PROVE Head(done)[3]
    <3>1. 1 \in DOMAIN done /\ Head(done) = done[1]
      BY <2>1, <2>2
    <3> QED
      BY <2>2, <3>1 DEF AwaitInv, AllFresh
  <2>3. ASSUME NEW t \in Transfers PROVE x[t].retired <= Urbs(t)
    <3>1. U \in Nat /\ Urbs(t) \in Nat /\ x[t].retired \in Nat
      BY <2>1 DEF Basics, Fields
    <3>2. PICK B \in SUBSET (1 .. U) : B = Out(t)
      BY DEF Out
    <3>3. PICK A \in SUBSET B : A = B
      OBVIOUS
    <3>4. Cardinality(B) \in Nat
      BY <3>1, <3>2, <3>3, Counts
    <3>5. Cardinality(B) + x[t].retired <= Urbs(t)
      BY <3>2 DEF AwaitInv, AwaitOf
    <3> QED
      BY <3>1, <3>4, <3>5
  <2> QED
    BY <2>2, <2>3 DEF ReapedIsAwaited, Reapable
<1> QED
  BY <1>1, <1>2, <1>3, UInvAlways, PTL DEF Spec

=============================================================================
