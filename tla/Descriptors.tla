---------------------------- MODULE Descriptors ----------------------------
(***************************************************************************)
(* libusb's descriptor parser (libusb-andro/libusb/descriptor.c) over the  *)
(* cached descriptor file of the usbfs backend (os/linux_usbfs.c): what a  *)
(* device wrote about itself becomes a tree of heap blocks the application *)
(* frees later.                                                            *)
(*                                                                         *)
(* A buffer is the sequence of descriptors that bLength cuts it into, each *)
(* a record [len, type, ...], and the number of bytes of it that are       *)
(* there: the last descriptor may be cut short, and beyond the last one    *)
(* there are zeroes.  Of a parsed tree we keep its counts and which blocks *)
(* were allocated for it.                                                  *)
(***************************************************************************)
EXTENDS Integers, Sequences, FiniteSetsExt

CONSTANTS
  Descs,      \* descriptors a device may send: [len, type, ...]
  Files,      \* descriptor files a device may have: [num, confs], see below
  Actives,    \* answers to GET_CONFIGURATION: a value, or an error
  Values,     \* configuration values an application asks for
  BosAnswers, \* answers to GET_DESCRIPTOR(BOS): a buffer, or an error
  OomAt,      \* which allocation fails (0: none does)
  MaxCalls    \* calls one application makes: the bound of the runs

\* Error codes of libusb.h.
OK == 0
IO == -1
NOT_FOUND == -5
PIPE == -9
NO_MEM == -11
NO_DEVICE == -4

\* Sizes of libusb.h and libusbi.h.
DESC_HEADER_LENGTH == 2
CONFIG_DESC_LENGTH == 9
INTERFACE_DESC_LENGTH == 9
ENDPOINT_DESC_LENGTH == 7
BOS_SIZE == 5
DEVICE_CAPABILITY_SIZE == 3
SS_ENDPOINT_COMPANION_SIZE == 6
USB_MAXENDPOINTS == 32
USB_MAXINTERFACES == 32
USB_MAXCONFIG == 8

\* A descriptor of one of these types ends the class and vendor specific
\* descriptors that belong to the one before it.
Proper == {"endpoint", "interface", "config", "device"}

Hole == [len |-> 0, type |-> "hole"]
Hd(b) == IF b = <<>> THEN Hole ELSE Head(b)
Tl(b) == IF b = <<>> THEN <<>> ELSE Tail(b)
Least(a, b) == IF a < b THEN a ELSE b

----------------------------------------------------------------------------
(* Files and answers are made of descriptors, these of bytes.              *)

Byte == 0..255

ASSUME DescConstants ==
  /\ \A h \in Descs :
       /\ h.len \in Byte
       /\ h.type = "config" => h.nif \in Byte
       /\ h.type = "interface" => h.num \in Byte /\ h.eps \in Byte
       /\ h.type = "endpoint" => h.addr \in Byte
       /\ h.type = "bos" => h.caps \in Byte
  /\ \A f \in Files :
       /\ f.num \in Byte
       /\ f.confs \in Seq([total : Nat, value : Int, b : Seq(Descs), there : Nat])
  /\ \A a \in BosAnswers :
       /\ a.r \in Int /\ a.b \in Seq(Descs)
       /\ a.r >= BOS_SIZE => a.b # <<>> /\ Head(a.b).total \in Nat
  /\ Actives \subseteq Int /\ Values \subseteq Int /\ OomAt \subseteq Nat

----------------------------------------------------------------------------
(* The heap: n allocations were tried, live blocks are allocated, lost of  *)
(* them are in a part of a tree that no free function looks at; bad is set *)
(* when a block is freed twice.                                            *)

Fails(m) == m.n + 1 = m.oom
Take(m, k) == [m EXCEPT !.n = @ + k, !.live = @ + k]
Take1(m) == Take(m, 1)
Refuse(m) == [m EXCEPT !.n = @ + 1]
Release(m, k) == [m EXCEPT !.live = @ - k]
Lose(m, k) == [m EXCEPT !.lost = @ + k]

One(cond) == IF cond THEN 1 ELSE 0

SumOf(s, n) ==
  LET sum[i \in Nat] == IF i = 0 THEN 0 ELSE sum[i - 1] + s[i]
  IN sum[n]

\* Blocks clear_interface() frees: the altsetting array, and of every
\* altsetting it counts the extra bytes, the endpoint array and the extra
\* bytes of every endpoint it counts.
AltBlocks(a) ==
  LET counted == IF a.array THEN Least(a.bNumEndpoints, Len(a.endpoint)) ELSE 0
  IN One(a.extra) + One(a.array) +
       SumOf([j \in 1..counted |-> One(a.endpoint[j].extra # <<>>)], counted)

InterfaceBlocks(intf) ==
  One(intf.array) +
    SumOf([k \in 1..Len(intf.alts) |-> AltBlocks(intf.alts[k])], Len(intf.alts))

\* Blocks clear_configuration() frees: it looks at the first bNumInterfaces
\* interfaces.
ConfigBlocks(c) ==
  LET counted == Least(c.bNumInterfaces, Len(c.interface))
  IN One(c.array) + One(c.extra) +
       SumOf([k \in 1..counted |-> InterfaceBlocks(c.interface[k])], counted)

----------------------------------------------------------------------------
(* The parser.                                                             *)

\* After the first i descriptors of b: the next one, the others, and how much
\* is left of size bytes.
NextAt(b, i) == IF i < Len(b) THEN b[i + 1] ELSE Hole
Rest(b, i) == SubSeq(b, i + 1, Len(b))
Left(b, size, i) == size - SumOf([k \in 1..Len(b) |-> b[k].len], i)

\* The loop the three parsers share: skip n class and vendor specific
\* descriptors, up to the next proper one.
SkipExtra(b, size) ==
  LET n == Min({i \in 0..Len(b) :
                  \/ Left(b, size, i) < DESC_HEADER_LENGTH
                  \/ NextAt(b, i).len \notin DESC_HEADER_LENGTH..Left(b, size, i)
                  \/ NextAt(b, i).type \in Proper})
      left == Left(b, size, n)
      end == IF left < DESC_HEADER_LENGTH THEN "done"
             ELSE IF NextAt(b, n).len < DESC_HEADER_LENGTH THEN "invalid"
             ELSE IF NextAt(b, n).len > left THEN "short"
             ELSE "done"
  IN [end |-> end, n |-> n, b |-> Rest(b, n), size |-> left]

\* One endpoint: r is what the function returns (bytes used or an error), ep
\* its address and the descriptors kept for drivers.
EndpointStop(r, b, size, m) == [r |-> r, b |-> b, size |-> size, m |-> m]

EndpointUsed(b, size, x, kept, m) ==
  [r |-> size - x.size, b |-> x.b, size |-> x.size, m |-> m,
   ep |-> [addr |-> Hd(b).addr, extra |-> kept]]

EndpointExtra(b, size, x, m) ==
  LET extra == SubSeq(Tl(b), 1, x.n)
  IN IF x.end = "invalid" THEN EndpointStop(IO, b, size, m)
     ELSE IF x.end = "short" \/ extra = <<>> THEN EndpointUsed(b, size, x, <<>>, m)
     ELSE IF Fails(m) THEN EndpointStop(NO_MEM, b, size, Refuse(m))
     ELSE EndpointUsed(b, size, x, extra, Take1(m))

parse_endpoint(b, size, m) ==
  LET h == Hd(b)
  IN IF size < DESC_HEADER_LENGTH THEN EndpointStop(IO, b, size, m)
     ELSE IF h.type # "endpoint" \/ h.len > size THEN EndpointStop(0, b, size, m)
     ELSE IF h.len < ENDPOINT_DESC_LENGTH THEN EndpointStop(IO, b, size, m)
     ELSE EndpointExtra(b, size, SkipExtra(Tl(b), size - h.len), m)

\* The endpoints of one altsetting, up to n of them: the loop ends early at
\* the first descriptor that is no endpoint.
NextEndpoint(n, w) ==
  LET e == parse_endpoint(w.b, w.size, w.m)
  IN IF ~w.more \/ Len(w.eps) = n THEN w
     ELSE IF e.r > 0
          THEN [w EXCEPT !.b = e.b, !.size = e.size, !.m = e.m, !.eps = Append(@, e.ep)]
     ELSE [w EXCEPT !.r = e.r, !.m = e.m, !.more = FALSE]

parse_endpoints(n, b, size, m) ==
  LET loop[k \in Nat] ==
        IF k = 0 THEN [r |-> OK, more |-> TRUE, b |-> b, size |-> size, m |-> m, eps |-> <<>>]
        ELSE NextEndpoint(n, loop[k - 1])
  IN loop[n]

Alt(h) == [num |-> h.num, bNumEndpoints |-> h.eps, array |-> FALSE,
           endpoint |-> <<>>, extra |-> FALSE]

NoInterface == [array |-> FALSE, alts |-> <<>>]

\* The altsettings of one interface.  w holds the buffer, what was parsed
\* and the interface built so far, of which the last altsetting is in work.
LastAlt(w) == w.intf.alts[Len(w.intf.alts)]
Parsed(w) == [w EXCEPT !.r = w.parsed, !.more = FALSE]
\* goto err: clear_interface() frees what the interface owns.
Failed(w, code) ==
  [w EXCEPT !.r = code, !.more = FALSE, !.intf = NoInterface,
            !.m = Release(@, InterfaceBlocks(w.intf))]
Refused(w) == Failed([w EXCEPT !.m = Refuse(@)], NO_MEM)
Advance(w, x) == [w EXCEPT !.b = x.b, !.size = x.size, !.parsed = @ + w.size - x.size]
WithAlt(w, a, heap) == [w EXCEPT !.intf.alts[Len(w.intf.alts)] = a, !.m = heap]

\* What follows the descriptor of an altsetting: its extra bytes ...
AltExtra(w, x) ==
  LET w1 == Advance(w, x)
  IN IF x.end = "invalid" THEN Failed(w, IO)
     ELSE IF x.end = "short" THEN Parsed(w1)
     ELSE IF x.size = w.size THEN w1
     ELSE IF Fails(w.m) THEN Refused(w1)
     ELSE WithAlt(w1, [LastAlt(w) EXCEPT !.extra = TRUE], Take1(w.m))

\* ... and its endpoints: fewer than announced are counted anew.
AltGot(w, e) ==
  LET a == [LastAlt(w) EXCEPT !.endpoint = e.eps]
  IN IF e.r < 0 THEN Failed(WithAlt(w, a, e.m), e.r)
     ELSE WithAlt(Advance(w, e), [a EXCEPT !.bNumEndpoints = Len(e.eps)], e.m)

AltEndpoints(w) ==
  LET n == LastAlt(w).bNumEndpoints
  IN IF ~w.more \/ n = 0 THEN w
     ELSE IF Fails(w.m) THEN Refused(w)
     ELSE AltGot(WithAlt(w, [LastAlt(w) EXCEPT !.array = TRUE], Take1(w.m)),
                 parse_endpoints(n, w.b, w.size, Take1(w.m)))

AltBody(w) == AltEndpoints(AltExtra(w, SkipExtra(w.b, w.size)))

\* realloc() of the altsetting array.  When it fails usbi_reallocf() has
\* freed the old array, and clear_interface() still finds it.
NoRoom(w) ==
  IF w.intf.array
  THEN [Refused([w EXCEPT !.m = Release(@, 1)]) EXCEPT !.m.bad = TRUE]
  ELSE Refused(w)

AltHeader(w) ==
  [w EXCEPT !.b = Tl(@), !.size = @ - Hd(w.b).len, !.parsed = @ + Hd(w.b).len,
            !.number = IF @ = -1 THEN Hd(w.b).num ELSE @,
            !.intf.alts = Append(@, Alt(Hd(w.b)))]

\* Another altsetting of the same interface follows, or not.
AltNext(w) ==
  IF /\ w.more
     /\ \/ w.size < INTERFACE_DESC_LENGTH
        \/ Hd(w.b).type # "interface"
        \/ Hd(w.b).num # w.number
  THEN Parsed(w)
  ELSE w

AltRoom(w) ==
  [w EXCEPT !.intf.array = TRUE, !.m = IF w.intf.array THEN Refuse(@) ELSE Take1(@)]

\* One round of the loop over the altsettings.
AltLoop(w) ==
  LET h == Hd(w.b)
  IN IF ~w.more THEN w
     ELSE IF w.size < INTERFACE_DESC_LENGTH THEN Parsed(w)
     ELSE IF Fails(w.m) THEN NoRoom(w)
     ELSE IF h.type # "interface" \/ (h.len >= INTERFACE_DESC_LENGTH /\ h.len > w.size)
          THEN Parsed(AltRoom(w))
     ELSE IF h.len < INTERFACE_DESC_LENGTH \/ h.eps > USB_MAXENDPOINTS
          THEN Failed(AltRoom(w), IO)
     ELSE AltNext(AltBody(AltHeader(AltRoom(w))))

\* A round that does not end the loop consumes a descriptor.
parse_interface(b, size, m) ==
  LET loop[k \in Nat] ==
        IF k = 0 THEN [b |-> b, size |-> size, m |-> m, parsed |-> 0, r |-> 0, more |-> TRUE,
                       number |-> -1, intf |-> NoInterface]
        ELSE AltLoop(loop[k - 1])
  IN loop[Len(b) + 1]

NoConfig == [array |-> FALSE, extra |-> FALSE, bNumInterfaces |-> 0, interface |-> <<>>]

ConfigResult(r, c, m) == [r |-> r, config |-> c, m |-> m]

\* The interfaces of a configuration.  v holds the buffer and the configuration
\* built so far, of which i interfaces are done.
ConfigStop(v, r, c, m) == [v EXCEPT !.more = FALSE, !.r = r, !.config = c, !.m = m]

\* Mutant: the parts of a configuration that fails are left behind.
ConfigDropped(v, r, m) == ConfigStop(v, r, NoConfig, m)

\* goto err: clear_configuration() frees what was built.
ConfigFailed(v, r, m) == ConfigStop(v, r, NoConfig, Release(m, ConfigBlocks(v.config)))

\* The loop ends without an error: the interfaces so far are counted.
ConfigEnds(v, m) == ConfigStop(v, v.size, [v.config EXCEPT !.bNumInterfaces = v.i], m)

InterfaceGot(v, p) ==
  IF p.r < 0 THEN ConfigFailed(v, p.r, p.m)
  ELSE IF p.r = 0 THEN ConfigEnds(v, Lose(p.m, InterfaceBlocks(p.intf)))
  ELSE [v EXCEPT !.i = @ + 1, !.b = p.b, !.size = p.size, !.r = p.size, !.m = p.m,
                 !.config.interface[v.i + 1] = p.intf]

\* The bytes before an interface, of which the first run is kept, then the
\* interface.
InterfaceExtra(v, x) ==
  LET keep == x.size < v.size /\ ~v.config.extra
      v1 == [v EXCEPT !.b = x.b, !.size = x.size]
      v2 == [v1 EXCEPT !.config.extra = @ \/ keep, !.m = IF keep THEN Take1(@) ELSE @]
  IN IF x.end = "invalid" THEN ConfigFailed(v, IO, v.m)
     ELSE IF x.end = "short" THEN ConfigEnds(v1, v.m)
     ELSE IF keep /\ Fails(v.m) THEN ConfigFailed(v, NO_MEM, Refuse(v.m))
     ELSE InterfaceGot(v2, parse_interface(x.b, x.size, v2.m))

NextInterface(v) ==
  IF v.more /\ v.i < v.config.bNumInterfaces THEN InterfaceExtra(v, SkipExtra(v.b, v.size)) ELSE v

parse_interfaces(b, size, c, m) ==
  LET loop[k \in Nat] ==
        IF k = 0 THEN [more |-> TRUE, i |-> 0, b |-> b, size |-> size, r |-> size, config |-> c, m |-> m]
        ELSE NextInterface(loop[k - 1])
  IN loop[c.bNumInterfaces]

parse_configuration(b, size, m) ==
  LET h == Hd(b)
      c == [array |-> TRUE, extra |-> FALSE, bNumInterfaces |-> h.nif,
            interface |-> [k \in 1..h.nif |-> NoInterface]]
  IN IF \/ size < CONFIG_DESC_LENGTH
        \/ h.type # "config"
        \/ h.len < CONFIG_DESC_LENGTH
        \/ h.len > size
        \/ h.nif > USB_MAXINTERFACES
     THEN ConfigResult(IO, NoConfig, m)
     ELSE IF Fails(m) THEN ConfigResult(NO_MEM, NoConfig, Refuse(m))
     ELSE parse_interfaces(Tl(b), size - h.len, c, Take1(m))

\* raw_desc_to_config(): the block of the configuration itself, then its parts.
RawParsed(p) ==
  IF p.r < 0 THEN ConfigResult(p.r, NoConfig, Release(p.m, 1))
  ELSE ConfigResult(OK, p.config, p.m)

raw_desc_to_config(b, size, m) ==
  IF Fails(m) THEN ConfigResult(NO_MEM, NoConfig, Refuse(m))
  ELSE RawParsed(parse_configuration(b, size, Take1(m)))

----------------------------------------------------------------------------
(* The descriptor file: configuration after configuration, wTotalLength    *)
(* bytes apart, bytes the device did not send being zeroes.  confs is a    *)
(* sequence of [total, value, b, there], "there" being the bytes of it the *)
(* kernel holds; num is bNumConfigurations of the device descriptor, which *)
(* need not be their number.                                               *)

\* Bytes seek_to_next_config() gives a configuration, or its error.
seek_to_next_config(c) ==
  IF c.there = 0 THEN NOT_FOUND
  ELSE IF \/ c.there < CONFIG_DESC_LENGTH
          \/ Hd(c.b).type # "config"
          \/ c.total < CONFIG_DESC_LENGTH
       THEN IO
  ELSE Least(c.total, c.there)

Eof == [total |-> 0, value |-> 0, b |-> <<>>, there |-> 0]
Nth(file, i) == IF i \in 1..Len(file) THEN file[i] ELSE Eof

\* The first configuration that is wanted, or the error at which the walk
\* stops before it.
Walk(file, wanted) ==
  LET i == Min({k \in 1..Len(file) + 1 :
                  k \in wanted \/ seek_to_next_config(Nth(file, k)) < 0})
      next == seek_to_next_config(Nth(file, i))
  IN [r |-> next, at |-> IF next < 0 THEN 0 ELSE i]

op_get_config_descriptor(file, index) == Walk(file, {index})

op_get_config_descriptor_by_value(file, value) ==
  Walk(file, {k \in 1..Len(file) : file[k].value = value})

op_get_active_config_descriptor(file, active) ==
  IF active = -1 THEN [r |-> NOT_FOUND, at |-> 0]
  ELSE op_get_config_descriptor_by_value(file, active)

----------------------------------------------------------------------------
(* What the application may still free, and the calls it makes.            *)

VARIABLES
  dfile,    \* the cached descriptors of the device
  dnum,     \* dev->num_configurations, Unknown before the device is initialised
  dactive,  \* priv->active_config, -1 when unknown
  dheap,    \* [n, live, lost, bad, oom]
  dheld,    \* what calls returned and was not freed yet
  dcall,    \* the call between its two reads
  dcount,   \* calls made
  dwild,    \* an endpoint was read through a null array
  draced    \* history: the configuration changed between the two reads of a call

descVars == <<dfile, dnum, dactive, dheap, dheld, dcall, dcount, dwild, draced>>

Idle == [op |-> "none"]
Unknown == -1
Dropped == -2

DescInit ==
  /\ dfile \in Files
  /\ dactive = -1
  /\ dnum = Unknown
  /\ dheap \in [n : {0}, live : {0}, lost : {0}, bad : {FALSE}, oom : OomAt]
  /\ dheld = <<>>
  /\ dcall = Idle
  /\ dcount = 0
  /\ dwild = FALSE /\ draced = FALSE

\* op_wrap_sys_device(): the descriptors are cached, the active configuration
\* is asked for (value 0 means unconfigured, and most errors mean unknown),
\* and a device that claims too many configurations is dropped.
usbfs_get_active_config(answer) == IF answer > 0 THEN answer ELSE -1

usbi_sanitize_device(num) == IF num > USB_MAXCONFIG THEN Dropped ELSE num

InitializeDevice(answer) ==
  /\ dnum = Unknown
  /\ dnum' = IF answer = NO_DEVICE THEN Dropped ELSE usbi_sanitize_device(dfile.num)
  /\ dactive' = IF answer = NO_DEVICE THEN dactive ELSE usbfs_get_active_config(answer)
  /\ UNCHANGED <<dfile, dheap, dheld, dcall, dcount, dwild, draced>>

Ready == dnum >= 0 /\ dcall = Idle /\ dcount < MaxCalls

\* The bytes op_get_*() copies out: at most len of configuration i.
Hold(p) ==
  /\ dheap' = p.m
  /\ dheld' = IF p.r = OK THEN Append(dheld, [kind |-> "config", tree |-> p.config])
              ELSE dheld

\* libusb_get_active_config_descriptor(): first the header, to learn how much
\* to allocate for the rest.  The application calls it ("config"), or
\* libusb_get_max_packet_size() does ("packet").
GetActiveHeader(use, addr) ==
  LET f == op_get_active_config_descriptor(dfile.confs, dactive)
  IN /\ Ready
     /\ dcount' = dcount + 1
     /\ IF f.r < 0 THEN UNCHANGED <<dheap, dcall>>
        ELSE IF Fails(dheap) THEN dheap' = Refuse(dheap) /\ UNCHANGED dcall
        ELSE /\ dheap' = Take1(dheap)
             /\ dcall' = [op |-> use, addr |-> addr, len |-> dfile.confs[f.at].total]
     /\ UNCHANGED <<dfile, dnum, dactive, dheld, dwild, draced>>

\* ... then up to that many bytes of the configuration that is active now.
ActiveBody ==
  LET f == op_get_active_config_descriptor(dfile.confs, dactive)
      p == raw_desc_to_config(dfile.confs[f.at].b, Least(dcall.len, f.r), dheap)
  IN IF f.r < 0 THEN ConfigResult(f.r, NoConfig, Release(dheap, 1))
     ELSE [p EXCEPT !.m = Release(@, 1)]

GetActiveBody ==
  /\ dcall.op = "config"
  /\ dcall' = Idle
  /\ Hold(ActiveBody)
  /\ UNCHANGED <<dfile, dnum, dactive, dcount, dwild, draced>>

\* find_endpoint() looks through bNumEndpoints endpoints of every altsetting:
\* it reads through a null array when there is none.
Altsettings(c) ==
  UNION {{i} \X (1..Len(c.interface[i].alts)) : i \in 1..c.bNumInterfaces}

AltOf(c, p) == c.interface[p[1]].alts[p[2]]

Earlier(p, q) == p[1] < q[1] \/ (p[1] = q[1] /\ p[2] < q[2])

Has(a, addr) == a.array /\ \E j \in 1..a.bNumEndpoints : a.endpoint[j].addr = addr

find_endpoint_wild(c, addr) ==
  \E p \in Altsettings(c) :
    /\ ~AltOf(c, p).array
    /\ AltOf(c, p).bNumEndpoints > 0
    /\ \A q \in Altsettings(c) : Earlier(q, p) => ~Has(AltOf(c, q), addr)

\* libusb_get_max_packet_size(), libusb_get_max_iso_packet_size(): look the
\* endpoint up, and free the configuration.
MaxPacketSize ==
  /\ dcall.op = "packet"
  /\ dcall' = Idle
  /\ \E p \in {ActiveBody} :
       /\ dwild' = (dwild \/ (p.r = OK /\ find_endpoint_wild(p.config, dcall.addr)))
       /\ dheap' = IF p.r = OK THEN Release(p.m, 1 + ConfigBlocks(p.config)) ELSE p.m
  /\ UNCHANGED <<dfile, dnum, dactive, dheld, dcount, draced>>

\* libusb_get_config_descriptor(): nothing another thread does changes what
\* its two reads see.
GetConfig(index) ==
  LET f == IF index > dnum THEN [r |-> NOT_FOUND, at |-> 0]
           ELSE op_get_config_descriptor(dfile.confs, index)
      p == raw_desc_to_config(dfile.confs[f.at].b, Least(dfile.confs[f.at].total, f.r), Take1(dheap))
  IN /\ Ready
     /\ dcount' = dcount + 1
     /\ IF f.r < 0 THEN UNCHANGED <<dheap, dheld>>
        ELSE IF Fails(dheap) THEN dheap' = Refuse(dheap) /\ UNCHANGED dheld
        ELSE Hold([p EXCEPT !.m = Release(@, 1)])
     /\ UNCHANGED <<dfile, dnum, dactive, dcall, dwild, draced>>

\* libusb_get_config_descriptor_by_value() parses the cached bytes in place.
GetByValue(value) ==
  LET f == op_get_config_descriptor_by_value(dfile.confs, value)
      p == raw_desc_to_config(dfile.confs[f.at].b, f.r, dheap)
  IN /\ Ready
     /\ dcount' = dcount + 1
     /\ IF f.r < 0 THEN UNCHANGED <<dheap, dheld>> ELSE Hold(p)
     /\ UNCHANGED <<dfile, dnum, dactive, dcall, dwild, draced>>

\* Another thread selects a configuration (op_set_configuration()).
ActiveChanges(value) ==
  /\ value # dactive
  /\ dcall # Idle
  /\ dactive' = value
  /\ draced' = TRUE
  /\ UNCHANGED <<dfile, dnum, dheap, dheld, dcall, dcount, dwild>>

----------------------------------------------------------------------------
(* The Binary Object Store: read from the device twice, and the device may *)
(* answer differently.                                                     *)

\* Capabilities parse_bos() keeps, up to n of them; m counts their blocks.
parse_dev_caps(n, b, size, m) ==
  LET Full(i) == \/ i = n
                 \/ Left(b, size, i) < DEVICE_CAPABILITY_SIZE
                 \/ NextAt(b, i).type # "devcap"
      k == Min({i \in 0..Len(b) :
                  \/ Full(i)
                  \/ NextAt(b, i).len \notin DEVICE_CAPABILITY_SIZE..Left(b, size, i)
                  \/ Fails(Take(m, i))})
      heap == Take(m, k)
      \* libusb_free_bos_descriptor(): the capabilities so far and the header.
      Drop(r, all) == [r |-> r, caps |-> <<>>, m |-> Release(all, k + 1)]
  IN IF ~Full(k) /\ NextAt(b, k).len < DEVICE_CAPABILITY_SIZE THEN Drop(IO, heap)
     ELSE IF Full(k) \/ NextAt(b, k).len > Left(b, size, k)
          THEN [r |-> OK, caps |-> SubSeq(b, 1, k), m |-> heap]
     ELSE Drop(NO_MEM, Refuse(heap))

parse_bos(b, size, m) ==
  LET h == Hd(b)
  IN IF \/ size < BOS_SIZE
        \/ h.type # "bos"
        \/ h.len < BOS_SIZE
        \/ h.len > size
     THEN [r |-> IO, caps |-> <<>>, m |-> m]
     ELSE IF Fails(m) THEN [r |-> NO_MEM, caps |-> <<>>, m |-> Refuse(m)]
     ELSE parse_dev_caps(h.caps, Tl(b), size - h.len, Take1(m))

\* libusb_get_bos_descriptor(): five bytes first ...
GetBosHeader(answer) ==
  LET r == Least(answer.r, BOS_SIZE)
  IN /\ Ready
     /\ dcount' = dcount + 1
     /\ IF r < BOS_SIZE THEN UNCHANGED <<dheap, dcall>>
        ELSE IF Fails(dheap) THEN dheap' = Refuse(dheap) /\ UNCHANGED dcall
        ELSE dheap' = Take1(dheap) /\ dcall' = [op |-> "bos", len |-> Hd(answer.b).total]
     /\ UNCHANGED <<dfile, dnum, dactive, dheld, dwild, draced>>

\* ... then as many as those five announced.
GetBosBody(answer) ==
  LET p == parse_bos(answer.b, Least(answer.r, dcall.len), dheap)
  IN /\ dcall.op = "bos"
     /\ dcall' = Idle
     /\ IF answer.r < 0
        THEN dheap' = Release(dheap, 1) /\ UNCHANGED dheld
        ELSE /\ dheap' = Release(p.m, 1)
             /\ dheld' = IF p.r = OK THEN Append(dheld, [kind |-> "bos", caps |-> p.caps])
                         ELSE dheld
     /\ UNCHANGED <<dfile, dnum, dactive, dcount, dwild, draced>>

\* libusb_get_usb_2_0_extension_descriptor(), ..._ss_usb_device_capability_...
\* and libusb_get_container_id_descriptor(): a copy of one capability.
CapSize == [usb20 |-> 7, ss |-> 10, container |-> 20]

GetCapability(k, type) ==
  LET caps == dheld[k].caps
  IN /\ Ready
     /\ dheld[k].kind = "bos"
     /\ \E j \in 1..Len(caps) :
          IF caps[j].cap # type \/ caps[j].len < CapSize[type]
          THEN UNCHANGED <<dheap, dheld>>
          ELSE IF Fails(dheap) THEN dheap' = Refuse(dheap) /\ UNCHANGED dheld
          ELSE /\ dheap' = Take1(dheap)
               /\ dheld' = Append(dheld, [kind |-> "copy"])
     /\ dcount' = dcount + 1
     /\ UNCHANGED <<dfile, dnum, dactive, dcall, dwild, draced>>

\* libusb_get_ss_endpoint_companion_descriptor(): the first companion among
\* the descriptors that follow an endpoint.
FirstCompanion(extra) ==
  LET at == {i \in 1..Len(extra) : extra[i].type = "companion"}
  IN IF at = {} THEN 0 ELSE Min(at)

GetCompanion(k) ==
  /\ Ready
  /\ dheld[k].kind = "config"
  /\ \E p \in Altsettings(dheld[k].tree) :
       LET alt == AltOf(dheld[k].tree, p)
       IN \E j \in 1..Len(alt.endpoint) :
            LET extra == alt.endpoint[j].extra
                at == FirstCompanion(extra)
            IN IF at = 0 THEN UNCHANGED <<dheap, dheld>>
               ELSE IF extra[at].len < SS_ENDPOINT_COMPANION_SIZE
                    THEN UNCHANGED <<dheap, dheld>>
               ELSE IF Fails(dheap) THEN dheap' = Refuse(dheap) /\ UNCHANGED dheld
               ELSE /\ dheap' = Take1(dheap)
                    /\ dheld' = Append(dheld, [kind |-> "copy"])
  /\ dcount' = dcount + 1
  /\ UNCHANGED <<dfile, dnum, dactive, dcall, dwild, draced>>

\* Blocks the free function of a result releases.
Blocks(h) == CASE h.kind = "config" -> 1 + ConfigBlocks(h.tree)
               [] h.kind = "bos" -> 1 + Len(h.caps)
               [] OTHER -> 1

\* libusb_free_config_descriptor(), libusb_free_bos_descriptor() and the
\* functions that free one block.
FreeHeld(k) ==
  /\ dcall = Idle
  /\ dheap' = Release(dheap, Blocks(dheld[k]))
  /\ dheld' = SubSeq(dheld, 1, k - 1) \o SubSeq(dheld, k + 1, Len(dheld))
  /\ UNCHANGED <<dfile, dnum, dactive, dcall, dcount, dwild, draced>>

DescNext ==
  \/ \E answer \in Actives : InitializeDevice(answer)
  \/ GetActiveHeader("config", 0)
  \/ \E addr \in {1, 2} : GetActiveHeader("packet", addr)
  \/ GetActiveBody
  \/ MaxPacketSize
  \/ \E i \in 1..2 : GetConfig(i)
  \/ \E v \in Values : GetByValue(v) \/ ActiveChanges(v)
  \/ \E answer \in BosAnswers : GetBosHeader(answer) \/ GetBosBody(answer)
  \/ \E k \in 1..Len(dheld) :
       \/ \E type \in DOMAIN CapSize : GetCapability(k, type)
       \/ GetCompanion(k)
       \/ FreeHeld(k)

DescSpec == DescInit /\ [][DescNext]_descVars

----------------------------------------------------------------------------

\* Every configuration was sent whole: its descriptors fill the bytes it announced.
Whole(file) ==
  \A i \in 1..Len(file) :
    LET c == file[i]
    IN /\ c.total = c.there
       /\ c.total = SumOf([k \in 1..Len(c.b) |-> c.b[k].len], Len(c.b))

(* Whatever a device says about itself, and whichever allocation fails on  *)
(* the way, every block is in a result the application can free, in the    *)
(* call that is running, or in the altsetting array of the interface at    *)
(* which parse_configuration() stopped: no error path loses a block or     *)
(* frees one that is still used.  (A realloc() of an altsetting array that *)
(* fails is left out: there the array is freed twice.)  And endpoints are  *)
(* looked up in arrays that are there, unless the device sent less than it *)
(* announced or the configuration changed while it was read.               *)
MemoryExact ==
  /\ ~dheap.bad =>
       dheap.live = (IF dcall = Idle THEN 0 ELSE 1) + dheap.lost +
                    SumOf([k \in 1..Len(dheld) |-> Blocks(dheld[k])], Len(dheld))
  /\ Whole(dfile.confs) /\ ~draced => ~dwild

=============================================================================
