---------------------------- MODULE ComponentsMC ----------------------------
(***************************************************************************)
(* Four components that share no state: descriptor parser, interfaces of a *)
(* handle, life of contexts, devices and handles, EEPROM and pins.  Their  *)
(* interleavings would tell nothing, so a behaviour exercises one of them, *)
(* the scene, and leaves the others where they began.                      *)
(***************************************************************************)
EXTENDS Descriptors, UsbInterfaces, UsbDevices, Board

VARIABLE scene

vars == <<scene, descVars, ifaceVars, devVars, boardVars>>

-----------------------------------------------------------------------------
(* Descriptor files.  A configuration's total is what it announces; of     *)
(* that, "cut" bytes are missing, or a descriptor that ends it claims to   *)
(* be longer than what is left.                                            *)

Conf(nif, value) == [len |-> 9, type |-> "config", nif |-> nif, value |-> value]
Intf(n, eps) == [len |-> 9, type |-> "interface", num |-> n, eps |-> eps]
Endp(a) == [len |-> 7, type |-> "endpoint", addr |-> a]
Comp == [len |-> 6, type |-> "companion"]
Long == [len |-> 40, type |-> "class"]
Runt == [len |-> 1, type |-> "class"]

Kinds == {Intf(0, 0), Intf(0, 1), Intf(1, 1), Endp(1), Comp, Long, Runt}

Bodies(k) == UNION {[1..n -> Kinds] : n \in 0..k}

\* Bytes of a body in which a Long has only 3 bytes.
Room(b) == SumOf([i \in 1..Len(b) |-> IF b[i] = Long THEN 3 ELSE b[i].len], Len(b))

ConfigFile(nif, value, body, cut) ==
  [total |-> 9 + Room(body), value |-> value, b |-> <<Conf(nif, value)>> \o body,
   there |-> 9 + Room(body) - cut]

\* All short bodies, and longer ones that reach every exit of the parser.
SomeBodies == Bodies(2) \cup
  {<<Intf(0, 1), Endp(1), Comp>>, <<Intf(0, 1), Comp, Endp(1), Long>>,
   <<Intf(0, 1), Comp, Endp(1), Runt>>, <<Intf(0, 1), Endp(1), Intf(0, 1), Endp(1)>>,
   <<Intf(0, 1), Endp(1), Comp, Intf(1, 1), Endp(1)>>,
   <<Comp, Intf(0, 1), Comp, Endp(1), Comp, Intf(0, 1), Long>>,
   <<Comp, Intf(0, 0), Comp, Intf(1, 1), Comp, Endp(1), Comp>>,
   <<Intf(0, 0), Intf(0, 1), Runt>>, <<Intf(0, 0), Comp, Intf(1, 1), Comp, Comp>>,
   <<Intf(0, 2), Endp(1), Endp(2), Comp, Endp(1)>>, <<Intf(0, 2), Comp, Endp(1), Comp, Long>>,
   <<Intf(0, 40)>>, <<Intf(0, 1), [Endp(1) EXCEPT !.len = 5]>>}

File(num, confs) == [num |-> num, confs |-> confs]

OneConfig == {File(1, <<ConfigFile(nif, 1, body, cut)>>) :
                nif \in 1..2, body \in SomeBodies, cut \in {0, 3}}

\* Two configurations of different lengths, to be mixed up.
TwoConfigs ==
  {File(num, <<ConfigFile(1, 1, <<Intf(0, 1), Endp(1)>>, 0), ConfigFile(1, 2, body, 0)>>) :
     num \in {1, 3}, body \in {<<Intf(0, 1), Comp, Comp, Endp(2), Comp>>, <<Intf(0, 0)>>}}

TheFiles == OneConfig \cup TwoConfigs \cup {File(9, <<>>), File(1, <<>>)}

TheActives == {NO_DEVICE, PIPE, 1}

TheOom == {0, 2, 3, 5, 8}

\* Answers to the two reads of the BOS descriptor.
Bos(caps, total) == [len |-> 5, type |-> "bos", caps |-> caps, total |-> total]
Cap(n, cap) == [len |-> n, type |-> "devcap", cap |-> cap]
TheBos ==
  {[r |-> PIPE, b |-> <<>>], [r |-> 3, b |-> <<Bos(1, 12)>>],
   [r |-> 12, b |-> <<Bos(1, 12), Cap(7, "usb20")>>],
   [r |-> 22, b |-> <<Bos(2, 22), Cap(7, "usb20"), Cap(10, "ss")>>],
   [r |-> 14, b |-> <<Bos(2, 14), Cap(7, "usb20"), Cap(2, "ss")>>],
   [r |-> 14, b |-> <<Bos(2, 14), Cap(7, "usb20"), Cap(9, "ss")>>]}

Sent(buffers) == UNION {{b[i] : i \in 1..Len(b)} : b \in buffers}

TheDescs ==
  Sent({a.b : a \in TheBos} \cup
       UNION {{f.confs[k].b : k \in 1..Len(f.confs)} : f \in TheFiles})

-----------------------------------------------------------------------------
(* The other components.                                                   *)

TheConfigs == {-1, 1, 2}

\* EEPROMs of four bytes: the bias tee's bit, then strings of any length.
TheImages == {[a \in 0..3 |-> IF a = 0 THEN ir ELSE IF a = 1 THEN n ELSE 0] :
                ir \in {0, 2}, n \in 0..5}

-----------------------------------------------------------------------------

Init ==
  /\ scene \in {"descriptors", "interfaces", "devices", "board"}
  /\ IF scene = "descriptors" THEN DescInit
     ELSE /\ dfile = File(0, <<>>) /\ dnum = Unknown /\ dactive = -1 /\ dheld = <<>> /\ dcall = Idle /\ dcount = 0
          /\ dheap = [n |-> 0, live |-> 0, lost |-> 0, bad |-> FALSE, oom |-> 0]
          /\ dwild = FALSE /\ draced = FALSE
  /\ IfaceInit
  /\ scene # "interfaces" => ~auto /\ ~oldKernel /\ ~stale
  /\ DevInit
  /\ BoardInit
  /\ scene # "board" => rom = [a \in Cells |-> 0]

Next ==
  /\ UNCHANGED scene
  /\ \/ /\ scene = "descriptors" /\ DescNext
        /\ UNCHANGED <<ifaceVars, devVars, boardVars>>
     \/ /\ scene = "interfaces" /\ IfaceNext
        /\ UNCHANGED <<descVars, devVars, boardVars>>
     \/ /\ scene = "devices" /\ DevNext
        /\ UNCHANGED <<descVars, ifaceVars, boardVars>>
     \/ /\ scene = "board" /\ BoardNext
        /\ UNCHANGED <<descVars, ifaceVars, devVars>>

Spec == Init /\ [][Next]_vars

=============================================================================
