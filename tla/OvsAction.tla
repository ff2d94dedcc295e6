----------------------------- MODULE OvsAction -----------------------------
(***************************************************************************)
(* Actions of package ovs: the structs its constructors build, the text    *)
(* and the Go source they marshal to.  An action is a record of the        *)
(* struct's fields and its type; its text is a sequence of pieces.         *)
(***************************************************************************)
EXTENDS OvsMatchParser

\* prefix is the name with its colon, as in "output:%d".
Colon(prefix, piece) == Ok(<<atom(prefix), piece>>)

----------------------------------------------------------------------------
(* Structs, with MarshalText and GoString of each.                         *)

TextActions == {"drop", "flood", "in_port", "local", "normal", "strip_vlan"}

textAction(action) == [type |-> "text", action |-> action]
Drop      == textAction("drop")
Flood     == textAction("flood")
InPort    == textAction("in_port")
Local     == textAction("local")
Normal    == textAction("normal")
StripVLAN == textAction("strip_vlan")
textAction_MarshalText(a) == Ok(<<atom(a.action)>>)
textAction_GoString(a) ==
  Expr(CASE a.action = "drop"       -> "Drop"
         [] a.action = "flood"      -> "Flood"
         [] a.action = "in_port"    -> "InPort"
         [] a.action = "local"      -> "Local"
         [] a.action = "normal"     -> "Normal"
         [] a.action = "strip_vlan" -> "StripVLAN", <<>>)

ConnectionTracking(args) == [type |-> "ct", args |-> args]
ctAction_MarshalText(a) ==
  IF a.args = <<>> THEN Fail
  ELSE Ok(<<atom("ct"), sym("(")>> \o a.args \o <<sym(")")>>)
ctAction_GoString(a) == Expr("ConnectionTracking", <<quoted(a.args)>>)

modDataLinkAction(srcdst, addr) ==
  [type |-> "modDataLink", srcdst |-> srcdst, hwaddr |-> addr]
ModDataLinkDestination(addr) == modDataLinkAction("dst", addr)
ModDataLinkSource(addr)      == modDataLinkAction("src", addr)
modDataLinkAction_MarshalText(a) ==
  IF a.hwaddr.len # 6 THEN Fail
  ELSE Colon(IF a.srcdst = "src" THEN "mod_dl_src:" ELSE "mod_dl_dst:",
             HwString(a.hwaddr))
modDataLinkAction_GoString(a) ==
  Expr(IF a.srcdst = "src" THEN "ModDataLinkSource" ELSE "ModDataLinkDestination",
       <<hwAddrGoString(a.hwaddr)>>)

\* IP.To4: the four octets, or nil.
To4(ip) == IF ip.v4 THEN Ok(IPs["ip4"]) ELSE Fail

modNetworkAction(srcdst, ip) ==
  [type |-> "modNetwork", srcdst |-> srcdst, ip4 |-> To4(ip)]
ModNetworkDestination(ip) == modNetworkAction("dst", ip)
ModNetworkSource(ip)      == modNetworkAction("src", ip)
modNetworkAction_MarshalText(a) ==
  IF ~a.ip4.ok THEN Fail
  ELSE Colon(IF a.srcdst = "src" THEN "mod_nw_src:" ELSE "mod_nw_dst:",
             IPString(a.ip4.val))
modNetworkAction_GoString(a) ==
  Expr(IF a.srcdst = "src" THEN "ModNetworkSource" ELSE "ModNetworkDestination",
       <<ipv4GoString(a.ip4)>>)

modTransportPortAction(srcdst, port) ==
  [type |-> "modTransportPort", srcdst |-> srcdst, port |-> port]
ModTransportDestinationPort(port) == modTransportPortAction("dst", port)
ModTransportSourcePort(port)      == modTransportPortAction("src", port)
modTransportPortAction_MarshalText(a) ==
  Colon(IF a.srcdst = "src" THEN "mod_tp_src:" ELSE "mod_tp_dst:", dec(a.port))
modTransportPortAction_GoString(a) ==
  Expr(IF a.srcdst = "src" THEN "ModTransportSourcePort"
                           ELSE "ModTransportDestinationPort", <<dec(a.port)>>)

ModVLANVID(vid) == [type |-> "modVLANVID", vid |-> vid]
modVLANVIDAction_MarshalText(a) ==
  IF validVLANVID(a.vid) THEN Colon("mod_vlan_vid:", dec(a.vid)) ELSE Fail
modVLANVIDAction_GoString(a) == Expr("ModVLANVID", <<dec(a.vid)>>)

Output(port) == [type |-> "output", port |-> port]
outputAction_MarshalText(a) ==
  IF a.port < 0 THEN Fail ELSE Colon("output:", dec(a.port))
outputAction_GoString(a) == Expr("Output", <<dec(a.port)>>)

Conjunction(id, dimensionNumber, dimensionSize) ==
  [type |-> "conjunction", id |-> id, number |-> dimensionNumber,
   size |-> dimensionSize]
conjunctionAction_MarshalText(a) ==
  IF a.number > a.size THEN Fail
  ELSE Ok(<<atom("conjunction"), sym("("), dec(a.id), sym(","), dec(a.number),
            sym("/"), dec(a.size), sym(")")>>)
conjunctionAction_GoString(a) ==
  Expr("Conjunction", <<dec(a.id), dec(a.number), dec(a.size)>>)

\* Zero is written as nothing.
Itoa0(n) == IF n = 0 THEN <<>> ELSE <<dec(n)>>

Resubmit(port, table) == [type |-> "resubmit", port |-> port, table |-> table]
resubmitAction_MarshalText(a) ==
  IF a.port = 0 /\ a.table = 0 THEN Fail
  ELSE Ok(<<atom("resubmit"), sym("(")>> \o Itoa0(a.port) \o <<sym(",")>>
            \o Itoa0(a.table) \o <<sym(")")>>)
resubmitAction_GoString(a) == Expr("Resubmit", <<dec(a.port), dec(a.table)>>)

\* 0xfffffeff: the largest uint32 less 2^8.
LargestPort == MaxUint(U32) - 2 ^ U8

ResubmitPort(port) == [type |-> "resubmitPort", port |-> port]
resubmitPortAction_MarshalText(a) ==
  IF a.port < 0 \/ a.port > LargestPort THEN Fail
  ELSE Colon("resubmit:", dec(a.port))
resubmitPortAction_GoString(a) == Expr("ResubmitPort", <<dec(a.port)>>)

loadSetFieldAction(typ, value, field) ==
  [type |-> typ, value |-> value, field |-> field]
SetField(value, field) == loadSetFieldAction("set_field:", value, field)
Load(value, field)     == loadSetFieldAction("load:", value, field)
loadSetFieldAction_MarshalText(a) ==
  IF a.value = <<>> \/ a.field = <<>> THEN Fail
  ELSE Ok(<<atom(a.type)>> \o a.value \o <<sym("->")>> \o a.field)
loadSetFieldAction_GoString(a) ==
  Expr(IF a.type = "load:" THEN "Load" ELSE "SetField",
       <<quoted(a.value), quoted(a.field)>>)

SetTunnel(tunnelID) == [type |-> "setTunnel", id |-> tunnelID]
setTunnelAction_MarshalText(a) == Colon("set_tunnel:", hex(a.id))
setTunnelAction_GoString(a) == Expr("SetTunnel", <<hex(a.id)>>)

----------------------------------------------------------------------------
(* The interface Action.                                                   *)

ActionText(a) ==
  CASE a.type = "text"             -> textAction_MarshalText(a)
    [] a.type = "ct"               -> ctAction_MarshalText(a)
    [] a.type = "modDataLink"      -> modDataLinkAction_MarshalText(a)
    [] a.type = "modNetwork"       -> modNetworkAction_MarshalText(a)
    [] a.type = "modTransportPort" -> modTransportPortAction_MarshalText(a)
    [] a.type = "modVLANVID"       -> modVLANVIDAction_MarshalText(a)
    [] a.type = "output"           -> outputAction_MarshalText(a)
    [] a.type = "conjunction"      -> conjunctionAction_MarshalText(a)
    [] a.type = "resubmit"         -> resubmitAction_MarshalText(a)
    [] a.type = "resubmitPort"     -> resubmitPortAction_MarshalText(a)
    [] a.type \in {"load:", "set_field:"} -> loadSetFieldAction_MarshalText(a)
    [] a.type = "setTunnel"        -> setTunnelAction_MarshalText(a)

ActionGoString(a) ==
  CASE a.type = "text"             -> textAction_GoString(a)
    [] a.type = "ct"               -> ctAction_GoString(a)
    [] a.type = "modDataLink"      -> modDataLinkAction_GoString(a)
    [] a.type = "modNetwork"       -> modNetworkAction_GoString(a)
    [] a.type = "modTransportPort" -> modTransportPortAction_GoString(a)
    [] a.type = "modVLANVID"       -> modVLANVIDAction_GoString(a)
    [] a.type = "output"           -> outputAction_GoString(a)
    [] a.type = "conjunction"      -> conjunctionAction_GoString(a)
    [] a.type = "resubmit"         -> resubmitAction_GoString(a)
    [] a.type = "resubmitPort"     -> resubmitPortAction_GoString(a)
    [] a.type \in {"load:", "set_field:"} -> loadSetFieldAction_GoString(a)
    [] a.type = "setTunnel"        -> setTunnelAction_GoString(a)

\* What the Go compiler makes of the source that GoString returns.
ActionOf(e) ==
  LET a == Literal(e.args[1])  b == Literal(e.args[2])  c == Literal(e.args[3])
  IN
  CASE e.fn = "Drop"      -> Drop
    [] e.fn = "Flood"     -> Flood
    [] e.fn = "InPort"    -> InPort
    [] e.fn = "Local"     -> Local
    [] e.fn = "Normal"    -> Normal
    [] e.fn = "StripVLAN" -> StripVLAN
    [] e.fn = "ConnectionTracking"     -> ConnectionTracking(a)
    [] e.fn = "ModDataLinkSource"      -> ModDataLinkSource(a)
    [] e.fn = "ModDataLinkDestination" -> ModDataLinkDestination(a)
    [] e.fn = "ModNetworkSource"       -> ModNetworkSource(a)
    [] e.fn = "ModNetworkDestination"  -> ModNetworkDestination(a)
    [] e.fn = "ModTransportSourcePort" -> ModTransportSourcePort(a)
    [] e.fn = "ModTransportDestinationPort" -> ModTransportDestinationPort(a)
    [] e.fn = "ModVLANVID"   -> ModVLANVID(a)
    [] e.fn = "Output"       -> Output(a)
    [] e.fn = "Conjunction"  -> Conjunction(a, b, c)
    [] e.fn = "Resubmit"     -> Resubmit(a, b)
    [] e.fn = "ResubmitPort" -> ResubmitPort(a)
    [] e.fn = "Load"         -> Load(a, b)
    [] e.fn = "SetField"     -> SetField(a, b)
    [] e.fn = "SetTunnel"    -> SetTunnel(a)
=============================================================================
