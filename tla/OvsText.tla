------------------------------ MODULE OvsText ------------------------------
(***************************************************************************)
(* The text that the ovs package of go-openvswitch exchanges with the Open *)
(* vSwitch programs, and the conversions of numbers and addresses that its *)
(* formats share.                                                          *)
(*                                                                         *)
(* A string is a sequence of pieces.  A piece is a number as it is written *)
(* (dec or hex), an atom (an address or a word in one spelling) or a       *)
(* character that a parser looks for (sym).  The value of a key=value pair *)
(* is the sequence of its pieces between slashes.  Machine integers keep   *)
(* their widths as constants, so that every truncation is modelled.        *)
(***************************************************************************)
EXTENDS Integers, Sequences, FiniteSets

CONSTANTS U8, U12, U16, U32, U64  \* bits of uint8, VLAN VID, uint16, ...

ASSUME WidthAssumption ==
  /\ {U8, U12, U16, U32, U64} \subseteq Nat \ {0}
  /\ U8 < U12 /\ U12 < U16 /\ U16 < U32 /\ U32 < U64

Ok(v) == [ok |-> TRUE, val |-> v]
Fail  == [ok |-> FALSE]

dec(n)  == [dec |-> n]
hex(n)  == [hex |-> n]
atom(a) == [atom |-> a]
sym(c)  == [sym |-> c]

IsDec(p)  == "dec" \in DOMAIN p
IsHex(p)  == "hex" \in DOMAIN p
IsAtom(p) == "atom" \in DOMAIN p

----------------------------------------------------------------------------
(* strconv: integers of 64 bits.                                           *)

\* The conversion uintN(n).
Uint(n, bits) == n % 2 ^ bits
MaxUint(bits) == 2 ^ bits - 1

\* strconv.Atoi reads decimal digits and a sign into an int.
Atoi(p) ==
  IF IsDec(p) /\ -(2 ^ (U64 - 1)) <= p.dec /\ p.dec < 2 ^ (U64 - 1)
  THEN Ok(p.dec) ELSE Fail

\* The number that the decimal digits of n denote in base 16.
AsHexDigits[n \in Nat] ==
  IF n < 10 THEN n ELSE 16 * AsHexDigits[n \div 10] + (n % 10)

\* strconv.ParseUint(strings.TrimPrefix(s, "0x"), 16, bits): the prefix is
\* optional, a sign is refused, and so is a number of more bits.
ParseHex(p, bits) ==
  LET n == CASE IsHex(p) -> p.hex
             [] IsDec(p) /\ p.dec >= 0 -> AsHexDigits[p.dec]
             [] OTHER -> -1
  IN  IF 0 <= n /\ n < 2 ^ bits THEN Ok(n) ELSE Fail

\* strconv.ParseUint(s, 0, 64): the prefix decides the base.
ParseUint0(p) ==
  LET n == CASE IsHex(p) -> p.hex
             [] IsDec(p) -> p.dec
             [] OTHER -> -1
  IN  IF 0 <= n /\ n < 2 ^ U64 THEN Ok(n) ELSE Fail

----------------------------------------------------------------------------
(* net: addresses by spelling.                                             *)

\* Two spellings of one Ethernet address, a mask, and an address too long.
MACs ==
  [mac   |-> [hw |-> "mac",   len |-> 6],
   MAC   |-> [hw |-> "mac",   len |-> 6],
   ffmac |-> [hw |-> "ffmac", len |-> 6],
   eui64 |-> [hw |-> "eui64", len |-> 8]]

\* An IPv4 address, two spellings of an IPv6 address, and the IPv4 address
\* written as an IPv6 one, which prints as IPv4.
IPs ==
  [ip4    |-> [ip |-> "ip4", v4 |-> TRUE,  bits |-> 32],
   ip6    |-> [ip |-> "ip6", v4 |-> FALSE, bits |-> 128],
   IP6    |-> [ip |-> "ip6", v4 |-> FALSE, bits |-> 128],
   ip4in6 |-> [ip |-> "ip4", v4 |-> TRUE,  bits |-> 128]]

ParseMAC(p) ==
  IF IsAtom(p) /\ p.atom \in DOMAIN MACs THEN Ok(MACs[p.atom]) ELSE Fail

ParseIP(s) ==
  IF Len(s) = 1 /\ IsAtom(s[1]) /\ s[1].atom \in DOMAIN IPs
  THEN Ok(IPs[s[1].atom]) ELSE Fail

ParseCIDR(s) ==
  IF /\ Len(s) = 2 /\ ParseIP(<<s[1]>>).ok
     /\ IsDec(s[2]) /\ 0 <= s[2].dec /\ s[2].dec <= IPs[s[1].atom].bits
  THEN ParseIP(<<s[1]>>) ELSE Fail

\* HardwareAddr.String and IP.String: one spelling each.
HwString(addr) == atom(addr.hw)
IPString(ip)   == atom(ip.ip)

----------------------------------------------------------------------------
(* codegen.go: Go source that denotes a value.  An expression is a call of *)
(* a constructor with literals, and Literal is the value of one.           *)

Expr(fn, args)       == [fn |-> fn, args |-> args]
quoted(s)            == [quoted |-> s]
hwAddrGoString(addr) == [bytes |-> addr]

\* No IPv4 address: the generated code panics.
ipv4GoString(ip) == IF ip.ok THEN [ipv4 |-> ip.val] ELSE [panic |-> "IPv4"]

Literal(a) ==
  CASE IsDec(a) -> a.dec
    [] IsHex(a) -> a.hex
    [] "quoted" \in DOMAIN a -> a.quoted
    [] "bytes" \in DOMAIN a -> a.bytes
    [] "ipv4" \in DOMAIN a -> a.ipv4
=============================================================================
