----------------------------- MODULE PortRange -----------------------------
(***************************************************************************)
(* PortRange.BitwiseMatch of go-openvswitch (package ovs): the value/mask  *)
(* pairs with which an OpenFlow match covers a range of transport ports.   *)
(* Ports are unsigned integers of U16 bits.                                *)
(***************************************************************************)
EXTENDS OvsText

Modulus == 2 ^ U16
Ports   == 0 .. Modulus - 1

\* type PortRange.
PortRanges == [start : Ports, end : Ports]

\* All ones but for the bits that vary within the range.
getMask(bitLength) == Modulus - 2 ^ bitLength

\* end &^ rangeLength, and the sum that wraps as uint16 does.
getRange(end, bitLength) ==
  LET rangeLength == 2 ^ bitLength - 1
      rangeStart  == end - (end % (rangeLength + 1))
  IN  [start |-> rangeStart, end |-> (rangeStart + rangeLength) % Modulus]

\* math.Floor(math.Log2(window)).
FloorLog2(n) == CHOOSE b \in 0 .. U16 : 2 ^ b <= n /\ n < 2 ^ (b + 1)

\* Mutant: the loop stops one length too early.
FittingLength_First(end, bitLength) ==
  IF getRange(end, bitLength).end > end /\ bitLength > 0 THEN bitLength - 1
                                                         ELSE bitLength

\* The loop that decrements bitLength until the range ends within ours.
FittingLength(end, bitLength) ==
  CHOOSE b \in 0 .. bitLength :
    /\ getRange(end, b).end <= end
    /\ \A c \in b + 1 .. bitLength : getRange(end, c).end > end

\* Mutant: the window does not count its last port.
Window_Short(start, end) == end - start

\* (r.End - r.Start) + 1, in 16 bits.
Window(start, end) == (end - start + 1) % Modulus

\* BitwiseMatch, recursing on what is left below and above the range found.
BitwiseMatch[r \in PortRanges] ==
  IF r.start = 0 \/ r.end = 0 \/ r.start > r.end THEN Fail
  ELSE IF r.start = r.end
       THEN Ok(<<[value |-> r.start, mask |-> Modulus - 1]>>)
  ELSE
    LET bitLength == FittingLength(r.end, FloorLog2(Window(r.start, r.end)))
        range     == getRange(r.end, bitLength)
        current   == [value |-> range.start, mask |-> getMask(bitLength)]
        left      == IF r.start # range.start
                     THEN BitwiseMatch[[start |-> r.start,
                                        end |-> (range.start - 1) % Modulus]]
                     ELSE Ok(<<>>)
        right     == IF r.end # range.end
                     THEN BitwiseMatch[[start |-> (range.end + 1) % Modulus,
                                        end |-> r.end]]
                     ELSE Ok(<<>>)
    IN  IF left.ok /\ right.ok
        THEN Ok(left.val \o <<current>> \o right.val)
        ELSE Fail
=============================================================================
