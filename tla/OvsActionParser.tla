-------------------------- MODULE OvsActionParser --------------------------
(***************************************************************************)
(* actionparser.go: actions from their text, a sequence of pieces.         *)
(***************************************************************************)
EXTENDS OvsAction

\* A slice index out of range ends the program.
Panic == [ok |-> FALSE, panic |-> TRUE]

----------------------------------------------------------------------------
(* actionParser: cut the text at the commas outside parentheses.           *)

\* Mutant: a comma always ends an action.
EndOfAction_Any(ch, depth) == ch = sym(",")

EndOfAction(ch, depth) == ch = sym(",") /\ depth = 0

\* The reader: actions complete, the buffer, the height of the stack of open
\* parentheses, and whether pop met an empty stack.
NewReader == [done |-> <<>>, buf |-> <<>>, depth |-> 0, panic |-> FALSE]

ReadPiece(st, ch) ==
  IF st.panic THEN st
  ELSE IF EndOfAction(ch, st.depth)
  THEN [st EXCEPT !.done = Append(@, st.buf), !.buf = <<>>]
  ELSE [st EXCEPT !.buf = Append(@, ch),
                  !.depth = CASE ch = sym("(") -> @ + 1
                              [] ch = sym(")") -> @ - 1
                              [] OTHER -> @,
                  !.panic = ch = sym(")") /\ st.depth = 0]

Read(s) ==
  LET after[n \in 0 .. Len(s)] ==
        IF n = 0 THEN NewReader ELSE ReadPiece(after[n - 1], s[n])
  IN  after[Len(s)]

----------------------------------------------------------------------------
(* fmt.Sscanf: what follows a complete match is ignored.                   *)

\* %d stops at the first character that is no digit: 0x10 reads as 0.
ScanInt(p) == CASE IsDec(p) -> Atoi(p) [] IsHex(p) -> Ok(0) [] OTHER -> Fail

\* A uint16 refuses a sign and a number too large.
ScanUint16(p) ==
  LET v == ScanInt(p) IN
  IF v.ok /\ 0 <= v.val /\ v.val <= MaxUint(U16) THEN v ELSE Fail

\* %s reads as far as the next space.
NoSpace(s, i, j) == \A k \in i .. j : s[k] # sym(" ")
WordEnd(s, i) ==
  CHOOSE j \in i - 1 .. Len(s) :
    NoSpace(s, i, j) /\ (j = Len(s) \/ s[j + 1] = sym(" "))
ScanString(s) == SubSeq(s, 2, WordEnd(s, 2))

----------------------------------------------------------------------------
(* Regular expressions, found anywhere in the text: the leftmost match,    *)
(* and of those the longest group.                                         *)

Leftmost(found) ==
  CHOOSE m \in found : \A n \in found : m[1] < n[1] \/ (m[1] = n[1] /\ m[2] >= n[2])

\* ct\((\S+)\), from i to the closing parenthesis j.
ctRe(s) ==
  {m \in (DOMAIN s) \X (DOMAIN s) : LET i == m[1]  j == m[2] IN
     /\ j > i + 2
     /\ s[i] = atom("ct") /\ s[i + 1] = sym("(") /\ s[j] = sym(")")
     /\ NoSpace(s, i + 2, j - 1)}

\* load:(\S+)->(\S+) and set_field:(\S+)->(\S+), from i with the arrow at j.
fieldRe(s, name) ==
  {m \in (DOMAIN s) \X (DOMAIN s) : LET i == m[1]  j == m[2] IN
     /\ i + 1 < j /\ j < Len(s)
     /\ s[i] = atom(name) /\ s[j] = sym("->")
     /\ NoSpace(s, i + 1, j + 1)}

\* resubmit\((\d*),(\d*)\), from i with the comma at j.
resubmitRe(s) ==
  LET digits(a, b) == b < a \/ (b = a /\ IsDec(s[a]) /\ s[a].dec >= 0) IN
  {m \in (DOMAIN s) \X (DOMAIN s) : LET i == m[1]  j == m[2] IN
     /\ i + 1 < j
     /\ s[i] = atom("resubmit") /\ s[i + 1] = sym("(") /\ s[j] = sym(",")
     /\ digits(i + 2, j - 1)
     /\ \E k \in j + 1 .. Len(s) : s[k] = sym(")") /\ digits(j + 1, k - 1)}

\* resubmit:(\d+)
resubmitPortRe(s) ==
  {m \in (DOMAIN s) \X (DOMAIN s) : LET i == m[1]  j == m[2] IN
     j = i + 1 /\ s[i] = atom("resubmit:") /\ IsDec(s[j]) /\ s[j].dec >= 0}

----------------------------------------------------------------------------
(* parseAction.                                                            *)

\* strings.ToLower on the words that occur in capitals.
ToLower(w) == IF w = "DROP" THEN "drop" ELSE IF w = "LOCAL" THEN "local" ELSE w

IsTextAction(s) ==
  Len(s) = 1 /\ IsAtom(s[1]) /\ ToLower(s[1].atom) \in TextActions

HasPrefix(s, w) == Len(s) >= 1 /\ s[1] = atom(w)

\* The action made of an operand, if that could be read.
Built(operand, Make(_)) == IF operand.ok THEN Ok(Make(operand.val)) ELSE Fail

modDataLink(s) ==
  LET addr == ScanString(s) IN IF Len(addr) = 1 THEN ParseMAC(addr[1]) ELSE Fail

\* net.ParseIP(ip).To4() must not be nil.
modNetwork(s) ==
  LET ip == ParseIP(ScanString(s)) IN IF ip.ok /\ ip.val.v4 THEN ip ELSE Fail

modTransport(s) == IF Len(s) > 1 THEN ScanUint16(s[2]) ELSE Fail
number(s)       == IF Len(s) > 1 THEN ScanInt(s[2]) ELSE Fail

\* "conjunction(%d,%d/%d)": the x of a hexadecimal number is not what follows
\* a %d.
parseConjunction(s) ==
  LET n(i) == ScanInt(s[i]) IN
  IF /\ Len(s) >= 8 /\ s[2] = sym("(") /\ s[4] = sym(",") /\ s[6] = sym("/")
     /\ s[8] = sym(")") /\ \A i \in {3, 5, 7} : IsDec(s[i]) /\ n(i).ok
  THEN Ok(Conjunction(n(3).val, n(5).val, n(7).val)) ELSE Fail

\* An empty group is zero.
parseResubmit(s) ==
  LET m == Leftmost(resubmitRe(s))
      port  == IF m[2] > m[1] + 2 THEN Atoi(s[m[1] + 2]) ELSE Ok(0)
      table == IF s[m[2] + 1] # sym(")") THEN Atoi(s[m[2] + 1]) ELSE Ok(0)
  IN  IF port.ok /\ table.ok THEN Ok(Resubmit(port.val, table.val)) ELSE Fail

parseResubmitPort(s) ==
  LET port == Atoi(s[Leftmost(resubmitPortRe(s))[2]]) IN
  IF port.ok THEN Ok(ResubmitPort(port.val)) ELSE Fail

\* The groups before and after the arrow.
fieldGroups(s, name) ==
  LET m == Leftmost(fieldRe(s, name)) IN
  <<SubSeq(s, m[1] + 1, m[2] - 1), SubSeq(s, m[2] + 1, WordEnd(s, m[2] + 1))>>

parseAction(s) ==
  IF IsTextAction(s) THEN Ok(textAction(ToLower(s[1].atom)))
  ELSE IF ctRe(s) # {}
  THEN LET m == Leftmost(ctRe(s)) IN
       Ok(ConnectionTracking(SubSeq(s, m[1] + 2, m[2] - 1)))
  ELSE
    CASE HasPrefix(s, "mod_dl_dst:") -> Built(modDataLink(s), ModDataLinkDestination)
      [] HasPrefix(s, "mod_dl_src:") -> Built(modDataLink(s), ModDataLinkSource)
      [] HasPrefix(s, "mod_nw_dst:") -> Built(modNetwork(s), ModNetworkDestination)
      [] HasPrefix(s, "mod_nw_src:") -> Built(modNetwork(s), ModNetworkSource)
      [] HasPrefix(s, "mod_tp_dst:") ->
           Built(modTransport(s), ModTransportDestinationPort)
      [] HasPrefix(s, "mod_tp_src:") ->
           Built(modTransport(s), ModTransportSourcePort)
      [] HasPrefix(s, "mod_vlan_vid:") -> Built(number(s), ModVLANVID)
      [] HasPrefix(s, "conjunction")   -> parseConjunction(s)
      [] HasPrefix(s, "output:")       -> Built(number(s), Output)
      [] OTHER ->
           IF resubmitRe(s) # {} THEN parseResubmit(s)
           ELSE IF resubmitPortRe(s) # {} THEN parseResubmitPort(s)
           ELSE IF fieldRe(s, "load:") # {}
                THEN LET g == fieldGroups(s, "load:") IN Ok(Load(g[1], g[2]))
           ELSE IF fieldRe(s, "set_field:") # {}
                THEN LET g == fieldGroups(s, "set_field:") IN
                     Ok(SetField(g[1], g[2]))
           ELSE Fail

\* The text of each action; the last one ends with the text.
RawActions(st) == IF st.buf = <<>> THEN st.done ELSE Append(st.done, st.buf)

\* The first action that cannot be parsed decides, and an open parenthesis at
\* the end.
Outcome(st, acts) ==
  IF \E i \in DOMAIN st.done : ~acts[i].ok THEN Fail
  ELSE IF st.panic THEN Panic
  ELSE IF st.depth > 0 \/ \E i \in DOMAIN acts : ~acts[i].ok THEN Fail
  ELSE Ok([actions |-> [i \in DOMAIN acts |-> acts[i].val], raw |-> RawActions(st)])

\* actionParser.Parse: the actions and their raw text.
ParseActions(s) ==
  LET st == Read(s) IN
  Outcome(st, [i \in DOMAIN RawActions(st) |-> parseAction(RawActions(st)[i])])
=============================================================================
