------------------------------ MODULE OvsFlow ------------------------------
(***************************************************************************)
(* Flow and MatchFlow of package ovs, to and from their text.  A flow text *)
(* is its comma-separated fields and whatever follows each "actions=".  A  *)
(* field is a word, or a pair of key and value; eqs counts its equal signs *)
(* and space says that a space precedes it, as in the output of dump-flows.*)
(***************************************************************************)
EXTENDS OvsActionParser

PortLOCAL == -1
AnyTable  == -1

Word(w) == [word |-> w, space |-> FALSE]
Field(key, parts) == [key |-> key, parts |-> parts, space |-> FALSE, eqs |-> 1]

\* A new Flow: every field has its zero value.
Flow ==
  [priority |-> 0, protocol |-> "", inPort |-> 0, matches |-> <<>>,
   table |-> 0, idleTimeout |-> 0, cookie |-> 0, actions |-> <<>>]

MatchFlow ==
  [protocol |-> "", inPort |-> 0, matches |-> <<>>, table |-> 0,
   cookie |-> 0, cookieMask |-> 0]

----------------------------------------------------------------------------
\* marshalFunctions: the first error ends it.
marshalFunctions(texts) ==
  IF \A i \in DOMAIN texts : texts[i].ok
  THEN Ok([i \in DOMAIN texts |-> texts[i].val]) ELSE Fail

marshalMatches(f) ==
  marshalFunctions([i \in DOMAIN f.matches |-> MatchText(f.matches[i])])
marshalActions(f) ==
  marshalFunctions([i \in DOMAIN f.actions |-> ActionText(f.actions[i])])

\* strings.Join(actions, ",").
JoinActions(texts) ==
  LET joined[n \in DOMAIN texts] ==
        IF n = 1 THEN texts[1] ELSE joined[n - 1] \o <<sym(",")>> \o texts[n]
  IN  joined[Len(texts)]

\* Mutant: only the first action is looked at.
DropNotAlone_First(texts) == Len(texts) > 1 /\ texts[1] = <<atom("drop")>>

\* "drop" must be the only action.
DropNotAlone(texts) ==
  Len(texts) > 1 /\ \E i \in DOMAIN texts : texts[i] = <<atom("drop")>>

MatchFields(matches) ==
  [i \in DOMAIN matches |-> Field(matches[i].key, matches[i].parts)]

ProtocolField(f) == IF f.protocol # "" THEN <<Word(f.protocol)>> ELSE <<>>

InPortField(f) ==
  IF f.inPort = 0 THEN <<>>
  ELSE <<Field("in_port", <<IF f.inPort = PortLOCAL THEN atom("LOCAL")
                                                    ELSE dec(f.inPort)>>)>>

Flow_MarshalText(f) ==
  LET actions == marshalActions(f)  matches == marshalMatches(f) IN
  IF f.actions = <<>> \/ ~actions.ok \/ ~matches.ok \/ DropNotAlone(actions.val)
  THEN Fail
  ELSE Ok([fields |->
             <<Field("priority", <<dec(f.priority)>>)>>
             \o ProtocolField(f) \o InPortField(f) \o MatchFields(matches.val)
             \o <<Field("table", <<dec(f.table)>>),
                  Field("idle_timeout", <<dec(f.idleTimeout)>>)>>
             \o (IF f.cookie > 0 THEN <<Field("cookie", <<hex(f.cookie)>>)>>
                                 ELSE <<>>),
           actions |-> <<JoinActions(actions.val)>>])

----------------------------------------------------------------------------
(* UnmarshalText.  It assigns to the Flow as it goes: the result is the    *)
(* Flow, and whether an error was returned.                                *)

Ignored == {"duration", "n_packets", "n_bytes", "hard_age", "idle_age", "actions"}

\* One number, as strconv.ParseInt(kv[1], 10, 0) reads it.
ParseInt(parts) == IF Len(parts) = 1 THEN Atoi(parts[1]) ELSE Fail

ParseInPort(parts) ==
  IF parts = <<atom("LOCAL")>> THEN Ok(PortLOCAL) ELSE ParseInt(parts)

ParseCookie(parts) == IF Len(parts) = 1 THEN ParseUint0(parts[1]) ELSE Fail

Set(f, name, r) ==
  IF r.ok THEN [err |-> FALSE, flow |-> [f EXCEPT ![name] = r.val]]
          ELSE [err |-> TRUE, flow |-> f]

\* A word's spaces are not trimmed, nor those of a key that parseMatch gets.
Spaced(fd, first) == fd.space /\ ~first
Indented(word) == " " \o word

unmarshalField(f, fd, first) ==
  IF "word" \in DOMAIN fd /\ fd.word = "" THEN [err |-> FALSE, flow |-> f]
  ELSE IF "word" \in DOMAIN fd
  THEN [err |-> FALSE,
        flow |-> [f EXCEPT !.protocol =
                    IF Spaced(fd, first) THEN Indented(fd.word) ELSE fd.word]]
  ELSE IF fd.eqs # 1 \/ fd.key \in Ignored THEN [err |-> FALSE, flow |-> f]
  ELSE CASE fd.key = "priority"     -> Set(f, "priority", ParseInt(fd.parts))
         [] fd.key = "cookie"       -> Set(f, "cookie", ParseCookie(fd.parts))
         [] fd.key = "in_port"      -> Set(f, "inPort", ParseInPort(fd.parts))
         [] fd.key = "idle_timeout" -> Set(f, "idleTimeout", ParseInt(fd.parts))
         [] fd.key = "table"        -> Set(f, "table", ParseInt(fd.parts))
         [] OTHER ->
              LET m == IF Spaced(fd, first) THEN Fail
                                            ELSE parseMatch(fd.key, fd.parts)
              IN  Set(f, "matches",
                      IF m.ok THEN Ok(Append(f.matches, m.val)) ELSE Fail)

\* Mutant: the Flow's earlier matches are kept.
ResetMatches_No(f) == f

\* f.Matches = make([]Match, 0).
ResetMatches(f) == [f EXCEPT !.matches = <<>>]

unmarshalFields(f, fields) ==
  LET after[n \in 0 .. Len(fields)] ==
        IF n = 0 THEN [err |-> FALSE, flow |-> ResetMatches(f)]
        ELSE IF after[n - 1].err THEN after[n - 1]
        ELSE unmarshalField(after[n - 1].flow, fields[n], n = 1)
  IN  after[Len(fields)]

\* The fields r, then the actions out, then the rule about drop.  A panic is
\* no error: nothing returns.
unmarshalActions(r, out) ==
  IF r.err THEN r
  ELSE IF out = Panic THEN [err |-> TRUE, panic |-> TRUE]
  ELSE IF ~out.ok THEN [err |-> TRUE, flow |-> r.flow]
  ELSE [err  |-> DropNotAlone(out.val.raw),
        flow |-> [r.flow EXCEPT !.actions = out.val.actions]]

\* Exactly one "actions=" with something after it.
Flow_UnmarshalText(f, text) ==
  IF Len(text.actions) # 1 \/ text.actions[1] = <<>>
  THEN [err |-> TRUE, flow |-> f]
  ELSE unmarshalActions(unmarshalFields(f, text.fields),
                        ParseActions(text.actions[1]))

----------------------------------------------------------------------------
\* Mutant: the cookie is left out.
Flow_MatchFlow_NoCookie(f) ==
  [MatchFlow EXCEPT !.protocol = f.protocol, !.inPort = f.inPort,
                    !.matches = f.matches, !.table = f.table]

\* Flow.MatchFlow.
Flow_MatchFlow(f) ==
  [MatchFlow EXCEPT !.protocol = f.protocol, !.inPort = f.inPort,
                    !.matches = f.matches, !.table = f.table,
                    !.cookie = f.cookie]

\* Nothing to match by is an error.
MatchFlow_MarshalText(f) ==
  LET matches == marshalMatches(f)
      fields  ==
        ProtocolField(f) \o InPortField(f) \o MatchFields(matches.val)
        \o (IF f.cookie = 0 THEN <<>>
            ELSE <<Field("cookie", <<hex(f.cookie),
                     IF f.cookieMask = 0 THEN dec(-1) ELSE hex(f.cookieMask)>>)>>)
        \o (IF f.table = AnyTable THEN <<>>
                                  ELSE <<Field("table", <<dec(f.table)>>)>>)
  IN  IF matches.ok /\ fields # <<>> THEN Ok(fields) ELSE Fail
=============================================================================
