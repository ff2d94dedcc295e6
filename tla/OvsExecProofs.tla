--------------------------- MODULE OvsExecProofs ----------------------------
(***************************************************************************)
(* Programs that package ovs runs: the commands of any number of goroutines *)
(* on one client keep their arguments, and what a nil error of AddFlowBundle *)
(* means for any number of calls and any pipes.                            *)
(***************************************************************************)
EXTENDS Commands, FlowBundle, SequenceTheorems, TLAPS

----------------------------------------------------------------------------
(* Commands.                                                              *)

\* The words a caller has built so far.
SoFar(t) == IF pc[t] = "port" THEN Appended(op[t]) ELSE op[t].words

\* Nobody may write where caller t has its words.
Safe(t) == t \notin overlapped \/ ~Fits(Len(Appended(op[t])))

\* A slice is shared only by dumps, and only where there is room; what it
\* holds are the caller's words, up to exec and in the command.
Own(t) ==
  /\ pc[t] \in {"idle", "append", "port", "exec"} => argv[t] = <<>>
  /\ pc[t] = "port" => op[t].cmd = "dump-port"
  /\ pc[t] \in {"port", "exec"} /\ args[t].shared =>
       /\ Appends(op[t]) /\ Fits(Len(Appended(op[t]))) /\ Fits(Len(SoFar(t)))
       /\ args[t] = [shared |-> TRUE, own |-> <<>>, len |-> Len(SoFar(t))]
  /\ pc[t] \in {"port", "exec"} /\ Safe(t) => Contents(args[t]) = SoFar(t)
  /\ argv[t] # <<>> /\ Safe(t) => argv[t] = op[t].words

\* Of two callers between append and exec each has met the other.
Apart ==
  \A t, u \in Callers : t # u /\ Preparing(t) /\ Preparing(u) => t \in overlapped

CommandsInv ==
  /\ ofctlFlags \in ClientFlags
  /\ spare = [i \in 1 .. Spare |-> spare[i]]
  /\ DOMAIN pc = Callers /\ pc = [t \in Callers |-> pc[t]]
  /\ op \in [Callers -> Operations \cup {NoOp}]
  /\ args = [t \in Callers |-> args[t]]
  /\ argv = [t \in Callers |-> argv[t]]
  /\ \A t \in Callers : pc[t] \in {"append", "port", "exec"} => op[t] # NoOp
  /\ Apart
  /\ \A t \in Callers : Own(t)

----------------------------------------------------------------------------
\* Flags have a length and a capacity.
LEMMA SpareIsInt == ofctlFlags \in ClientFlags => Spare \in Int
<1> DEFINE Sized == [len : Int, cap : Int]
<1>1. \A s \in Sized, n \in Int : Grown(s, n) \in Sized
  BY DEF Grown
<1>2. [len |-> 0, cap |-> 0] \in Sized
  OBVIOUS
<1>3. Sized = [len : Int, cap : Int]
  OBVIOUS
<1> HIDE DEF Sized
<1>4. ClientFlags \subseteq Sized
  BY <1>1, <1>2 DEF ClientFlags
<1> QED
  BY <1>3, <1>4 DEF Spare

\* Two of three words, and the third behind them.
LEMMA ThreeWords ==
  ASSUME NEW a, NEW b, NEW c
  PROVE  SubSeq(<<a, b, c>>, 1, 2) = <<a, b>> /\ Append(<<a, b>>, c) = <<a, b, c>>
<1> DEFINE S == {a, b, c}
           w == <<a, b, c>>
           v == SubSeq(w, 1, 2)
           u == Append(<<a, b>>, c)
<1>1. /\ w \in Seq(S) /\ <<a, b>> \in Seq(S) /\ Len(<<a, b>>) = 2 /\ Len(w) = 3
      /\ w[1] = a /\ w[2] = b /\ w[3] = c
  OBVIOUS
<1>2. \A i \in 1 .. 2 : i = 1 \/ i = 2
  OBVIOUS
<1>3. \A i \in 1 .. 3 : i = 1 \/ i = 2 \/ i = 3
  OBVIOUS
<1>4. /\ v \in Seq(S) /\ Len(v) = IF 1 <= 2 THEN 2 - 1 + 1 ELSE 0
      /\ \A i \in 1 .. 2 - 1 + 1 : v[i] = w[1 + i - 1]
  <2>1. \A i \in 1 .. 2 : w[i] \in S
    BY <1>1, <1>2
  <2> HIDE DEF S, w
  <2> QED
    BY <2>1, SubSeqProperties
<1>5. /\ u \in Seq(S) /\ Len(u) = Len(<<a, b>>) + 1
      /\ \A i \in 1 .. Len(<<a, b>>) : u[i] = <<a, b>>[i]
      /\ u[Len(<<a, b>>) + 1] = c
  BY <1>1, AppendProperties
<1> HIDE DEF S, w, v, u
<1>6. Len(v) = 2 /\ v[1] = w[1] /\ v[2] = w[2]
  BY <1>4
<1>7. v = <<a, b>>
  BY <1>1, <1>2, <1>4, <1>6, SeqEqual
<1>8. Len(u) = 3 /\ u[1] = a /\ u[2] = b /\ u[3] = c
  BY <1>1, <1>5
<1>9. u = w
  BY <1>1, <1>3, <1>5, <1>8, SeqEqual
<1> QED
  BY <1>7, <1>9 DEF v, u, w

\* The words of an operation: those of the first append are all of them, or
\* all but the port.
LEMMA WordsAppended ==
  ASSUME NEW o \in Operations
  PROVE  /\ Len(Appended(o)) \in Nat
         /\ Appended(o) = [i \in 1 .. Len(Appended(o)) |-> Appended(o)[i]]
         /\ o.cmd # "dump-port" => Appended(o) = o.words
         /\ o.cmd = "dump-port" =>
              /\ Append(Appended(o), "port") = o.words
              /\ Len(Appended(o)) = 2 /\ Len(o.words) = 3 /\ Appends(o)
              /\ \A f : f[1] = Appended(o)[1] /\ f[2] = Appended(o)[2]
                          => [i \in 1 .. 3 |-> IF i = 3 THEN "port" ELSE f[i]] = o.words
<1>1. ASSUME NEW b \in Callers,
             o = [cmd |-> "dump-port", words |-> <<"dump-ports", b, "port">>]
      PROVE  Appended(o) = <<"dump-ports", b>>
  BY <1>1, ThreeWords DEF Appended
<1>2. \/ o.cmd = "dump-port" /\ \E b \in Callers :
           o = [cmd |-> "dump-port", words |-> <<"dump-ports", b, "port">>]
      \/ /\ o.cmd # "dump-port" /\ Len(o.words) \in Nat
         /\ o.words = [i \in 1 .. Len(o.words) |-> o.words[i]]
  BY DEF Operations
<1>3. CASE /\ o.cmd # "dump-port" /\ Len(o.words) \in Nat
           /\ o.words = [i \in 1 .. Len(o.words) |-> o.words[i]]
  BY <1>3 DEF Appended
<1>4. ASSUME NEW b \in Callers,
             o = [cmd |-> "dump-port", words |-> <<"dump-ports", b, "port">>]
      PROVE  /\ Len(Appended(o)) = 2 /\ Len(o.words) = 3
             /\ Appended(o) = [i \in 1 .. Len(Appended(o)) |-> Appended(o)[i]]
             /\ Append(Appended(o), "port") = o.words /\ o.cmd = "dump-port"
             /\ Appends(o)
             /\ \A f : f[1] = Appended(o)[1] /\ f[2] = Appended(o)[2]
                  => [i \in 1 .. 3 |-> IF i = 3 THEN "port" ELSE f[i]] = o.words
  <2>1. Appended(o) = <<"dump-ports", b>>
    BY <1>1, <1>4
  <2>2. Append(<<"dump-ports", b>>, "port") = <<"dump-ports", b, "port">>
    BY ThreeWords
  <2>3. ASSUME NEW f, f[1] = "dump-ports", f[2] = b
        PROVE  [i \in 1 .. 3 |-> IF i = 3 THEN "port" ELSE f[i]]
                 = <<"dump-ports", b, "port">>
    BY <2>3
  <2>4. /\ Len(<<"dump-ports", b>>) = 2 /\ Len(<<"dump-ports", b, "port">>) = 3
        /\ <<"dump-ports", b>> = [i \in 1 .. 2 |-> <<"dump-ports", b>>[i]]
        /\ <<"dump-ports", b>>[1] = "dump-ports" /\ <<"dump-ports", b>>[2] = b
    OBVIOUS
  <2>5. o.words = <<"dump-ports", b, "port">> /\ o.cmd = "dump-port" /\ Appends(o)
    BY <1>4 DEF Appends
  <2> QED
    BY <2>1, <2>2, <2>3, <2>4, <2>5
<1> QED
  BY <1>2, <1>3, <1>4

----------------------------------------------------------------------------
\* A step of caller t leaves another caller's words alone: it writes behind
\* the flags only where the other has none, or once the two have met.
LEMMA OthersKept ==
  ASSUME CommandsInv, NEW t \in Callers, NEW u \in Callers, u # t,
         ofctlFlags' = ofctlFlags, overlapped \subseteq overlapped',
         pc'[u] = pc[u], op'[u] = op[u], args'[u] = args[u], argv'[u] = argv[u],
         spare' = spare \/ (Preparing(u) => u \in overlapped')
  PROVE  Own(u)'
<1>1. Own(u)
  BY DEF CommandsInv
<1>2. /\ SoFar(u)' = SoFar(u) /\ (\A n : Fits(n)' <=> Fits(n))
      /\ Appended(op[u])' = Appended(op[u]) /\ (Appends(op[u])' <=> Appends(op[u]))
  BY DEF SoFar, Fits, Spare, Appended, Appends
<1>3. Safe(u)' => Safe(u)
  BY <1>2 DEF Safe
<1>4. ASSUME pc[u] \in {"port", "exec"}, Safe(u)'
      PROVE  Contents(args[u])' = Contents(args[u])
  <2>1. CASE ~args[u].shared
    BY <2>1 DEF Contents
  <2>2. CASE spare' = spare
    BY <2>2 DEF Contents
  <2>3. CASE args[u].shared /\ spare' # spare
    <3>1. Preparing(u) /\ Fits(Len(Appended(op[u])))
      BY <1>1, <1>4, <2>3 DEF Own, Preparing
    <3> QED
      BY <1>2, <1>4, <2>3, <3>1 DEF Safe
  <2> QED
    BY <2>1, <2>2, <2>3
<1> QED
  BY <1>1, <1>2, <1>3, <1>4 DEF Own

\* Whoever appends meets all that are between append and exec.
LEMMA OverlapKept ==
  ASSUME CommandsInv, NEW t \in Callers, Overlap(t), op' = op,
         pc[t] = "append", NEW q \in {"port", "exec"},
         pc' = [pc EXCEPT ![t] = q]
  PROVE  /\ overlapped \subseteq overlapped' /\ Apart'
         /\ Appends(op[t]) =>
              \A u \in Callers : u # t /\ Preparing(u) => u \in overlapped'
<1>1. \A u \in Callers : u # t => (Preparing(u)' <=> Preparing(u))
  BY DEF Preparing, CommandsInv, Appends
<1>2. Preparing(t)' <=> Appends(op[t])
  BY DEF Preparing, CommandsInv, Appends
<1>3. overlapped \subseteq overlapped'
  BY DEF Overlap
<1>4. Appends(op[t]) => \A u \in Callers : u # t /\ Preparing(u) =>
        u \in overlapped' /\ t \in overlapped'
  BY DEF Overlap
<1>5. ASSUME NEW v \in Callers, NEW u \in Callers, v # u, Preparing(v)', Preparing(u)'
      PROVE  v \in overlapped'
  <2>1. CASE v # t /\ u # t
    BY <1>1, <1>3, <1>5, <2>1 DEF CommandsInv, Apart
  <2>2. CASE v = t \/ u = t
    BY <1>1, <1>2, <1>4, <1>5, <2>2
  <2> QED
    BY <2>1, <2>2
<1> QED
  BY <1>3, <1>4, <1>5 DEF Apart

\* A step that appends nothing brings nobody between append and exec.
LEMMA ApartKept ==
  ASSUME CommandsInv, NEW t \in Callers, overlapped' = overlapped,
         \A u \in Callers : Preparing(u)' => Preparing(u)
  PROVE  Apart'
BY DEF CommandsInv, Apart

\* Every step keeps CommandsInv.
LEMMA StepKept ==
  ASSUME CommandsInv, NEW t \in Callers,
         Call(t) \/ AppendArgs(t) \/ AppendPort(t) \/ Exec(t) \/ ExecReturns(t)
  PROVE  CommandsInv'
<1>1. ofctlFlags' = ofctlFlags
  BY DEF Call, AppendArgs, AppendPort, Exec, ExecReturns
<1>2. Spare \in Int /\ Spare' = Spare /\ \A n : Fits(n)' <=> Fits(n)
  BY <1>1, SpareIsInt DEF CommandsInv, Spare, Fits
<1>3. Own(t) /\ op[t] \in Operations \cup {NoOp}
  BY DEF CommandsInv
<1>4. pc[t] \in {"append", "port", "exec"} =>
        /\ op[t] \in Operations /\ Len(Appended(op[t])) \in Nat
        /\ Appended(op[t]) = [i \in 1 .. Len(Appended(op[t])) |-> Appended(op[t])[i]]
        /\ op[t].cmd # "dump-port" => Appended(op[t]) = op[t].words
  BY WordsAppended DEF CommandsInv
<1>5. ASSUME Call(t) PROVE CommandsInv'
  <2>1. PICK o \in Operations :
          /\ pc[t] = "idle" /\ op' = [op EXCEPT ![t] = o]
          /\ \E q \in {"done", "append"} : pc' = [pc EXCEPT ![t] = q]
          /\ UNCHANGED <<spare, args, argv, overlapped>>
    BY <1>5 DEF Call
  <2>2. \A u \in Callers : u # t => /\ pc'[u] = pc[u] /\ op'[u] = op[u]
                                    /\ args'[u] = args[u] /\ argv'[u] = argv[u]
    BY <2>1 DEF CommandsInv
  <2>3. o # NoOp
    BY DEF Operations, NoOp
  <2>4. argv'[t] = <<>> /\ pc'[t] \in {"done", "append"} /\ op'[t] = o
    BY <1>3, <2>1 DEF CommandsInv, Own
  <2>5. Own(t)'
    BY <2>4 DEF Own
  <2>6. \A u \in Callers : Own(u)'
    BY <1>1, <2>1, <2>2, <2>5, OthersKept
  <2>7. \A u \in Callers : Preparing(u)' => Preparing(u)
    BY <2>2, <2>4 DEF Preparing, Appends
  <2>8. Apart'
    BY <2>1, <2>7, ApartKept
  <2> QED
    BY <1>1, <1>2, <2>1, <2>2, <2>3, <2>4, <2>6, <2>8 DEF CommandsInv
<1>6. ASSUME AppendArgs(t) PROVE CommandsInv'
  <2> DEFINE q == IF op[t].cmd = "dump-port" THEN "port" ELSE "exec"
             new == Appended(op[t])
             n == Len(new)
  <2>1. /\ pc[t] = "append" /\ pc' = [pc EXCEPT ![t] = q] /\ Overlap(t)
        /\ UNCHANGED <<op, argv>> /\ q \in {"port", "exec"}
    BY <1>6 DEF AppendArgs
  <2>2. \/ /\ Appends(op[t]) /\ Fits(n)
           /\ spare' = [i \in DOMAIN spare |-> IF i <= n THEN new[i] ELSE spare[i]]
           /\ args' = [args EXCEPT ![t] = [shared |-> TRUE, own |-> <<>>, len |-> n]]
        \/ /\ spare' = spare
           /\ args' = [args EXCEPT ![t] = [shared |-> FALSE, own |-> new, len |-> n]]
    BY <1>6 DEF AppendArgs
  <2>3. /\ overlapped \subseteq overlapped' /\ Apart'
        /\ Appends(op[t]) =>
              \A u \in Callers : u # t /\ Preparing(u) => u \in overlapped'
    BY <2>1, OverlapKept
  <2>4. \A u \in Callers : u # t => /\ pc'[u] = pc[u] /\ op'[u] = op[u]
                                    /\ args'[u] = args[u] /\ argv'[u] = argv[u]
    BY <2>1, <2>2 DEF CommandsInv
  <2>5. \A u \in Callers : u # t => Own(u)'
    BY <1>1, <2>2, <2>3, <2>4, OthersKept
  <2>6. n \in Nat /\ new = [i \in 1 .. n |-> new[i]]
    BY <1>4, <2>1
  <2>7. /\ pc'[t] = q /\ argv'[t] = <<>> /\ op' = op /\ SoFar(t)' = new
        /\ q = "port" => op[t].cmd = "dump-port"
    BY <1>3, <1>4, <2>1 DEF CommandsInv, Own, SoFar, Appended
  <2>8. /\ args'[t].shared => /\ Appends(op[t]) /\ Fits(n)
                             /\ args'[t] = [shared |-> TRUE, own |-> <<>>, len |-> n]
        /\ Contents(args[t])' = new
    <3>1. CASE /\ Appends(op[t]) /\ Fits(n)
               /\ spare' = [i \in DOMAIN spare |-> IF i <= n THEN new[i] ELSE spare[i]]
               /\ args' = [args EXCEPT ![t] =
                             [shared |-> TRUE, own |-> <<>>, len |-> n]]
      <4>1. args'[t] = [shared |-> TRUE, own |-> <<>>, len |-> n]
        BY <3>1 DEF CommandsInv
      <4>2. DOMAIN spare = 1 .. Spare /\ n <= Spare
        BY <3>1 DEF CommandsInv, Fits
      <4>3. \A i \in 1 .. n : spare'[i] = new[i]
        BY <1>2, <2>6, <3>1, <4>2
      <4>4. Contents(args[t])' = [i \in 1 .. n |-> spare'[i]]
        BY <4>1 DEF Contents
      <4>5. [i \in 1 .. n |-> spare'[i]] = [i \in 1 .. n |-> new[i]]
        BY <4>3
      <4> QED
        BY <2>6, <3>1, <4>1, <4>4, <4>5
    <3>2. CASE args' = [args EXCEPT ![t] = [shared |-> FALSE, own |-> new, len |-> n]]
      <4>1. args'[t] = [shared |-> FALSE, own |-> new, len |-> n]
        BY <3>2 DEF CommandsInv
      <4> QED
        BY <4>1 DEF Contents
    <3> QED
      BY <2>2, <3>1, <3>2
  <2>9. Own(t)'
    <3>1. /\ Appended(op[t])' = new /\ (Appends(op[t])' <=> Appends(op[t]))
          /\ Len(SoFar(t))' = n
      BY <2>7 DEF Appended, Appends
    <3> HIDE DEF new, n, q
    <3>2. n = Len(new)
      BY DEF n
    <3> QED
      BY <1>2, <2>1, <2>7, <2>8, <3>1, <3>2 DEF Own
  <2>10. spare' = [i \in 1 .. Spare' |-> spare'[i]]
    BY <1>2, <2>2 DEF CommandsInv
  <2>11. args' = [u \in Callers |-> args'[u]]
    BY <2>2 DEF CommandsInv
  <2>12. /\ DOMAIN pc' = Callers /\ pc' = [u \in Callers |-> pc'[u]]
         /\ argv' = [u \in Callers |-> argv'[u]]
         /\ \A u \in Callers : pc'[u] \in {"append", "port", "exec"} => op'[u] # NoOp
    BY <2>1, <2>4 DEF CommandsInv
  <2> QED
    BY <1>1, <2>1, <2>3, <2>5, <2>9, <2>10, <2>11, <2>12 DEF CommandsInv
<1>7. ASSUME AppendPort(t) PROVE CommandsInv'
  <2>1. /\ pc[t] = "port" /\ pc' = [pc EXCEPT ![t] = "exec"]
        /\ UNCHANGED <<op, argv, overlapped>>
    BY <1>7 DEF AppendPort
  <2>2. \/ /\ args[t].shared /\ Fits(3)
           /\ spare' = [spare EXCEPT ![3] = "port"]
           /\ args' = [args EXCEPT ![t] = [shared |-> TRUE, own |-> <<>>, len |-> 3]]
        \/ /\ spare' = spare
           /\ args' = [args EXCEPT ![t] =
                         [shared |-> FALSE, len |-> 3,
                          own |-> Append(Contents(args[t]), "port")]]
    BY <1>7 DEF AppendPort
  <2>3. \A u \in Callers : u # t => /\ pc'[u] = pc[u] /\ op'[u] = op[u]
                                    /\ args'[u] = args[u] /\ argv'[u] = argv[u]
    BY <2>1, <2>2 DEF CommandsInv
  <2>4. /\ op[t] \in Operations /\ op[t].cmd = "dump-port"
        /\ Append(Appended(op[t]), "port") = op[t].words
        /\ Len(Appended(op[t])) = 2 /\ Len(op[t].words) = 3 /\ Appends(op[t])
        /\ \A f : f[1] = Appended(op[t])[1] /\ f[2] = Appended(op[t])[2] =>
             [i \in 1 .. 3 |-> IF i = 3 THEN "port" ELSE f[i]] = op[t].words
    BY <1>3, <1>4, <2>1, WordsAppended DEF Own
  <2>5. args[t].shared => \A u \in Callers : u # t /\ Preparing(u) => u \in overlapped
    BY <2>1, <2>4 DEF CommandsInv, Apart, Preparing
  <2>6. \A u \in Callers : u # t => Own(u)'
    <3>1. CASE spare' = spare
      BY <1>1, <2>1, <2>3, <3>1, OthersKept
    <3>2. CASE args[t].shared
      BY <1>1, <2>1, <2>3, <2>5, <3>2, OthersKept
    <3> QED
      BY <2>2, <3>1, <3>2
  <2>7. /\ pc'[t] = "exec" /\ argv'[t] = <<>> /\ op' = op
        /\ SoFar(t)' = op[t].words /\ SoFar(t) = Appended(op[t])
    BY <1>3, <2>1 DEF CommandsInv, Own, SoFar
  <2>8. (Safe(t)' <=> Safe(t)) /\ (Safe(t) => Contents(args[t]) = Appended(op[t]))
    BY <1>2, <1>3, <2>1, <2>7 DEF Safe, Own
  <2>9. /\ args'[t].shared => /\ Fits(2) /\ Fits(3)
                             /\ args'[t] = [shared |-> TRUE, own |-> <<>>, len |-> 3]
        /\ Safe(t) => Contents(args[t])' = op[t].words
    <3>1. CASE /\ args[t].shared /\ Fits(3)
               /\ spare' = [spare EXCEPT ![3] = "port"]
               /\ args' = [args EXCEPT ![t] = [shared |-> TRUE, own |-> <<>>, len |-> 3]]
      <4>1. /\ args[t] = [shared |-> TRUE, own |-> <<>>, len |-> 2]
            /\ args'[t] = [shared |-> TRUE, own |-> <<>>, len |-> 3]
        <5>1. args[t] = [shared |-> TRUE, own |-> <<>>, len |-> 2]
          BY <1>3, <2>1, <2>4, <2>7, <3>1 DEF Own
        <5> QED
          BY <3>1, <5>1 DEF CommandsInv
      <4>2. 3 <= Spare /\ DOMAIN spare = 1 .. Spare
        BY <3>1 DEF CommandsInv, Fits
      <4>3. \A i \in 1 .. 3 : spare'[i] = IF i = 3 THEN "port" ELSE spare[i]
        BY <1>2, <3>1, <4>2
      <4>4. Contents(args[t])' = [i \in 1 .. 3 |-> IF i = 3 THEN "port" ELSE spare[i]]
        BY <3>1, <4>1, <4>3 DEF Contents
      <4>5. ASSUME Safe(t)
            PROVE  spare[1] = Appended(op[t])[1] /\ spare[2] = Appended(op[t])[2]
        <5>1. [i \in 1 .. 2 |-> spare[i]] = Appended(op[t])
          BY <2>8, <4>1, <4>5 DEF Contents
        <5> QED
          BY <5>1
      <4>6. Fits(2)
        BY <1>3, <2>1, <2>4, <3>1 DEF Own
      <4>7. Safe(t) => [i \in 1 .. 3 |-> IF i = 3 THEN "port" ELSE spare[i]] = op[t].words
        BY <2>4, <4>5
      <4> QED
        BY <3>1, <4>1, <4>4, <4>6, <4>7
    <3>2. CASE args' = [args EXCEPT ![t] =
                          [shared |-> FALSE, len |-> 3,
                           own |-> Append(Contents(args[t]), "port")]]
      <4>1. args'[t] = [shared |-> FALSE, len |-> 3,
                        own |-> Append(Contents(args[t]), "port")]
        BY <3>2 DEF CommandsInv
      <4>2. ASSUME NEW w, args'[t] = [shared |-> FALSE, len |-> 3, own |-> w]
            PROVE  Contents(args[t])' = w
        BY <4>2 DEF Contents
      <4>3. Contents(args[t])' = Append(Contents(args[t]), "port")
        BY <4>1, <4>2, Zenon
      <4>4. Safe(t) => Contents(args[t])' = op[t].words
        BY <2>4, <2>8, <4>3
      <4>5. ~args'[t].shared
        BY <4>1
      <4> QED
        BY <4>4, <4>5, Zenon
    <3> QED
      BY <2>2, <3>1, <3>2
  <2>10. Own(t)'
    <3>1. /\ Appended(op[t])' = Appended(op[t]) /\ Appends(op[t])'
          /\ Len(SoFar(t))' = 3
      BY <2>4, <2>7 DEF Appended, Appends
    <3> QED
      BY <1>2, <2>1, <2>4, <2>7, <2>8, <2>9, <3>1 DEF Own
  <2>11. \A u \in Callers : Preparing(u)' => Preparing(u)
    BY <2>1, <2>3, <2>4 DEF Preparing, Appends
  <2>12. Apart'
    BY <2>1, <2>11, ApartKept
  <2>13. spare' = [i \in 1 .. Spare' |-> spare'[i]]
    BY <1>2, <2>2 DEF CommandsInv
  <2>14. args' = [u \in Callers |-> args'[u]]
    BY <2>2 DEF CommandsInv
  <2>15. /\ DOMAIN pc' = Callers /\ pc' = [u \in Callers |-> pc'[u]]
         /\ argv' = [u \in Callers |-> argv'[u]]
         /\ \A u \in Callers : pc'[u] \in {"append", "port", "exec"} => op'[u] # NoOp
    BY <2>1, <2>3 DEF CommandsInv
  <2> QED
    BY <1>1, <2>1, <2>6, <2>10, <2>12, <2>13, <2>14, <2>15 DEF CommandsInv
<1>8. ASSUME Exec(t) PROVE CommandsInv'
  <2>1. /\ pc[t] = "exec" /\ pc' = [pc EXCEPT ![t] = "running"]
        /\ argv' = [argv EXCEPT ![t] = Contents(args[t])]
        /\ UNCHANGED <<spare, op, args, overlapped>>
    BY <1>8 DEF Exec
  <2>2. \A u \in Callers : u # t => /\ pc'[u] = pc[u] /\ op'[u] = op[u]
                                    /\ args'[u] = args[u] /\ argv'[u] = argv[u]
    BY <2>1 DEF CommandsInv
  <2>3. /\ pc'[t] = "running" /\ op' = op /\ argv'[t] = Contents(args[t])
        /\ SoFar(t) = op[t].words
    BY <2>1 DEF CommandsInv, SoFar
  <2>4. Safe(t)' => Safe(t)
    BY <1>2, <2>1 DEF Safe
  <2>5. Own(t)'
    BY <1>3, <2>1, <2>3, <2>4 DEF Own
  <2>6. \A u \in Callers : Own(u)'
    BY <1>1, <2>1, <2>2, <2>5, OthersKept
  <2>7. argv' = [u \in Callers |-> argv'[u]] /\ args' = [u \in Callers |-> args'[u]]
    BY <2>1 DEF CommandsInv
  <2>8. pc' = [u \in Callers |-> pc'[u]] /\ DOMAIN pc' = Callers
    BY <2>1 DEF CommandsInv
  <2>9. \A u \in Callers : pc'[u] \in {"append", "port", "exec"} => op'[u] # NoOp
    BY <2>1, <2>2, <2>3 DEF CommandsInv
  <2>10. \A u \in Callers : Preparing(u)' => Preparing(u)
    BY <2>1, <2>2, <2>3 DEF Preparing, Appends
  <2>11. Apart'
    BY <2>1, <2>10, ApartKept
  <2> QED
    BY <1>1, <1>2, <2>1, <2>6, <2>7, <2>8, <2>9, <2>11 DEF CommandsInv
<1>9. ASSUME ExecReturns(t) PROVE CommandsInv'
  <2>1. /\ pc[t] = "running" /\ pc' = [pc EXCEPT ![t] = "done"]
        /\ UNCHANGED <<spare, op, args, argv, overlapped>>
    BY <1>9 DEF ExecReturns
  <2>2. \A u \in Callers : u # t => /\ pc'[u] = pc[u] /\ op'[u] = op[u]
                                    /\ args'[u] = args[u] /\ argv'[u] = argv[u]
    BY <2>1 DEF CommandsInv
  <2>3. pc'[t] = "done" /\ op' = op /\ argv' = argv
    BY <2>1 DEF CommandsInv
  <2>4. Safe(t)' => Safe(t)
    BY <1>2, <2>1 DEF Safe
  <2>5. Own(t)'
    BY <1>3, <2>3, <2>4 DEF Own
  <2>6. \A u \in Callers : Own(u)'
    BY <1>1, <2>1, <2>2, <2>5, OthersKept
  <2>7. \A u \in Callers : Preparing(u)' => Preparing(u)
    BY <2>1, <2>2, <2>3 DEF Preparing, Appends
  <2>8. Apart'
    BY <2>1, <2>7, ApartKept
  <2> QED
    BY <1>1, <1>2, <2>1, <2>2, <2>6, <2>8 DEF CommandsInv
<1> QED
  BY <1>5, <1>6, <1>7, <1>8, <1>9

\* For any number of goroutines that share a client, with any of its options
\* and whatever capacity they leave behind its flags: a command that was not
\* built at the same time as another, or whose words do not fit there, runs
\* with its caller's own words.
THEOREM CommandsIntact == CommandsSpec => []CommandIntact
<1>1. CommandsInit => CommandsInv
  <2> SUFFICES ASSUME CommandsInit PROVE CommandsInv
    OBVIOUS
  <2>1. spare = [i \in 1 .. Spare |-> spare[i]]
    BY DEF CommandsInit, Spare
  <2>2. Apart /\ \A t \in Callers : Own(t)
    BY DEF CommandsInit, Apart, Own, Preparing
  <2> QED
    BY <2>1, <2>2 DEF CommandsInit, CommandsInv
<1>2. CommandsInv /\ [CommandsNext]_commandVars => CommandsInv'
  <2> SUFFICES ASSUME CommandsInv, [CommandsNext]_commandVars PROVE CommandsInv'
    OBVIOUS
  <2>1. CASE CommandsNext
    BY <2>1, StepKept DEF CommandsNext
  <2>2. CASE UNCHANGED commandVars
    <3>1. \A t \in Callers : Own(t) <=> Own(t)'
      BY <2>2 DEF commandVars, Own, SoFar, Safe, Fits, Spare, Contents,
         Appended, Appends
    <3> QED
      BY <2>2, <3>1 DEF commandVars, CommandsInv, Apart, Preparing, Spare, Appends
  <2> QED
    BY <2>1, <2>2
<1>3. CommandsInv => CommandIntact
  BY DEF CommandsInv, Own, Safe, CommandIntact
<1> QED
  BY <1>1, <1>2, <1>3, PTL DEF CommandsSpec

----------------------------------------------------------------------------
(* AddFlowBundle.                                                         *)

Entries  == [directive : {"add", "delete"}, flow : {"good", "bad"}]
Children == [st : {"none", "reading", "out", "err", "exited"},
             in : Seq(Entries), open : BOOLEAN, out : Int, err : Int,
             wrote : [out : Int, err : Int], read : Seq(Entries),
             applied : BOOLEAN, code : {0, 1}]

TypeInv ==
  /\ at \in {"idle", "fn", "copy", "out", "err", "wait", "done"}
  /\ returned \in {"none", "nil", "error"}
  /\ tx \in [flows : Seq(Entries), committed : BOOLEAN, err : BOOLEAN]
  /\ asked \in Seq(Entries) /\ late \in BOOLEAN
  /\ buf \in Seq(Entries) /\ child \in Children

\* Until an error, the transaction holds what was asked of it; what was asked
\* before Commit, and no more, if nothing was asked after it.
TxInv ==
  /\ ~tx.committed /\ ~tx.err => tx.flows = asked
  /\ tx.committed /\ ~late => tx.flows = asked /\ ~tx.err

\* Every flow of the transaction has been read, is in the pipe or is still to
\* be copied, in that order.
PipeInv ==
  /\ at \in {"idle", "fn"} => child = NoChild /\ returned = "none"
  /\ at \in {"copy", "out", "err", "wait"} => child.st # "none"
  /\ child.st # "none" =>
       /\ tx.committed
       /\ child.read \o child.in \o buf = tx.flows
       /\ ~child.open => buf = <<>>
  /\ child.applied => child.st = "exited" /\ child.read = tx.flows
  /\ child.st = "exited" /\ child.code = 0 => child.applied
  /\ returned = "nil" => child.st = "exited" /\ child.code = 0

BundleInv == TypeInv /\ TxInv /\ PipeInv

----------------------------------------------------------------------------
\* What NilMeansApplied asks for follows.
LEMMA BundleInvImplies == BundleInv => NilMeansApplied
BY DEF BundleInv, TypeInv, TxInv, PipeInv, NilMeansApplied, Children

\* The state without a process.
LEMMA NoChildType == NoChild \in Children
<1>1. <<>> \in Seq(Entries)
  OBVIOUS
<1>2. [out |-> 0, err |-> 0] \in [out : Int, err : Int]
  OBVIOUS
<1> QED
  BY <1>1, <1>2 DEF NoChild, Children

\* Before AddFlowBundle is called.
LEMMA IndInit == BundleInit => BundleInv
<1> SUFFICES ASSUME BundleInit PROVE BundleInv
  OBVIOUS
<1>1. <<>> \in Seq(Entries)
  OBVIOUS
<1>2. NewTx \in [flows : Seq(Entries), committed : BOOLEAN, err : BOOLEAN]
  BY <1>1 DEF NewTx
<1>3. TypeInv
  BY <1>1, <1>2, NoChildType DEF BundleInit, TypeInv
<1>4. TxInv /\ PipeInv
  BY DEF BundleInit, TxInv, PipeInv, NewTx, NoChild
<1> QED
  BY <1>3, <1>4 DEF BundleInv

----------------------------------------------------------------------------
(* The calls on the transaction.                                           *)

\* The lists the function passes to Add and Delete.
LEMMA FlowListType ==
  ASSUME NEW fs \in FlowLists
  PROVE  fs \in Seq({"good", "bad"}) /\ Len(fs) \in 0 .. 2
<1>1. /\ <<>> \in Seq({"good", "bad"}) /\ Len(<<>>) = 0
      /\ <<"good">> \in Seq({"good", "bad"}) /\ Len(<<"good">>) = 1
      /\ <<"bad">> \in Seq({"good", "bad"}) /\ Len(<<"bad">>) = 1
  OBVIOUS
<1>2. /\ <<"good", "bad">> \in Seq({"good", "bad"})
      /\ Len(<<"good", "bad">>) = 2
      /\ <<"good", "good">> \in Seq({"good", "bad"})
      /\ Len(<<"good", "good">>) = 2
  OBVIOUS
<1>3. \/ fs = <<>> \/ fs = <<"good">> \/ fs = <<"bad">>
      \/ fs = <<"good", "bad">> \/ fs = <<"good", "good">>
  BY DEF FlowLists
<1>4. Len(fs) = 0 \/ Len(fs) = 1 \/ Len(fs) = 2
  BY <1>1, <1>2, <1>3
<1>5. fs \in Seq({"good", "bad"})
  BY <1>1, <1>2, <1>3
<1> QED
  BY <1>4, <1>5

\* The entries made of a list of flows.
LEMMA DirectivesType ==
  ASSUME NEW d \in {"add", "delete"}, NEW fs \in Seq({"good", "bad"})
  PROVE  Directives(d, fs) \in Seq(Entries)
<1> DEFINE e == [i \in DOMAIN fs |-> [directive |-> d, flow |-> fs[i]]]
<1>1. Len(fs) \in Nat /\ DOMAIN fs = 1 .. Len(fs)
  BY LenProperties
<1>2. \A i \in DOMAIN fs : fs[i] \in {"good", "bad"}
  BY <1>1, ElementOfSeq
<1>3. e \in [1 .. Len(fs) -> Entries]
  BY <1>1, <1>2 DEF Entries
<1>4. e \in Seq(Entries)
  BY <1>1, <1>3, SeqDef
<1> QED
  BY <1>4 DEF Directives

\* push: all of the flows, or those before the first that does not marshal
\* and an error.
LEMMA PushEffect ==
  ASSUME NEW d \in {"add", "delete"}, NEW fs \in FlowLists, TypeInv, ~tx.err
  PROVE  /\ push(d, fs) \in [flows : Seq(Entries), committed : BOOLEAN,
                             err : BOOLEAN]
         /\ push(d, fs).committed = tx.committed
         /\ ~push(d, fs).err =>
              push(d, fs).flows = tx.flows \o Directives(d, fs)
         /\ Directives(d, fs) \in Seq(Entries)
<1>1. fs \in Seq({"good", "bad"}) /\ Len(fs) \in 0 .. 2
  BY FlowListType
<1>2. DOMAIN fs = 1 .. Len(fs) /\ Len(fs) \in Nat
  BY <1>1, LenProperties
<1> DEFINE bad == {i \in DOMAIN fs : ~Marshals(d, fs[i])}
           n   == IF bad = {} THEN Len(fs)
                  ELSE (CHOOSE i \in bad : \A j \in bad : i <= j) - 1
           end == tx.flows \o Directives(d, SubSeq(fs, 1, n))
<1>3. push(d, fs) = [tx EXCEPT !.flows = end, !.err = bad # {}]
  BY DEF push
<1>4. n \in 0 .. Len(fs)
  <2>1. CASE bad = {}
    BY <1>2, <2>1
  <2>2. CASE bad # {}
    <3>1. bad \subseteq 1 .. Len(fs) /\ \A i \in bad : i = 1 \/ i = 2
      BY <1>1, <1>2
    <3> HIDE DEF bad
    <3>2. \E i \in bad : \A j \in bad : i <= j
      <4>1. CASE 1 \in bad
        BY <3>1, <4>1
      <4>2. CASE 1 \notin bad
        <5>1. PICK i \in bad : TRUE
          BY <2>2
        <5> QED
          BY <3>1, <4>2, <5>1
      <4> QED
        BY <4>1, <4>2
    <3>3. (CHOOSE i \in bad : \A j \in bad : i <= j) \in 1 .. Len(fs)
      BY <3>1, <3>2
    <3> QED
      BY <1>2, <2>2, <3>3
  <2> QED
    BY <2>1, <2>2
<1>5. bad = {} => n = Len(fs)
  OBVIOUS
<1> HIDE DEF n, bad
<1>6. SubSeq(fs, 1, n) \in Seq({"good", "bad"})
  BY <1>1, <1>2, <1>4, SubSeqProperties, ElementOfSeq
<1>7. bad = {} => SubSeq(fs, 1, n) = fs
  BY <1>1, <1>5, SubSeqFull
<1>8. end \in Seq(Entries) /\ Directives(d, fs) \in Seq(Entries)
  BY <1>1, <1>6, DirectivesType, ConcatProperties DEF TypeInv
<1>9. bad = {} => end = tx.flows \o Directives(d, fs)
  BY <1>7
<1> HIDE DEF end
<1>10. /\ push(d, fs) \in [flows : Seq(Entries), committed : BOOLEAN,
                           err : BOOLEAN]
       /\ push(d, fs).committed = tx.committed
       /\ push(d, fs).err = (bad # {}) /\ push(d, fs).flows = end
  BY <1>3, <1>8 DEF TypeInv
<1> QED
  BY <1>8, <1>9, <1>10

\* A call on the transaction happens before any process is started.
LEMMA CallStep ==
  ASSUME BundleInv, AddFlowBundle \/ AddOrDelete \/ Commit \/ Discard
  PROVE  BundleInv'
<1>1. TypeInv /\ TxInv /\ PipeInv
  BY DEF BundleInv
<1>2. /\ at \in {"idle", "fn"} /\ at' = "fn"
      /\ UNCHANGED <<returned, buf, child>>
  BY DEF AddFlowBundle, AddOrDelete, Commit, Discard, CallTx
<1>3. child' = NoChild /\ returned' = "none"
  BY <1>1, <1>2 DEF PipeInv
<1>4. PipeInv'
  BY <1>2, <1>3 DEF PipeInv, NoChild
<1>5. SUFFICES TypeInv' /\ TxInv'
  BY <1>4 DEF BundleInv
<1>6. <<>> \in Seq(Entries)
  OBVIOUS
<1>7. CASE AddFlowBundle
  <2>1. tx' = NewTx /\ asked' = <<>> /\ late' = FALSE
    BY <1>7 DEF AddFlowBundle
  <2>2. tx' \in [flows : Seq(Entries), committed : BOOLEAN, err : BOOLEAN]
    BY <1>6, <2>1 DEF NewTx
  <2> QED
    BY <1>1, <1>2, <1>6, <2>1, <2>2 DEF TypeInv, TxInv, NewTx
<1>8. CASE AddOrDelete
  <2>1. PICK d \in {"add", "delete"}, fs \in FlowLists :
          /\ tx' = IF tx.err THEN tx ELSE push(d, fs)
          /\ asked' = asked \o Directives(d, fs)
    BY <1>8 DEF AddOrDelete
  <2>2. late' = tx.committed
    BY <1>8 DEF AddOrDelete
  <2>3. CASE tx.err
    <3>1. Directives(d, fs) \in Seq(Entries)
      <4>1. fs \in Seq({"good", "bad"})
        BY FlowListType
      <4> QED
        BY <4>1, DirectivesType
    <3>2. asked' \in Seq(Entries)
      BY <1>1, <2>1, <3>1, ConcatProperties DEF TypeInv
    <3> QED
      BY <1>1, <1>2, <2>1, <2>2, <2>3, <3>2 DEF TypeInv, TxInv
  <2>4. CASE ~tx.err
    <3>1. /\ push(d, fs) \in [flows : Seq(Entries), committed : BOOLEAN,
                              err : BOOLEAN]
          /\ push(d, fs).committed = tx.committed
          /\ ~push(d, fs).err =>
               push(d, fs).flows = tx.flows \o Directives(d, fs)
          /\ Directives(d, fs) \in Seq(Entries)
      BY <1>1, <2>4, PushEffect
    <3>2. asked' \in Seq(Entries)
      BY <1>1, <2>1, <3>1, ConcatProperties DEF TypeInv
    <3>3. tx' = push(d, fs)
      BY <2>1, <2>4
    <3>4. TypeInv'
      BY <1>1, <1>2, <2>2, <3>1, <3>2, <3>3 DEF TypeInv
    <3>5. TxInv'
      BY <1>1, <2>1, <2>2, <2>4, <3>1, <3>3 DEF TxInv
    <3> QED
      BY <3>4, <3>5
  <2> QED
    BY <2>3, <2>4
<1>9. CASE Commit
  <2>1. /\ tx' = [tx EXCEPT !.committed = tx.committed \/ ~tx.err]
        /\ UNCHANGED <<asked, late>>
    BY <1>9 DEF Commit
  <2>2. /\ tx' \in [flows : Seq(Entries), committed : BOOLEAN, err : BOOLEAN]
        /\ tx'.flows = tx.flows /\ tx'.err = tx.err
        /\ tx'.committed = (tx.committed \/ ~tx.err)
    BY <1>1, <2>1 DEF TypeInv
  <2> QED
    BY <1>1, <1>2, <2>1, <2>2 DEF TypeInv, TxInv
<1>10. CASE Discard
  <2>1. /\ tx' = [tx EXCEPT !.flows = <<>>]
        /\ asked' = <<>> /\ late' = tx.committed
    BY <1>10 DEF Discard
  <2>2. /\ tx' \in [flows : Seq(Entries), committed : BOOLEAN, err : BOOLEAN]
        /\ tx'.flows = <<>> /\ tx'.err = tx.err /\ tx'.committed = tx.committed
    BY <1>1, <1>6, <2>1 DEF TypeInv
  <2> QED
    BY <1>1, <1>2, <1>6, <2>1, <2>2 DEF TypeInv, TxInv
<1> QED
  BY <1>7, <1>8, <1>9, <1>10

----------------------------------------------------------------------------
(* The pipe and the process.                                               *)

\* Handing the first element on keeps the whole in order.
LEMMA HandOver ==
  ASSUME NEW S, NEW a \in Seq(S), NEW b \in Seq(S), b # <<>>
  PROVE  Append(a, Head(b)) \o Tail(b) = a \o b
<1>1. Len(a) \in Nat /\ Len(b) \in Nat \ {0} /\ Head(b) = b[1]
  BY LenProperties, EmptySeq
<1>2. /\ Head(b) \in S /\ Tail(b) \in Seq(S) /\ Len(Tail(b)) = Len(b) - 1
      /\ \A i \in 1 .. Len(Tail(b)) : Tail(b)[i] = b[i + 1]
  BY HeadTailProperties
<1> DEFINE h == Head(b)
           c == Append(a, h)
           t == Tail(b)
<1>3. /\ c \in Seq(S) /\ Len(c) = Len(a) + 1
      /\ \A i \in 1 .. Len(a) : c[i] = a[i]
      /\ c[Len(a) + 1] = h
  BY <1>2, AppendProperties
<1> HIDE DEF c, t, h
<1>4. t \in Seq(S) /\ Len(t) = Len(b) - 1 /\ h = b[1]
      /\ \A i \in 1 .. Len(t) : t[i] = b[i + 1]
  BY <1>1, <1>2 DEF t, h
<1>5. /\ c \o t \in Seq(S) /\ Len(c \o t) = Len(c) + Len(t)
      /\ \A i \in 1 .. Len(c) + Len(t) :
           (c \o t)[i] = IF i <= Len(c) THEN c[i] ELSE t[i - Len(c)]
  BY <1>3, <1>4, ConcatProperties
<1>6. /\ a \o b \in Seq(S) /\ Len(a \o b) = Len(a) + Len(b)
      /\ \A i \in 1 .. Len(a) + Len(b) :
           (a \o b)[i] = IF i <= Len(a) THEN a[i] ELSE b[i - Len(a)]
  BY ConcatProperties
<1>7. Len(c) + Len(t) = Len(a) + Len(b)
  BY <1>1, <1>3, <1>4
<1>8. ASSUME NEW i \in 1 .. Len(a) + Len(b)
      PROVE  (c \o t)[i] = (a \o b)[i]
  <2>1. CASE i <= Len(a)
    <3>1. i \in 1 .. Len(a) /\ i <= Len(c)
      BY <1>1, <1>3, <2>1
    <3> QED
      BY <1>3, <1>5, <1>6, <1>7, <2>1, <3>1
  <2>2. CASE i = Len(a) + 1
    <3>1. i <= Len(c) /\ ~(i <= Len(a)) /\ i - Len(a) = 1
      BY <1>1, <1>3, <2>2
    <3> QED
      BY <1>3, <1>4, <1>5, <1>6, <1>7, <2>2, <3>1
  <2>3. CASE i > Len(a) + 1
    <3>1. /\ ~(i <= Len(c)) /\ ~(i <= Len(a))
          /\ i - Len(c) \in 1 .. Len(t) /\ (i - Len(c)) + 1 = i - Len(a)
      BY <1>1, <1>3, <1>4, <2>3
    <3>2. t[i - Len(c)] = b[i - Len(a)]
      BY <1>4, <3>1
    <3> QED
      BY <1>5, <1>6, <1>7, <3>1, <3>2
  <2>4. i <= Len(a) \/ i = Len(a) + 1 \/ i > Len(a) + 1
    BY <1>1
  <2> QED
    BY <2>1, <2>2, <2>3, <2>4
<1>9. c \o t = a \o b
  BY <1>5, <1>6, <1>7, <1>8, SeqEqual
<1> QED
  BY <1>9 DEF c, t, h

\* Concatenation of lists of entries.
LEMMA EntriesAssociative ==
  \A a, b, c \in Seq(Entries) : (a \o b) \o c = a \o (b \o c)
<1> SUFFICES ASSUME NEW a \in Seq(Entries), NEW b \in Seq(Entries),
                    NEW c \in Seq(Entries)
             PROVE  (a \o b) \o c = a \o (b \o c)
  OBVIOUS
<1> QED
  BY ConcatAssociative

\* The function returns: nothing is run, or a process with the whole
\* transaction still to be copied.
LEMMA FnStep == BundleInv /\ FnReturns => BundleInv'
<1> SUFFICES ASSUME BundleInv, FnReturns PROVE BundleInv'
  OBVIOUS
<1>1. TypeInv /\ TxInv /\ PipeInv
  BY DEF BundleInv
<1>2. at = "fn" /\ UNCHANGED <<tx, asked, late>>
  BY DEF FnReturns, txVars
<1>3. child = NoChild /\ returned = "none"
  BY <1>1, <1>2 DEF PipeInv
<1>4. TxInv'
  BY <1>1, <1>2 DEF TxInv
<1>5. CASE at' = "done" /\ returned' = "error" /\ UNCHANGED <<buf, child>>
  <2>1. PipeInv'
    BY <1>3, <1>5 DEF PipeInv, NoChild
  <2> QED
    BY <1>1, <1>2, <1>4, <1>5, <2>1 DEF BundleInv, TypeInv
<1>6. CASE /\ tx.committed /\ at' = "copy" /\ buf' = tx.flows
           /\ child' = [NoChild EXCEPT !.st = "reading", !.open = TRUE]
           /\ UNCHANGED returned
  <2>1. /\ child' \in Children /\ child'.st = "reading" /\ child'.open
        /\ ~child'.applied /\ child'.read = <<>> /\ child'.in = <<>>
    BY <1>6, NoChildType DEF Children, NoChild
  <2>2. tx.flows \in Seq(Entries)
    BY <1>1 DEF TypeInv
  <2>3. <<>> \o <<>> \o tx.flows = tx.flows
    <3>1. <<>> \in Seq(Entries)
      OBVIOUS
    <3>2. <<>> \o <<>> = <<>>
      BY <3>1, ConcatEmptySeq
    <3>3. <<>> \o tx.flows = tx.flows
      BY <2>2, ConcatEmptySeq
    <3> QED
      BY <3>2, <3>3
  <2>4. PipeInv'
    BY <1>2, <1>3, <1>6, <2>1, <2>3 DEF PipeInv
  <2>5. TypeInv'
    BY <1>1, <1>2, <1>6, <2>1, <2>2 DEF TypeInv
  <2> QED
    BY <1>4, <2>4, <2>5 DEF BundleInv
<1> QED
  BY <1>5, <1>6 DEF FnReturns

\* A step of shellPipe.
LEMMA PipeStep == BundleInv /\ Pipe => BundleInv'
<1> SUFFICES ASSUME BundleInv, Pipe PROVE BundleInv'
  OBVIOUS
<1>1. TypeInv /\ TxInv /\ PipeInv
  BY DEF BundleInv
<1>2. /\ UNCHANGED <<tx, asked, late>>
      /\ at \in {"copy", "out", "err", "wait"}
      /\ at' \in {"copy", "out", "err", "wait", "done"}
  BY DEF Pipe, Copy, CloseStdin, Wait, ReadAll, PipeReturns, txVars
<1>3. /\ child.st # "none" /\ tx.committed /\ child \in Children
      /\ (child.read \o child.in) \o buf = tx.flows
  BY <1>1, <1>2 DEF PipeInv, TypeInv
<1>4. TxInv'
  BY <1>1, <1>2 DEF TxInv
<1>5. CASE Copy
  <2>1. CASE PipeReturns("error") /\ UNCHANGED <<buf, child>>
    <3>1. TypeInv' /\ PipeInv'
      BY <1>1, <1>2, <1>3, <2>1 DEF TypeInv, PipeInv, PipeReturns
    <3> QED
      BY <1>4, <3>1 DEF BundleInv
  <2>2. CASE /\ buf # <<>> /\ child.st # "exited"
             /\ child' = [child EXCEPT !.in = Append(child.in, Head(buf))]
             /\ buf' = Tail(buf) /\ UNCHANGED <<at, returned>>
    <3>1. /\ child.in \in Seq(Entries) /\ child.read \in Seq(Entries)
          /\ buf \in Seq(Entries)
      BY <1>1 DEF TypeInv, Children
    <3> DEFINE more == Append(child.in, Head(buf))
    <3>2. /\ Head(buf) \in Entries /\ Tail(buf) \in Seq(Entries)
      BY <2>2, <3>1, HeadTailProperties
    <3>3. more \in Seq(Entries)
      BY <3>1, <3>2, AppendProperties
    <3>4. more \o Tail(buf) = child.in \o buf
      BY <2>2, <3>1, HandOver
    <3> HIDE DEF more
    <3>5. (child.read \o more) \o Tail(buf) = child.read \o (more \o Tail(buf))
      BY ZenonT(60), <3>1, <3>2, <3>3, EntriesAssociative
    <3>6. (child.read \o child.in) \o buf = child.read \o (child.in \o buf)
      BY <3>1, EntriesAssociative
    <3>7. /\ child' \in Children /\ child'.in = more /\ child'.read = child.read
          /\ child'.st = child.st /\ child'.open = child.open
          /\ child'.applied = child.applied /\ child'.code = child.code
      BY <1>3, <2>2, <3>3 DEF Children, more
    <3>8. (child'.read \o child'.in) \o buf' = tx'.flows
      BY <1>2, <1>3, <2>2, <3>4, <3>5, <3>6, <3>7
    <3>9. child'.open
      BY <1>1, <1>3, <2>2, <3>7 DEF PipeInv
    <3>10. TypeInv'
      BY <1>1, <1>2, <2>2, <3>2, <3>7 DEF TypeInv
    <3>11. PipeInv'
      BY <1>1, <1>2, <1>3, <2>2, <3>7, <3>8, <3>9 DEF PipeInv
    <3> QED
      BY <1>4, <3>10, <3>11 DEF BundleInv
  <2> QED
    BY <1>5, <2>1, <2>2 DEF Copy
<1>6. CASE CloseStdin
  <2>1. /\ buf = <<>> /\ child' = [child EXCEPT !.open = FALSE] /\ at' = "out"
        /\ UNCHANGED <<buf, returned>>
    BY <1>6 DEF CloseStdin, AfterCopy
  <2>2. /\ child' \in Children /\ child'.in = child.in /\ child'.read = child.read
        /\ child'.st = child.st /\ child'.open = FALSE
        /\ child'.applied = child.applied /\ child'.code = child.code
    BY <1>3, <2>1 DEF Children
  <2>3. TypeInv'
    BY <1>1, <1>2, <2>1, <2>2 DEF TypeInv
  <2>4. PipeInv'
    BY <1>1, <1>2, <1>3, <2>1, <2>2 DEF PipeInv
  <2> QED
    BY <1>4, <2>3, <2>4 DEF BundleInv
<1>7. CASE Wait
  <2>1. /\ child.st = "exited" /\ at' = "done" /\ UNCHANGED <<buf, child>>
        /\ returned' = IF child.code = 0 THEN "nil" ELSE "error"
    BY <1>7 DEF Wait, PipeReturns
  <2>2. TypeInv'
    BY <1>1, <1>2, <2>1 DEF TypeInv
  <2>3. PipeInv'
    BY <1>1, <1>2, <1>3, <2>1 DEF PipeInv
  <2> QED
    BY <1>4, <2>2, <2>3 DEF BundleInv
<1>8. ASSUME NEW stream \in {"out", "err"}, NEW next, ReadAll(stream, next)
      PROVE  BundleInv'
  <2>1. /\ child' = child \/ child' = [child EXCEPT ![stream] = @ - 1]
        /\ UNCHANGED <<buf, returned>>
    BY <1>8 DEF ReadAll
  <2>2. /\ child' \in Children /\ child'.in = child.in /\ child'.read = child.read
        /\ child'.st = child.st /\ child'.open = child.open
        /\ child'.applied = child.applied /\ child'.code = child.code
    <3>1. CASE stream = "out"
      BY SMTT(30), <1>3, <2>1, <3>1 DEF Children
    <3>2. CASE stream = "err"
      BY SMTT(30), <1>3, <2>1, <3>2 DEF Children
    <3> QED
      BY <3>1, <3>2
  <2>3. TypeInv'
    BY <1>1, <1>2, <2>1, <2>2 DEF TypeInv
  <2>4. PipeInv'
    BY <1>1, <1>2, <1>3, <2>1, <2>2 DEF PipeInv
  <2> QED
    BY <1>4, <2>3, <2>4 DEF BundleInv
<1> QED
  BY <1>5, <1>6, <1>7, <1>8 DEF Pipe

\* A step of the process.
LEMMA ChildStepKept ==
  ASSUME BundleInv, ChildRuns \/ ChildSpeaks \/ ChildGivesUp
  PROVE  BundleInv'
<1>1. TypeInv /\ TxInv /\ PipeInv /\ child \in Children
  BY DEF BundleInv, TypeInv
<1>2. /\ UNCHANGED <<at, returned, tx, asked, late, buf>>
      /\ child.st \in {"reading", "out", "err"}
  BY DEF ChildRuns, ChildSpeaks, ChildGivesUp, ChildRead, ChildWrite, ChildApply,
         ChildStep, txVars
<1>3. /\ ~child.applied /\ returned # "nil" /\ tx.committed
      /\ (child.read \o child.in) \o buf = tx.flows
      /\ ~child.open => buf = <<>>
      /\ at \notin {"idle", "fn"}
  <2>1. child.st # "none" /\ child.st # "exited"
    BY <1>2
  <2>2. NoChild.st = "none"
    BY DEF NoChild
  <2>3. at \notin {"idle", "fn"}
    BY <1>1, <2>1, <2>2 DEF PipeInv
  <2>4. ~child.applied /\ returned # "nil"
    BY <1>1, <2>1 DEF PipeInv
  <2> QED
    BY <1>1, <2>1, <2>3, <2>4 DEF PipeInv
<1>4. ASSUME child' \in Children, child'.st # "none",
             child'.open = child.open,
             (child'.read \o child'.in) \o buf = tx.flows,
             child'.applied => child'.st = "exited" /\ child'.read = tx.flows,
             child'.st = "exited" /\ child'.code = 0 => child'.applied
      PROVE  BundleInv'
  <2>1. TypeInv' /\ TxInv'
    BY <1>1, <1>2, <1>4 DEF TypeInv, TxInv
  <2>2. PipeInv'
    BY <1>2, <1>3, <1>4 DEF PipeInv
  <2> QED
    BY <2>1, <2>2 DEF BundleInv
<1>5. /\ child.in \in Seq(Entries) /\ child.read \in Seq(Entries)
      /\ buf \in Seq(Entries)
  BY <1>1 DEF TypeInv, Children
<1>6. CASE ChildRead
  <2> DEFINE more == Append(child.read, Head(child.in))
  <2>1. /\ child.in # <<>> /\ child.st = "reading"
        /\ child' = [child EXCEPT !.in = Tail(child.in), !.read = more]
    BY <1>6 DEF ChildRead
  <2>2. Head(child.in) \in Entries /\ Tail(child.in) \in Seq(Entries)
    BY <1>5, <2>1, HeadTailProperties
  <2>3. more \in Seq(Entries)
    BY <1>5, <2>2, AppendProperties
  <2>4. more \o Tail(child.in) = child.read \o child.in
    BY <1>5, <2>1, HandOver
  <2> HIDE DEF more
  <2>5. /\ child' \in Children /\ child'.st = "reading"
        /\ child'.in = Tail(child.in) /\ child'.read = more
        /\ child'.open = child.open /\ child'.applied = child.applied
    BY <1>1, <2>1, <2>2, <2>3 DEF Children
  <2> QED
    BY <1>3, <1>4, <2>4, <2>5
<1>7. CASE ChildWrite
  <2>1. child' = [child EXCEPT !.st = "reading", ![child.st] = @ + 1]
        /\ child.st \in {"out", "err"}
    BY <1>7 DEF ChildWrite
  <2>2. /\ child' \in Children /\ child'.st = "reading"
        /\ child'.in = child.in /\ child'.read = child.read
        /\ child'.open = child.open /\ child'.applied = child.applied
    <3>1. child.out + 1 \in Int /\ child.err + 1 \in Int
      BY <1>1 DEF Children
    <3>2. CASE child.st = "out"
      <4>1. child' = [child EXCEPT !.st = "reading", !.out = child.out + 1]
        BY <2>1, <3>2
      <4> QED
        BY <1>1, <3>1, <4>1 DEF Children
    <3>3. CASE child.st = "err"
      <4>1. child' = [child EXCEPT !.st = "reading", !.err = child.err + 1]
        BY <2>1, <3>3
      <4> QED
        BY <1>1, <3>1, <4>1 DEF Children
    <3> QED
      BY <2>1, <3>2, <3>3
  <2> QED
    BY <1>3, <1>4, <2>2
<1>8. CASE ChildSpeaks
  <2>1. PICK stream \in {"out", "err"} :
          child' = [child EXCEPT !.st = stream, !.wrote[stream] = @ + 1]
    BY <1>8 DEF ChildSpeaks
  <2>2. /\ child' \in Children /\ child'.st = stream
        /\ child'.in = child.in /\ child'.read = child.read
        /\ child'.open = child.open /\ child'.applied = child.applied
    <3> DEFINE w == [child.wrote EXCEPT ![stream] = @ + 1]
    <3>1. child.wrote \in [out : Int, err : Int]
      BY <1>1 DEF Children
    <3>2. w \in [out : Int, err : Int]
      BY <3>1
    <3>3. child' = [child EXCEPT !.st = stream, !.wrote = w]
      BY <2>1
    <3> HIDE DEF w
    <3> QED
      BY <1>1, <3>2, <3>3 DEF Children
  <2> QED
    BY <1>3, <1>4, <2>2
<1>9. CASE ChildApply
  <2>1. PICK done \in BOOLEAN, code \in {0, 1} :
          /\ code = 0 => done
          /\ child' = [child EXCEPT !.st = "exited", !.applied = done, !.code = code]
    BY <1>9 DEF ChildApply
  <2>2. child.in = <<>> /\ ~child.open
    BY <1>9 DEF ChildApply
  <2>3. /\ child' \in Children /\ child'.st = "exited"
        /\ child'.in = child.in /\ child'.read = child.read
        /\ child'.open = child.open /\ child'.applied = done /\ child'.code = code
    BY <1>1, <2>1 DEF Children
  <2>4. child.read = tx.flows
    <3>1. buf = <<>> /\ (child.read \o <<>>) \o <<>> = tx.flows
      BY <1>3, <2>2
    <3>2. child.read \o <<>> = child.read
      BY <1>5, ConcatEmptySeq
    <3> QED
      BY <3>1, <3>2
  <2> QED
    BY <1>3, <1>4, <2>1, <2>3, <2>4
<1>10. CASE ChildGivesUp
  <2>1. child' = [child EXCEPT !.st = "exited", !.code = 1]
    BY <1>10 DEF ChildGivesUp
  <2>2. /\ child' \in Children /\ child'.st = "exited" /\ child'.code = 1
        /\ child'.in = child.in /\ child'.read = child.read
        /\ child'.open = child.open /\ child'.applied = child.applied
    BY <1>1, <2>1 DEF Children
  <2>3. ~child'.applied /\ child'.st # "none" /\ child'.code # 0
    BY <1>3, <2>2
  <2>4. (child'.read \o child'.in) \o buf = tx.flows
    BY <1>3, <2>2
  <2> QED
    BY <1>4, <2>2, <2>3, <2>4
<1> QED
  BY <1>6, <1>7, <1>8, <1>9, <1>10 DEF ChildRuns

----------------------------------------------------------------------------
\* For any number of calls on the transaction, any capacity of the pipes and
\* any output of ovs-ofctl: nothing reaches the switch without Commit and then
\* the whole transaction does, and AddFlowBundle returns nil only when it did,
\* with every flow that was asked for.
THEOREM NilMeansBundleApplied == BundleSpec => []NilMeansApplied
<1>1. BundleInv /\ [BundleNext]_bundleVars => BundleInv'
  <2> SUFFICES ASSUME BundleInv, [BundleNext]_bundleVars PROVE BundleInv'
    OBVIOUS
  <2>1. CASE BundleNext
    BY <2>1, CallStep, FnStep, PipeStep, ChildStepKept DEF BundleNext
  <2>2. CASE UNCHANGED bundleVars
    BY <2>2 DEF bundleVars, txVars, BundleInv, TypeInv, TxInv, PipeInv
  <2> QED
    BY <2>1, <2>2
<1> QED
  BY <1>1, IndInit, BundleInvImplies, PTL DEF BundleSpec
=============================================================================
