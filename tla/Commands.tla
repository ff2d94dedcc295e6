------------------------------ MODULE Commands ------------------------------
(***************************************************************************)
(* The commands of OpenFlowService in package ovs, run by goroutines that  *)
(* share one Client: how their arguments are put together in slices, and   *)
(* Client.exec.  The process ovs-ofctl is external.                        *)
(***************************************************************************)
EXTENDS Integers, Sequences

CONSTANT Callers  \* goroutines

VARIABLES
  ofctlFlags,   \* the client's slice of flags: its length and capacity
  spare,        \* what the spare capacity holds
  pc, op,       \* where a caller is, and the operation it called
  args,         \* the slice of arguments it built
  argv,         \* the arguments its command was started with
  result,       \* what the operation returned
  overlapped    \* history: callers that built arguments at the same time

commandVars == <<ofctlFlags, spare, pc, op, args, argv, result, overlapped>>

----------------------------------------------------------------------------
(* Slices: append writes into the spare capacity when the elements fit.    *)

\* growslice for strings: twice the capacity, or the length if that is more.
Grown(s, n) ==
  LET len == s.len + n IN
  [len |-> len,
   cap |-> IF len <= s.cap THEN s.cap
           ELSE IF len > 2 * s.cap THEN len ELSE 2 * s.cap]

\* New with up to three options, FlowFormat or Protocols (one flag each) and
\* SetSSLParam (three).
ClientFlags ==
  LET new == [len |-> 0, cap |-> 0] IN
  {new} \cup {Grown(new, i) : i \in {1, 3}}
        \cup {Grown(Grown(new, i), j) : i, j \in {1, 3}}
        \cup {Grown(Grown(Grown(new, i), j), k) : i, j, k \in {1, 3}}

Spare == ofctlFlags.cap - ofctlFlags.len

Fits(n) == n <= Spare

\* The arguments a slice holds now.
Contents(a) == IF a.shared THEN [i \in 1 .. a.len |-> spare[i]] ELSE a.own

----------------------------------------------------------------------------
(* Operations.                                                             *)

\* A flow that marshals and one that does not.
FlowTexts == {"good", "bad"}

\* dumpPorts for all ports or one, dumpAggregate, and the commands whose
\* arguments are a new slice.
Operations ==
  {[cmd |-> "dump-ports", words |-> <<"dump-ports", b>>] : b \in Callers}
  \cup {[cmd |-> "dump-port", words |-> <<"dump-ports", b, "port">>] : b \in Callers}
  \cup {[cmd |-> "dump-aggregate", words |-> <<"dump-aggregate", b, f>>] :
          b \in Callers, f \in FlowTexts}
  \cup {[cmd |-> "add-flow", words |-> <<"add-flow", "bridge", f>>] : f \in FlowTexts}
  \cup {[cmd |-> "del-flows", words |-> <<"del-flows", "bridge", f>>] : f \in FlowTexts}
  \cup {[cmd |-> "del-flows", words |-> <<"del-flows", "bridge">>],
        [cmd |-> "mod-port", words |-> <<"mod-port", "bridge", "port", "up">>]}

NoOp    == [cmd |-> "none", words |-> <<>>]
NoArgs  == [shared |-> FALSE, own |-> <<>>, len |-> 0]

\* The words that append adds to the shared flags in its first call.
Appended(o) == IF o.cmd = "dump-port" THEN SubSeq(o.words, 1, 2) ELSE o.words
Appends(o)  == o.cmd \in {"dump-ports", "dump-port", "dump-aggregate"}

\* AddFlow, DelFlows and dumpAggregate return the error of MarshalText.
Invalid(o) == o.words[Len(o.words)] = "bad"

Call(t) ==
  /\ pc[t] = "idle"
  /\ \E o \in Operations :
       /\ Appends(o) => o.words[2] = t
       /\ op' = [op EXCEPT ![t] = o]
       /\ IF Invalid(o)
          THEN /\ pc' = [pc EXCEPT ![t] = "done"]
               /\ result' = [result EXCEPT ![t] = "error"]
          ELSE /\ pc' = [pc EXCEPT ![t] = "append"]
               /\ UNCHANGED result
  /\ UNCHANGED <<ofctlFlags, spare, args, argv, overlapped>>

\* Between its append to the shared flags and exec, which copies the words.
Preparing(t) == pc[t] \in {"port", "exec"} /\ Appends(op[t])

\* Caller t appends while others are in between: from here on all of them
\* may see each other's words.
Overlap(t) ==
  LET others == {u \in Callers \ {t} : Preparing(u)} IN
  overlapped' = IF Appends(op[t]) /\ others # {}
                THEN overlapped \cup others \cup {t}
                ELSE overlapped

\* Mutant: the result is assigned to c.ofctlFlags, where the words of a dump
\* stay in front of those of the next.
AppendArgs_Kept(t) ==
  LET kept == IF Appends(op[t]) THEN SelectSeq(spare, LAMBDA w : w # "") ELSE <<>>
      new  == kept \o Appended(op[t])
  IN
  /\ pc[t] = "append"
  /\ pc' = [pc EXCEPT ![t] = IF op[t].cmd = "dump-port" THEN "port" ELSE "exec"]
  /\ spare' = IF Appends(op[t]) THEN new ELSE spare
  /\ args' = [args EXCEPT ![t] = [shared |-> FALSE, own |-> new, len |-> Len(new)]]
  /\ Overlap(t)
  /\ UNCHANGED <<ofctlFlags, op, argv, result>>

\* args = append(o.c.ofctlFlags, args...), or a slice of the caller's own.
AppendArgs(t) ==
  LET new == Appended(op[t]) IN
  /\ pc[t] = "append"
  /\ pc' = [pc EXCEPT ![t] = IF op[t].cmd = "dump-port" THEN "port" ELSE "exec"]
  /\ IF Appends(op[t]) /\ Fits(Len(new))
     THEN /\ spare' = [i \in DOMAIN spare |->
                         IF i <= Len(new) THEN new[i] ELSE spare[i]]
          /\ args' = [args EXCEPT ![t] =
                        [shared |-> TRUE, own |-> <<>>, len |-> Len(new)]]
     ELSE /\ args' = [args EXCEPT ![t] =
                        [shared |-> FALSE, own |-> new, len |-> Len(new)]]
          /\ UNCHANGED spare
  /\ Overlap(t)
  /\ UNCHANGED <<ofctlFlags, op, argv, result>>

\* args = append(args, port): a copy unless a third word fits too.
AppendPort(t) ==
  /\ pc[t] = "port"
  /\ pc' = [pc EXCEPT ![t] = "exec"]
  /\ IF args[t].shared /\ Fits(3)
     THEN /\ spare' = [spare EXCEPT ![3] = "port"]
          /\ args' = [args EXCEPT ![t] = [shared |-> TRUE, own |-> <<>>, len |-> 3]]
     ELSE /\ args' = [args EXCEPT ![t] =
                        [shared |-> FALSE, len |-> 3,
                         own |-> Append(Contents(args[t]), "port")]]
          /\ UNCHANGED spare
  /\ UNCHANGED <<ofctlFlags, op, argv, result, overlapped>>

\* Client.exec copies the arguments behind the client's flags and starts the
\* command.
Exec(t) ==
  /\ pc[t] = "exec"
  /\ pc' = [pc EXCEPT ![t] = "running"]
  /\ argv' = [argv EXCEPT ![t] = Contents(args[t])]
  /\ UNCHANGED <<ofctlFlags, spare, op, args, result, overlapped>>

\* The process ends; a failure, or the timeout it was given, is an Error.
ExecReturns(t) ==
  /\ pc[t] = "running"
  /\ pc' = [pc EXCEPT ![t] = "done"]
  /\ \E r \in {"nil", "error"} : result' = [result EXCEPT ![t] = r]
  /\ UNCHANGED <<ofctlFlags, spare, op, args, argv, overlapped>>

----------------------------------------------------------------------------
CommandsInit ==
  /\ ofctlFlags \in ClientFlags
  /\ spare = [i \in 1 .. ofctlFlags.cap - ofctlFlags.len |-> ""]
  /\ pc = [t \in Callers |-> "idle"]
  /\ op = [t \in Callers |-> NoOp]
  /\ args = [t \in Callers |-> NoArgs]
  /\ argv = [t \in Callers |-> <<>>]
  /\ result = [t \in Callers |-> "none"]
  /\ overlapped = {}

CommandsNext ==
  \E t \in Callers :
    Call(t) \/ AppendArgs(t) \/ AppendPort(t) \/ Exec(t) \/ ExecReturns(t)

CommandsSpec == CommandsInit /\ [][CommandsNext]_commandVars

----------------------------------------------------------------------------
\* A command is started with its caller's own arguments, although every dump
\* appends to the one slice of flags: commands built one after the other may
\* write into the same spare capacity, and where there is too little of it
\* even commands built at the same time stay apart.  Only the two together,
\* room behind the flags and an overlap, hand a command another's words.
CommandIntact ==
  \A t \in Callers :
    argv[t] # <<>> => \/ argv[t] = op[t].words
                      \/ t \in overlapped /\ Fits(Len(Appended(op[t])))
=============================================================================
