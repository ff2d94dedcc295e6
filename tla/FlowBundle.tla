----------------------------- MODULE FlowBundle -----------------------------
(***************************************************************************)
(* FlowTransaction and OpenFlowService.AddFlowBundle of package ovs, and   *)
(* shellPipe, which runs ovs-ofctl on the bundle: its steps on the three   *)
(* pipes of the process are modelled.  The function given to AddFlowBundle *)
(* calls the transaction in any order; the process ovs-ofctl and the       *)
(* switch behind it are external.                                          *)
(***************************************************************************)
EXTENDS OvsFlow

CONSTANTS
  MaxCalls,     \* calls that the function makes on the transaction
  PipeCap,      \* writes that a pipe holds
  MaxOutput     \* writes of ovs-ofctl to each of stdout and stderr

ASSUME FlowBundleAssumption ==
  {MaxCalls, PipeCap, MaxOutput} \subseteq Nat /\ PipeCap > 0

VARIABLES
  at,           \* where AddFlowBundle is
  returned,     \* what it returned
  tx,           \* the FlowTransaction
  asked, late,  \* what was asked of it, and whether after its Commit
  calls,        \* calls made on it
  buf,          \* what io.Copy has still to write
  child         \* ovs-ofctl for the bundle, with its pipes

txVars     == <<tx, asked, late, calls>>
bundleVars == <<at, returned, txVars, buf, child>>

----------------------------------------------------------------------------
(* Flows by name: one can be marshalled and the other has no actions.      *)

FlowNamed == [good |-> [Flow EXCEPT !.actions = <<Drop>>], bad |-> Flow]
MatchFlowNamed == [good |-> [MatchFlow EXCEPT !.cookie = 1],
                   bad  |-> [MatchFlow EXCEPT !.table = AnyTable]]

Marshals(directive, f) ==
  IF directive = "add" THEN Flow_MarshalText(FlowNamed[f]).ok
                       ELSE MatchFlow_MarshalText(MatchFlowNamed[f]).ok

FlowLists == {<<>>, <<"good">>, <<"bad">>, <<"good", "bad">>, <<"good", "good">>}

----------------------------------------------------------------------------
(* FlowTransaction: the calls of the function given to AddFlowBundle.      *)

NewTx == [flows |-> <<>>, committed |-> FALSE, err |-> FALSE]

AddFlowBundle ==
  /\ at = "idle"
  /\ at' = "fn"
  /\ tx' = NewTx /\ asked' = <<>> /\ late' = FALSE /\ calls' = 0
  /\ UNCHANGED <<returned, buf, child>>

Directives(directive, flows) ==
  [i \in DOMAIN flows |-> [directive |-> directive, flow |-> flows[i]]]

\* Mutant: the error is forgotten, and flows after an invalid one are taken.
push_Skip(directive, flows) ==
  [tx EXCEPT !.flows = @ \o Directives(directive,
                              SelectSeq(flows, LAMBDA f : Marshals(directive, f)))]

\* push takes the flows before the first that cannot be marshalled.
push(directive, flows) ==
  LET bad == {i \in DOMAIN flows : ~Marshals(directive, flows[i])}
      n   == IF bad = {} THEN Len(flows)
             ELSE (CHOOSE i \in bad : \A j \in bad : i <= j) - 1
  IN  [tx EXCEPT !.flows = @ \o Directives(directive, SubSeq(flows, 1, n)),
                 !.err = bad # {}]

CallTx ==
  /\ at = "fn" /\ calls < MaxCalls
  /\ calls' = calls + 1
  /\ UNCHANGED <<at, returned, buf, child>>

\* Add and Delete: a no-op after an error.
AddOrDelete ==
  /\ CallTx
  /\ \E directive \in {"add", "delete"}, flows \in FlowLists :
       /\ tx' = IF tx.err THEN tx ELSE push(directive, flows)
       /\ asked' = asked \o Directives(directive, flows)
  /\ late' = tx.committed

Commit ==
  /\ CallTx
  /\ tx' = [tx EXCEPT !.committed = @ \/ ~tx.err]
  /\ UNCHANGED <<asked, late>>

\* Discard empties the transaction and takes back neither Commit nor error.
Discard ==
  /\ CallTx
  /\ tx' = [tx EXCEPT !.flows = <<>>]
  /\ asked' = <<>>
  /\ late' = tx.committed

NoChild == [st |-> "none", in |-> <<>>, open |-> FALSE, out |-> 0, err |-> 0,
            wrote |-> [out |-> 0, err |-> 0], read |-> <<>>, applied |-> FALSE,
            code |-> 0]

\* The function returns its own error, or nil without Commit, and nothing is
\* run; otherwise the process is started, which may fail.
FnReturns ==
  /\ at = "fn"
  /\ \/ /\ at' = "done"
        /\ returned' = "error"
        /\ UNCHANGED <<buf, child>>
     \/ /\ tx.committed
        /\ at' = "copy"
        /\ buf' = tx.flows
        /\ child' = [NoChild EXCEPT !.st = "reading", !.open = TRUE]
        /\ UNCHANGED returned
  /\ UNCHANGED txVars

----------------------------------------------------------------------------
(* shellPipe.                                                              *)

PipeReturns(r) == at' = "done" /\ returned' = r

\* io.Copy(wc, stdin) writes while the pipe has room; a process that is gone
\* makes it fail, and the process is never waited for.
Copy ==
  /\ at = "copy" /\ buf # <<>>
  /\ IF child.st = "exited"
     THEN PipeReturns("error") /\ UNCHANGED <<buf, child>>
     ELSE /\ Len(child.in) < PipeCap
          /\ child' = [child EXCEPT !.in = Append(@, Head(buf))]
          /\ buf' = Tail(buf)
          /\ UNCHANGED <<at, returned>>
  /\ UNCHANGED txVars

\* Mutant: standard input is not closed.
AfterCopy_Open(c) == c

AfterCopy(c) == [c EXCEPT !.open = FALSE]

CloseStdin ==
  /\ at = "copy" /\ buf = <<>>
  /\ child' = AfterCopy(child)
  /\ at' = "out"
  /\ UNCHANGED <<buf, returned, txVars>>

\* ioutil.ReadAll(io.MultiReader(stdout, stderr)): one stream to its end,
\* then the other.
ReadAll(stream, next) ==
  /\ at = stream
  /\ \/ /\ child[stream] > 0
        /\ child' = [child EXCEPT ![stream] = @ - 1]
        /\ UNCHANGED at
     \/ /\ child[stream] = 0 /\ child.st = "exited"
        /\ at' = next
        /\ UNCHANGED child
  /\ UNCHANGED <<buf, returned, txVars>>

\* command.Wait: the exit code is the error.
Wait ==
  /\ at = "wait" /\ child.st = "exited"
  /\ PipeReturns(IF child.code = 0 THEN "nil" ELSE "error")
  /\ UNCHANGED <<buf, child, txVars>>

----------------------------------------------------------------------------
(* ovs-ofctl --bundle add-flow <bridge> -, external: it reads to the end of*)
(* its input, has the switch apply the whole bundle or nothing, and writes *)
(* what it has to say at any time.                                         *)

ChildStep == UNCHANGED <<at, returned, txVars, buf>>

ChildRead ==
  /\ child.st = "reading" /\ child.in # <<>>
  /\ child' = [child EXCEPT !.in = Tail(@), !.read = Append(@, Head(child.in))]
  /\ ChildStep

\* It is about to write to a stream, and then waits for room in the pipe.
ChildSpeaks ==
  /\ child.st = "reading"
  /\ \E stream \in {"out", "err"} :
       /\ child.wrote[stream] < MaxOutput
       /\ child' = [child EXCEPT !.st = stream, !.wrote[stream] = @ + 1]
  /\ ChildStep

ChildWrite ==
  /\ child.st \in {"out", "err"} /\ child[child.st] < PipeCap
  /\ child' = [child EXCEPT !.st = "reading", ![child.st] = @ + 1]
  /\ ChildStep

\* Input complete: the bundle is applied or refused.  The timeout may strike
\* when it was applied already.
ChildApply ==
  /\ child.st = "reading" /\ child.in = <<>> /\ ~child.open
  /\ \E done \in BOOLEAN, code \in {0, 1} :
       /\ code = 0 => done
       /\ child' = [child EXCEPT !.st = "exited", !.applied = done, !.code = code]
  /\ ChildStep

\* A flow it cannot parse, a switch it cannot reach, a timeout.
ChildGivesUp ==
  /\ child.st \in {"reading", "out", "err"}
  /\ child' = [child EXCEPT !.st = "exited", !.code = 1]
  /\ ChildStep

----------------------------------------------------------------------------
BundleInit ==
  /\ at = "idle" /\ returned = "none"
  /\ tx = NewTx /\ asked = <<>> /\ late = FALSE /\ calls = 0
  /\ buf = <<>> /\ child = NoChild

Pipe == \/ Copy \/ CloseStdin \/ Wait
        \/ ReadAll("out", "err") \/ ReadAll("err", "wait")

\* What a process does of itself once it has something to do.
ChildRuns == ChildRead \/ ChildWrite \/ ChildApply

BundleNext ==
  \/ AddFlowBundle \/ AddOrDelete \/ Commit \/ Discard \/ FnReturns
  \/ Pipe \/ ChildRuns \/ ChildSpeaks \/ ChildGivesUp

\* Goroutines and processes that can go on do.
BundleFairness == WF_bundleVars(Pipe) /\ WF_bundleVars(ChildRuns)

BundleSpec == BundleInit /\ [][BundleNext]_bundleVars /\ BundleFairness

----------------------------------------------------------------------------
(* Properties.                                                             *)

\* Nothing reaches the switch without Commit, and then the whole of the
\* transaction does.  AddFlowBundle returns nil only when it did; unless more
\* was called after Commit, that is exactly what was asked for since the last
\* Discard, so no flow was left out for being invalid.
NilMeansApplied ==
  /\ child.applied => tx.committed /\ child.read = tx.flows
  /\ returned = "nil" => child.applied /\ (~late => child.read = asked)

\* AddFlowBundle returns once its function has, whatever ovs-ofctl writes as
\* long as each of its streams fits in a pipe.
BundleReturns == (at = "copy") ~> (at = "done")
=============================================================================
