------------------------------ MODULE RpcCalls ------------------------------
(***************************************************************************)
(* What the OVSDB client promises to those who call it, without the map of *)
(* callbacks, the channels, the mutex and the goroutines that keep the     *)
(* promise: every request has an ID of its own, answers may be lost,       *)
(* delayed or sent unasked, and a call returns once, successfully only     *)
(* with the server's answer to its own request.                            *)
(***************************************************************************)
EXTENDS Naturals

CONSTANT Procs  \* goroutines that call

VARIABLES
  status,   \* of every goroutine: no call, before or after its request
  id,       \* the ID of its request
  outcome,  \* what its latest call returned
  done,     \* goroutines whose context is done
  issued,   \* the latest ID
  answers   \* what the server sent and nobody has thrown away

rpcCallVars == <<status, id, outcome, done, issued, answers>>

Init ==
  /\ status = [p \in Procs |-> "idle"]
  /\ id = [p \in Procs |-> 0]
  /\ outcome = [p \in Procs |-> "none"]
  /\ done = {} /\ issued = 0 /\ answers = {}

\* Answers may be thrown away at any time.
Forget == answers' \subseteq answers

Start(p) ==
  /\ status[p] = "idle"
  /\ status' = [status EXCEPT ![p] = "called"]
  /\ outcome' = [outcome EXCEPT ![p] = "none"]
  /\ done' = done \ {p}
  /\ Forget /\ UNCHANGED <<id, issued>>

Issue(p) ==
  /\ status[p] = "called"
  /\ status' = [status EXCEPT ![p] = "sent"]
  /\ issued' = issued + 1
  /\ id' = [id EXCEPT ![p] = issued + 1]
  /\ Forget /\ UNCHANGED <<outcome, done>>

\* Success needs the answer, giving up needs the context, and another error
\* needs a request.
May(p, r) ==
  \/ r = "nil" /\ status[p] = "sent" /\ [id |-> id[p], body |-> "result"] \in answers
  \/ r = "ctx" /\ p \in done
  \/ r \in {"error", "closedNetwork"} /\ status[p] = "sent"

Return(p) ==
  /\ status[p] # "idle"
  /\ status' = [status EXCEPT ![p] = "idle"]
  /\ \E r \in {"nil", "ctx", "error", "closedNetwork"} :
       May(p, r) /\ outcome' = [outcome EXCEPT ![p] = r]
  /\ Forget /\ UNCHANGED <<id, done, issued>>

\* The server answers, to a request or to none.
Answer ==
  /\ \E a \in answers' : a.id \in 0 .. issued /\ answers' = answers \cup {a}
  /\ UNCHANGED <<status, id, outcome, done, issued>>

Cancel ==
  /\ done \subseteq done'
  /\ UNCHANGED <<status, id, outcome, issued, answers>>

Lose == Forget /\ UNCHANGED <<status, id, outcome, done, issued>>

Next ==
  \/ \E p \in Procs : Start(p) \/ Issue(p) \/ Return(p)
  \/ Answer \/ Cancel \/ Lose

Spec == Init /\ [][Next]_rpcCallVars
=============================================================================
