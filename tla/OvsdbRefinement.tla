-------------------------- MODULE OvsdbRefinement --------------------------
(***************************************************************************)
(* OvsdbClient implements RpcCalls.  A call runs until rpc() has set its   *)
(* return value, before its deferred clean-up; the answers are those in    *)
(* the socket, in the hands of listen, in a channel or taken from one.     *)
(***************************************************************************)
EXTENDS OvsdbClient

StatusOf(p) ==
  CASE pc[p] = "begin" -> "called"
    [] pc[p] \in {"add", "send", "wait"} -> "sent"
    [] OTHER -> "idle"

InSocket ==
  {[id |-> toClient[i].id, body |-> toClient[i].body] :
     i \in {j \in DOMAIN toClient : toClient[j].kind = "response"}}

InHand ==
  ({lmsg} \cup {chVal[p] : p \in Procs} \cup {got[p] : p \in Procs}) \ {NoResp}

Status  == [p \in Procs |-> StatusOf(p)]
Done    == {p \in Procs : CtxDone(p)}
Answers == InSocket \cup InHand

Abstract == INSTANCE RpcCalls WITH
  status  <- Status,
  id      <- req,
  outcome <- ret,
  done    <- Done,
  issued  <- rpcID,
  answers <- Answers

\* Whatever the interleaving of listen, callers, echoLoop, ticker and Close,
\* a call of rpc() behaves as one step of an abstract call that succeeds only
\* with the answer to its own request and is canceled only with its context.
ImplementsRpcCalls == Abstract!Spec
=============================================================================
