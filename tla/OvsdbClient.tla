---------------------------- MODULE OvsdbClient ----------------------------
(***************************************************************************)
(* The OVSDB client of go-openvswitch (package ovsdb): one connection to   *)
(* ovsdb-server shared by user goroutines that issue RPCs, a goroutine     *)
(* that reads every incoming message (listen), a goroutine that sends      *)
(* echo RPCs on request (echoLoop) and an optional ticker that requests    *)
(* them (echoTicker).  Replies find their caller through a map of          *)
(* callbacks under the mutex cbMu.                                         *)
(*                                                                         *)
(* A callback is <<id, the goroutine whose rpc() registered it>>; that     *)
(* goroutine's Ctx and one-slot Response channel are CtxDone(p) and        *)
(* chVal[p], chClosed[p].  A JSON payload is abstracted to what the        *)
(* client tells apart: a usable result, one it cannot use, and the two     *)
(* kinds of error a server may return.                                     *)
(***************************************************************************)
EXTENDS Naturals, Sequences

CONSTANTS
  Callers,         \* user goroutines
  EchoLoop,        \* the goroutine running echoLoop
  EchoInterval,    \* is the EchoInterval option set, so that echoTicker runs
  Bodies,          \* payloads the server may answer with
  Unsolicited,     \* what the server may send that answers no request
  MaxCalls,        \* bound: RPCs the users start
  MaxUnsolicited,  \* bound: unsolicited messages
  MaxTicks         \* bound: ticks of echoTicker

Procs == Callers \cup {EchoLoop}

AllBodies == {"result", "unusable", "jsonError", "ovsdbError"}

\* echo:         the server's echo request, {"method":"echo", ...}
\* stray:        a response whose id no request, or no pending request, has
\* notification: any other method; its id is null
\* mistyped:     complete JSON that does not fit Response
\* malformed:    a syntax error, or a message cut short by the peer
\* eof:          the server closes the connection
AllUnsolicited ==
  {"echo", "stray", "notification", "mistyped", "malformed", "eof"}

ASSUME ClientAssumption ==
  /\ EchoLoop \notin Callers
  /\ EchoInterval \in BOOLEAN
  /\ Bodies \subseteq AllBodies
  /\ Unsolicited \subseteq AllUnsolicited
  /\ MaxCalls \in Nat /\ MaxUnsolicited \in Nat /\ MaxTicks \in Nat

VARIABLES
  rpcID,       \* Client.rpcID
  callbacks,   \* Client.callbacks, a set of <<id, goroutine>>
  cbMu,        \* does listen hold Client.cbMu across steps
  pc,          \* position of every goroutine that performs rpc()
  req,         \* the request ID of the goroutine's current rpc()
  canceled,    \* the callers whose context is done
  chVal,       \* the response buffered in the goroutine's channel
  chClosed,    \* is that channel closed
  got,         \* the response rpc() took from the channel
  ret,         \* what rpc() returned
  lpc, lmsg,   \* position of listen and the response it handles
  decErr,      \* the JSON decoder's sticky error
  encErr,      \* the JSON encoder's sticky error, that of its first failed write
  tpc,         \* position of echoTicker
  echoOK, echoFail,  \* Client.echoOK and Client.echoFail
  closePC,     \* progress of Close
  toServer,    \* IDs of the requests the server has yet to answer
  toClient,    \* messages the client has yet to read
  eof,         \* the server closed its side
  crashed,     \* a goroutine panicked, and so the process died
  calls, unsolicited, ticks  \* counters behind the bounds

rpcVars    == <<rpcID, pc, req, canceled, got, ret, calls>>
chanVars   == <<callbacks, chVal, chClosed>>
listenVars == <<cbMu, lpc, lmsg, decErr>>
echoVars   == <<tpc, echoOK, echoFail, ticks>>
wireVars   == <<toServer, toClient, eof, encErr, unsolicited>>
vars == <<rpcVars, chanVars, listenVars, echoVars, wireVars, closePC, crashed>>

NoResp    == [id |-> 0, body |-> "none"]
Responses == [id : Nat, body : AllBodies]
Messages  == [kind : {"response"}, id : Nat, body : AllBodies]
             \cup [kind : {"echo", "notification", "mistyped", "malformed"}]

\* cancel() has run; the socket has been closed by Close.
ClientCtxDone == closePC # "open"
ConnClosed    == closePC \in {"waiting", "closed"}

\* A caller's own context, or for echoLoop the context New created.
CtxDone(p) == IF p = EchoLoop THEN ClientCtxDone ELSE p \in canceled

\* ctx.Err() is nil as long as the context is not done.
CtxErr(p) == IF CtxDone(p) THEN "ctx" ELSE "nil"

\* Mutant: an OVSDB error inside the result is not looked for.
RpcResult_NoErrCheck(body) ==
  IF body \in {"result", "ovsdbError"} THEN "nil" ELSE "error"

\* rpcResult, and for an echo the comparison at the end of Echo.
RpcResult(body) == IF body = "result" THEN "nil" ELSE "error"

TypeOK ==
  /\ rpcID \in Nat /\ calls \in Nat /\ unsolicited \in Nat /\ ticks \in Nat
  /\ callbacks \subseteq Nat \X Procs
  /\ cbMu \in BOOLEAN /\ decErr \in BOOLEAN /\ eof \in BOOLEAN
  /\ crashed \in BOOLEAN
  /\ pc \in [Procs -> {"idle", "begin", "add", "send", "wait", "cleanup",
                       "account", "exited"}]
  /\ req \in [Procs -> Nat]
  /\ canceled \subseteq Callers
  /\ chVal \in [Procs -> Responses \cup {NoResp}]
  /\ chClosed \in [Procs -> BOOLEAN]
  /\ got \in [Procs -> Responses \cup {NoResp}]
  /\ ret \in [Procs -> {"none", "nil", "ctx", "closedNetwork", "error"}]
  /\ lpc \in {"recv", "echo", "lookup", "deliver", "finish", "exited"}
  /\ lmsg \in Responses \cup {NoResp}
  /\ tpc \in {"wait", "send", "exited"}
  /\ echoOK \in Nat /\ echoFail \in Nat
  /\ closePC \in {"open", "canceled", "waiting", "closed"}
  /\ encErr \in {"none", "closedNetwork", "error"}
  /\ toServer \subseteq Nat
  /\ toClient \in Seq(Messages)

\* New: the background goroutines start with no RPC in flight.
Init ==
  /\ rpcID = 0 /\ callbacks = {} /\ cbMu = FALSE
  /\ pc = [p \in Procs |-> "idle"] /\ req = [p \in Procs |-> 0]
  /\ canceled = {}
  /\ chVal = [p \in Procs |-> NoResp] /\ chClosed = [p \in Procs |-> FALSE]
  /\ got = [p \in Procs |-> NoResp] /\ ret = [p \in Procs |-> "none"]
  /\ lpc = "recv" /\ lmsg = NoResp /\ decErr = FALSE
  /\ tpc = IF EchoInterval THEN "wait" ELSE "exited"
  /\ echoOK = 0 /\ echoFail = 0 /\ closePC = "open"
  /\ toServer = {} /\ toClient = <<>> /\ eof = FALSE /\ encErr = "none"
  /\ crashed = FALSE
  /\ calls = 0 /\ unsolicited = 0 /\ ticks = 0

----------------------------------------------------------------------------
(* Users of the client: ListDatabases, Echo and Transact are one call of   *)
(* rpc() each; their context may be canceled or expire at any moment.      *)

Call(p) ==
  /\ pc[p] = "idle" /\ calls < MaxCalls
  /\ calls' = calls + 1
  /\ pc' = [pc EXCEPT ![p] = "begin"]
  /\ canceled' = canceled \ {p}
  /\ got' = [got EXCEPT ![p] = NoResp]
  /\ ret' = [ret EXCEPT ![p] = "none"]
  /\ UNCHANGED <<rpcID, req, chanVars, listenVars, echoVars, wireVars,
                 closePC, crashed>>

Cancel(p) ==
  /\ pc[p] # "idle" /\ p \notin canceled
  /\ canceled' = canceled \cup {p}
  /\ UNCHANGED <<rpcID, pc, req, got, ret, calls, chanVars, listenVars,
                 echoVars, wireVars, closePC, crashed>>

----------------------------------------------------------------------------
(* rpc(), performed by a caller or by echoLoop.                            *)

\* Mutant: echoLoop ends after its first echo.
AfterRPC_Stop(p) == IF p = EchoLoop THEN "stopped" ELSE "idle"

\* Where a goroutine goes when its rpc() returns.
AfterRPC(p) == IF p = EchoLoop THEN "account" ELSE "idle"

Return(p, err, next) ==
  /\ ret' = [ret EXCEPT ![p] = err]
  /\ pc' = [pc EXCEPT ![p] = next]

\* The context was done before the RPC was sent: nothing to clean up.
BeginCanceled(p) ==
  /\ pc[p] = "begin" /\ CtxDone(p)
  /\ Return(p, CtxErr(p), AfterRPC(p))
  /\ UNCHANGED <<rpcID, req, canceled, got, calls, chanVars, listenVars,
                 echoVars, wireVars, closePC, crashed>>

\* Mutant: the counter is read but never advanced.
RequestID_Stuck == rpcID

\* requestID increments atomically and returns the new value.
RequestID == rpcID + 1

Begin(p) ==
  /\ pc[p] = "begin" /\ ~CtxDone(p)
  /\ rpcID' = RequestID
  /\ req' = [req EXCEPT ![p] = RequestID]
  /\ chVal' = [chVal EXCEPT ![p] = NoResp]
  /\ chClosed' = [chClosed EXCEPT ![p] = FALSE]
  /\ pc' = [pc EXCEPT ![p] = "add"]
  /\ UNCHANGED <<canceled, got, ret, calls, callbacks, listenVars, echoVars,
                 wireVars, closePC, crashed>>

Registered(id) == \E q \in Procs : <<id, q>> \in callbacks

AddCallback(p) ==
  /\ pc[p] = "add" /\ ~cbMu
  /\ IF Registered(req[p])
     THEN /\ crashed' = TRUE
          /\ UNCHANGED <<callbacks, pc>>
     ELSE /\ callbacks' = callbacks \cup {<<req[p], p>>}
          /\ pc' = [pc EXCEPT ![p] = "send"]
          /\ UNCHANGED crashed
  /\ UNCHANGED <<rpcID, req, canceled, got, ret, calls, chVal, chClosed,
                 listenVars, echoVars, wireVars, closePC>>

\* A write succeeds while the socket is open on this side; it may also
\* succeed once the server has closed, and is then never answered.
Send(p) ==
  /\ pc[p] = "send" /\ encErr = "none" /\ ~ConnClosed
  /\ toServer' = toServer \cup {req[p]}
  /\ pc' = [pc EXCEPT ![p] = "wait"]
  /\ UNCHANGED <<rpcID, req, canceled, got, ret, calls, chanVars, listenVars,
                 echoVars, toClient, eof, encErr, unsolicited, closePC, crashed>>

\* How a write to the socket may fail.
WriteErrors ==
  IF ConnClosed THEN {"closedNetwork"} ELSE IF eof THEN {"error"} ELSE {}

\* Encode repeats the error of an earlier write; else it marshals, which may
\* fail for the arguments of a user's request and leaves no trace; else it
\* writes, and keeps the error of the write.
SendError(p) ==
  /\ pc[p] = "send"
  /\ \/ /\ encErr # "none"
        /\ Return(p, encErr, "cleanup")
        /\ UNCHANGED encErr
     \/ /\ encErr = "none" /\ p \in Callers
        /\ Return(p, "error", "cleanup")
        /\ UNCHANGED encErr
     \/ /\ encErr = "none"
        /\ encErr' \in WriteErrors
        /\ Return(p, encErr', "cleanup")
  /\ UNCHANGED <<rpcID, req, canceled, got, calls, chanVars, listenVars,
                 echoVars, toServer, toClient, eof, unsolicited, closePC, crashed>>

\* Mutant: the select in rpc() forgets its ctx.Done() case.
AwaitCanceled_Never(p) == FALSE /\ UNCHANGED vars

AwaitCanceled(p) ==
  /\ pc[p] = "wait" /\ CtxDone(p)
  /\ Return(p, CtxErr(p), "cleanup")
  /\ UNCHANGED <<rpcID, req, canceled, got, calls, chanVars, listenVars,
                 echoVars, wireVars, closePC, crashed>>

AwaitResponse(p) ==
  /\ pc[p] = "wait" /\ chVal[p] # NoResp
  /\ got' = [got EXCEPT ![p] = chVal[p]]
  /\ chVal' = [chVal EXCEPT ![p] = NoResp]
  /\ Return(p, RpcResult(chVal[p].body), "cleanup")
  /\ UNCHANGED <<rpcID, req, canceled, calls, callbacks, chClosed, listenVars,
                 echoVars, wireVars, closePC, crashed>>

\* The channel was closed and is empty: "return ctx.Err()".
AwaitClosed(p) ==
  /\ pc[p] = "wait" /\ chClosed[p] /\ chVal[p] = NoResp
  /\ Return(p, CtxErr(p), "cleanup")
  /\ UNCHANGED <<rpcID, req, canceled, got, calls, chanVars, listenVars,
                 echoVars, wireVars, closePC, crashed>>

\* Mutant: only a successful RPC deletes its callback.
Without_OnlyDelivered(id) ==
  {cb \in callbacks : cb[1] # id \/ ret[cb[2]] = "ctx"}

\* delete(c.callbacks, id).
Without(id) == {cb \in callbacks : cb[1] # id}

\* The deferred delete from the callback map; with rpc() returned, nothing
\* refers to the channel any more.
Cleanup(p) ==
  /\ pc[p] = "cleanup" /\ ~cbMu
  /\ callbacks' = Without(req[p])
  /\ chVal' = [chVal EXCEPT ![p] = NoResp]
  /\ chClosed' = [chClosed EXCEPT ![p] = FALSE]
  /\ pc' = [pc EXCEPT ![p] = AfterRPC(p)]
  /\ UNCHANGED <<rpcID, req, canceled, got, ret, calls, listenVars, echoVars,
                 wireVars, closePC, crashed>>

----------------------------------------------------------------------------
(* listen: the only reader of the connection.                              *)

\* Messages that Receive hands to listen.  A response, and any other method
\* than echo, has its ID dereferenced; a notification's ID is null.
Receive ==
  /\ lpc = "recv" /\ ~decErr /\ toClient # <<>>
  /\ LET m == Head(toClient) IN
       \/ /\ m.kind = "echo"
          /\ lpc' = "echo"
          /\ toClient' = Tail(toClient)
          /\ UNCHANGED <<lmsg, decErr, crashed>>
       \/ /\ m.kind = "response"
          /\ lpc' = "lookup"
          /\ lmsg' = [id |-> m.id, body |-> m.body]
          /\ toClient' = Tail(toClient)
          /\ UNCHANGED <<decErr, crashed>>
       \/ /\ m.kind = "notification"
          /\ crashed' = TRUE
          /\ toClient' = Tail(toClient)
          /\ UNCHANGED <<lpc, lmsg, decErr>>
       \/ /\ m.kind = "mistyped"
          /\ toClient' = Tail(toClient)
          /\ UNCHANGED <<lpc, lmsg, decErr, crashed>>
       \/ /\ m.kind = "malformed"
          /\ decErr' = TRUE
          /\ UNCHANGED <<lpc, lmsg, toClient, crashed>>
  /\ UNCHANGED <<rpcVars, chanVars, cbMu, echoVars, toServer, eof, encErr,
                 unsolicited, closePC>>

\* io.EOF, or an error that names the closed connection, ends listen.  After
\* any other decoder error listen tries again, and the decoder repeats it:
\* with decErr set no step of listen changes the state.
ReceiveClosed ==
  /\ lpc = "recv" /\ ~decErr
  /\ ConnClosed \/ (eof /\ toClient = <<>>)
  /\ lpc' = "exited"
  /\ UNCHANGED <<rpcVars, chanVars, cbMu, lmsg, decErr, echoVars, wireVars,
                 closePC, crashed>>

\* Mutant: a default case instead of ctx.Done(): the request is dropped
\* whenever echoLoop is not ready at once.
ListenEchoCanceled_Default ==
  /\ lpc = "echo"
  /\ lpc' = "recv"
  /\ UNCHANGED <<rpcVars, chanVars, cbMu, lmsg, decErr, echoVars, wireVars,
                 closePC, crashed>>

\* Mutant: a plain send on echoC that no cancellation interrupts.
ListenEchoCanceled_Never == FALSE /\ UNCHANGED vars

ListenEchoCanceled ==
  /\ lpc = "echo" /\ ClientCtxDone
  /\ lpc' = "recv"
  /\ UNCHANGED <<rpcVars, chanVars, cbMu, lmsg, decErr, echoVars, wireVars,
                 closePC, crashed>>

\* doCallback, in three steps because cbMu stays locked across its select.
Lookup ==
  /\ lpc = "lookup" /\ ~cbMu
  /\ IF Registered(lmsg.id)
     THEN lpc' = "deliver" /\ cbMu' = TRUE
     ELSE lpc' = "recv" /\ UNCHANGED cbMu
  /\ UNCHANGED <<rpcVars, chanVars, lmsg, decErr, echoVars, wireVars, closePC,
                 crashed>>

\* Mutant: the reply goes to whichever RPC waits, whatever its ID.
IsCallback_Any(q) == \E id \in 0..rpcID : <<id, q>> \in callbacks

\* The callback that doCallback looked up is goroutine q's.
IsCallback(q) == <<lmsg.id, q>> \in callbacks

\* Mutant: the reply is dropped when the RPC has not begun to wait for it.
GiveUp_NotWaiting(q) == CtxDone(q) \/ pc[q] = "send"

\* The request's context is done, so its reply may be dropped.
GiveUp(q) == CtxDone(q)

\* The select: give up, or send.  A send on a full channel waits, a send on
\* a closed one panics.
Deliver(q) ==
  /\ lpc = "deliver" /\ IsCallback(q)
  /\ \/ /\ GiveUp(q)
        /\ UNCHANGED <<chVal, crashed>>
     \/ /\ chClosed[q] \/ chVal[q] = NoResp
        /\ chVal' = [chVal EXCEPT ![q] = IF chClosed[q] THEN @ ELSE lmsg]
        /\ crashed' = chClosed[q]
  /\ lpc' = "finish"
  /\ UNCHANGED <<rpcVars, callbacks, chClosed, cbMu, lmsg, decErr, echoVars,
                 wireVars, closePC>>

\* Mutant: the callback is left to rpc() to delete.
Finish_NoDelete(q) ==
  /\ lpc = "finish" /\ IsCallback(q)
  /\ cbMu' = FALSE
  /\ lpc' = "recv"
  /\ UNCHANGED <<rpcVars, chanVars, lmsg, decErr, echoVars, wireVars,
                 closePC, crashed>>

\* Mutant: cbMu is not unlocked.
Finish_NoUnlock(q) ==
  /\ lpc = "finish" /\ IsCallback(q)
  /\ callbacks' = Without(lmsg.id)
  /\ chClosed' = [chClosed EXCEPT ![q] = TRUE]
  /\ lpc' = "recv"
  /\ UNCHANGED <<rpcVars, chVal, cbMu, lmsg, decErr, echoVars, wireVars,
                 closePC, crashed>>

\* delete, then the deferred close and unlock.
Finish(q) ==
  /\ lpc = "finish" /\ IsCallback(q)
  /\ callbacks' = Without(lmsg.id)
  /\ chClosed' = [chClosed EXCEPT ![q] = TRUE]
  /\ cbMu' = FALSE
  /\ lpc' = "recv"
  /\ UNCHANGED <<rpcVars, chVal, lmsg, decErr, echoVars, wireVars, closePC,
                 crashed>>

----------------------------------------------------------------------------
(* echoTicker and echoLoop meet on the unbuffered channel echoC.           *)

Tick ==
  /\ tpc = "wait" /\ ~ClientCtxDone /\ ticks < MaxTicks
  /\ ticks' = ticks + 1
  /\ tpc' = "send"
  /\ UNCHANGED <<rpcVars, chanVars, listenVars, echoOK, echoFail, wireVars,
                 closePC, crashed>>

TickerExit ==
  /\ tpc \in {"wait", "send"} /\ ClientCtxDone
  /\ tpc' = "exited"
  /\ UNCHANGED <<rpcVars, chanVars, listenVars, echoOK, echoFail, ticks,
                 wireVars, closePC, crashed>>

\* echoLoop receives from echoC, and leaves if the context is done by then.
EchoReceive ==
  /\ pc[EchoLoop] = "idle"
  /\ IF ClientCtxDone
     THEN /\ pc' = [pc EXCEPT ![EchoLoop] = "exited"]
          /\ UNCHANGED <<got, ret>>
     ELSE /\ pc' = [pc EXCEPT ![EchoLoop] = "begin"]
          /\ got' = [got EXCEPT ![EchoLoop] = NoResp]
          /\ ret' = [ret EXCEPT ![EchoLoop] = "none"]
  /\ UNCHANGED <<rpcID, req, canceled, calls, chanVars, cbMu, lmsg, decErr,
                 echoOK, echoFail, ticks, wireVars, closePC, crashed>>

\* listen hands the server's echo request to echoLoop.
ListenEcho ==
  /\ lpc = "echo"
  /\ lpc' = "recv"
  /\ EchoReceive
  /\ UNCHANGED tpc

TickerEcho ==
  /\ tpc = "send"
  /\ tpc' = "wait"
  /\ EchoReceive
  /\ UNCHANGED lpc

EchoExit ==
  /\ pc[EchoLoop] = "idle" /\ ClientCtxDone
  /\ pc' = [pc EXCEPT ![EchoLoop] = "exited"]
  /\ UNCHANGED <<rpcID, req, canceled, got, ret, calls, chanVars, listenVars,
                 echoVars, wireVars, closePC, crashed>>

\* A closed socket is not counted; any other error is a failure.
EchoAccount ==
  /\ pc[EchoLoop] = "account"
  /\ echoOK' = IF ret[EchoLoop] = "nil" THEN echoOK + 1 ELSE echoOK
  /\ echoFail' = IF ret[EchoLoop] \in {"nil", "closedNetwork"}
                 THEN echoFail ELSE echoFail + 1
  /\ pc' = [pc EXCEPT ![EchoLoop] = "idle"]
  /\ UNCHANGED <<rpcID, req, canceled, got, ret, calls, chanVars, listenVars,
                 tpc, ticks, wireVars, closePC, crashed>>

----------------------------------------------------------------------------
(* Close: cancel, close the socket, wait for the background goroutines.    *)

CloseCancel ==
  /\ closePC = "open"
  /\ closePC' = "canceled"
  /\ UNCHANGED <<rpcVars, chanVars, listenVars, echoVars, wireVars, crashed>>

CloseConn ==
  /\ closePC = "canceled"
  /\ closePC' = "waiting"
  /\ UNCHANGED <<rpcVars, chanVars, listenVars, echoVars, wireVars, crashed>>

\* Mutant: wg counts one goroutine too few, and echoLoop is the last.
BackgroundExited_OneShort == lpc = "exited" /\ tpc = "exited"

\* wg.Wait() returns.
BackgroundExited ==
  lpc = "exited" /\ tpc = "exited" /\ pc[EchoLoop] = "exited"

CloseReturn ==
  /\ closePC = "waiting" /\ BackgroundExited
  /\ closePC' = "closed"
  /\ UNCHANGED <<rpcVars, chanVars, listenVars, echoVars, wireVars, crashed>>

----------------------------------------------------------------------------
(* ovsdb-server: answers requests in any order, or never, and may send     *)
(* what Unsolicited allows.                                                *)

ServerUp == ~eof /\ ~ConnClosed

Reply(id, body) ==
  /\ ServerUp
  /\ id \in toServer
  /\ toServer' = toServer \ {id}
  /\ toClient' = Append(toClient,
                        [kind |-> "response", id |-> id, body |-> body])
  /\ UNCHANGED <<rpcVars, chanVars, listenVars, echoVars, eof, encErr,
                 unsolicited, closePC, crashed>>

ServerSend(m) ==
  /\ toClient' = Append(toClient, m)
  /\ UNCHANGED eof

\* A stray response may repeat an old ID, guess one in flight, or name none.
SendUnsolicited(kind) ==
  /\ ServerUp /\ unsolicited < MaxUnsolicited
  /\ unsolicited' = unsolicited + 1
  /\ \/ /\ kind \in {"echo", "notification", "mistyped", "malformed"}
        /\ ServerSend([kind |-> kind])
     \/ /\ kind = "stray"
        /\ \E id \in 0..rpcID, body \in Bodies :
             ServerSend([kind |-> "response", id |-> id, body |-> body])
     \/ /\ kind = "eof"
        /\ eof' = TRUE
        /\ UNCHANGED toClient
  /\ UNCHANGED <<rpcVars, chanVars, listenVars, echoVars, toServer, encErr,
                 closePC, crashed>>

----------------------------------------------------------------------------
RPC(p) ==
  \/ BeginCanceled(p) \/ Begin(p) \/ AddCallback(p)
  \/ Send(p) \/ SendError(p)
  \/ AwaitCanceled(p) \/ AwaitResponse(p) \/ AwaitClosed(p)
  \/ Cleanup(p)

Listen ==
  \/ Receive \/ ReceiveClosed \/ ListenEchoCanceled
  \/ Lookup
  \/ \E q \in Procs : Deliver(q) \/ Finish(q)

Echo == ListenEcho \/ TickerEcho \/ EchoExit \/ EchoAccount

Ticker == Tick \/ TickerExit

Close == CloseCancel \/ CloseConn \/ CloseReturn

Server ==
  \/ \E id \in toServer, body \in Bodies : Reply(id, body)
  \/ \E kind \in Unsolicited : SendUnsolicited(kind)

Next ==
  /\ ~crashed
  /\ \/ \E p \in Callers : Call(p) \/ Cancel(p)
     \/ \E p \in Procs : RPC(p)
     \/ Listen \/ Echo \/ Ticker \/ Close \/ Server

Spec == Init /\ [][Next]_vars

\* Goroutines run: the Go scheduler is fair and its mutexes do not starve.
\* Users need not call, cancel or close; once called, Close goes on.  The
\* server owes nothing here.
Fairness ==
  /\ \A p \in Procs : WF_vars(~crashed /\ RPC(p))
  /\ WF_vars(~crashed /\ Listen)
  /\ WF_vars(~crashed /\ Echo)
  /\ WF_vars(~crashed /\ Ticker)
  /\ WF_vars(~crashed /\ (CloseConn \/ CloseReturn))

FairSpec == Spec /\ Fairness

\* In addition, the server answers every request it receives.
AnsweringSpec ==
  FairSpec /\ WF_vars(~crashed /\ \E id \in toServer, body \in Bodies :
                                    Reply(id, body))

----------------------------------------------------------------------------
(* Properties.                                                             *)

\* No goroutine panics: request IDs never collide in addCallback, and
\* doCallback never sends on a channel that an earlier reply closed.  That
\* holds for servers that send no notification but echo; any other has a null
\* ID, which listen dereferences.
NoPanic == ~crashed

\* Whatever reaches an RPC, buffered in its channel or taken from it, bears
\* the ID of the request that this very call sent, even when replies are
\* late, repeated or out of order and the goroutine has moved on to its next
\* call.
RepliesMatch ==
  \A p \in Procs :
    /\ got[p] # NoResp => got[p].id = req[p]
    /\ pc[p] \in {"send", "wait"} /\ chVal[p] # NoResp => chVal[p].id = req[p]

\* rpc() returns a nil error only with a usable result in hand: the branch
\* that finds the channel closed and empty and returns ctx.Err() never turns
\* into a success without data.
NilMeansResult ==
  \A p \in Procs :
    ret[p] = "nil" => got[p].id = req[p] /\ got[p].body = "result"

\* Every entry of the callback map belongs to an rpc() that is still running
\* under that ID, so nothing stays behind once the calls have returned.
NoCallbackLeak ==
  \A cb \in callbacks :
    /\ pc[cb[2]] \in {"send", "wait", "cleanup"}
    /\ req[cb[2]] = cb[1]

\* doCallback holds cbMu during its select, so it must not wait there: the
\* one-slot channel of a registered callback is always empty and open.
DeliverNeverBlocks ==
  \A q \in Procs :
    lpc = "deliver" /\ IsCallback(q) => chVal[q] = NoResp /\ ~chClosed[q]

\* Once Close has returned, no background goroutine touches the client any
\* more: statistics are final, no echo is in flight, nothing is delivered.
QuietAfterClose ==
  [][closePC = "closed" =>
       /\ UNCHANGED <<echoOK, echoFail, cbMu>>
       /\ \A p \in Procs : /\ chVal'[p] \in {chVal[p], NoResp}
                           /\ chClosed'[p] => chClosed[p]
       /\ EchoLoop \notin {cb[2] : cb \in callbacks \cup callbacks'}]_vars

\* Close returns: canceling the context and closing the socket release
\* every background goroutine, wherever it is blocked.
CloseReturns == closePC = "canceled" ~> closePC = "closed"

\* "All methods on the Client that accept a context.Context can use the
\* context to cancel or time out requests": a canceled call returns.
CanceledCallReturns ==
  \A p \in Callers :
    pc[p] # "idle" /\ p \in canceled ~> pc[p] = "idle"

\* The server's answer is waiting to be read by listen.
Answered(p) ==
  /\ pc[p] = "wait"
  /\ \E i \in DOMAIN toClient :
       toClient[i].kind = "response" /\ toClient[i].id = req[p]

\* listen waits for echoLoop to take an echo request, and echoLoop for a reply
\* that only listen can deliver.
EchoStall == lpc = "echo" /\ pc[EchoLoop] = "wait"

\* A call whose answer has arrived returns, with server echoes, ticks, strays,
\* a mistyped message or a lost connection in between, unless the client is
\* closed or listen and echoLoop wait for each other for ever: nothing else
\* that listen or doCallback meets keeps a reply from its call.  (A message
\* that is not JSON ends all reading; the server of this run sends none.)
AnsweredCallReturns ==
  \A p \in Callers :
    Answered(p) ~> pc[p] = "idle" \/ ClientCtxDone \/ []EchoStall

\* An echo request that listen has read makes echoLoop send an echo, also when
\* it meets a tick, unless the client is closed or that same circle is
\* entered: a request is never dropped because echoLoop is not ready.
EchoTakenOrStalled ==
  lpc = "echo" ~> pc[EchoLoop] = "send" \/ ClientCtxDone \/ []EchoStall

\* "the Client will always reply to those on behalf of the user": the
\* server's echo request makes echoLoop send an echo, unless the client is
\* closed first.
EchoRequestHonoured ==
  lpc = "echo" ~> pc[EchoLoop] = "send" \/ ClientCtxDone
=============================================================================
