------------------------- MODULE OvsdbClientProofs --------------------------
(***************************************************************************)
(* Safety of the OVSDB client for any number of callers, any payloads and  *)
(* any bounds: the inductive invariant behind the properties that          *)
(* OvsdbClient states, and the theorems.  The refinement of RpcCalls rests *)
(* on the same invariant and on the fact that the server holds no request  *)
(* that was never issued.                                                  *)
(***************************************************************************)
EXTENDS OvsdbRefinement, TLAPS

\* Request IDs: never ahead of the counter, never shared, never the initial
\* zero while a request is under way.
RequestIDs ==
  /\ \A p \in Procs : req[p] <= rpcID
  /\ \A p, q \in Procs : p # q /\ req[p] = req[q] => req[p] = 0
  /\ \A p \in Procs :
       pc[p] \in {"add", "send", "wait", "cleanup"} => req[p] # 0

\* While listen is inside doCallback it holds cbMu and has a real response.
CallbackLocked ==
  /\ lpc \in {"deliver", "finish"} => cbMu
  /\ lpc \in {"lookup", "deliver", "finish"} => lmsg # NoResp

\* A channel holds nothing but the reply to its own request; as long as its
\* callback is registered it is open, and empty until listen has delivered.
Channels ==
  /\ \A p \in Procs : chVal[p] # NoResp => chVal[p].id = req[p]
  /\ \A p \in Procs : pc[p] = "add" => chVal[p] = NoResp /\ ~chClosed[p]
  /\ \A cb \in callbacks : ~chClosed[cb[2]]
  /\ \A cb \in callbacks :
       chVal[cb[2]] # NoResp => lpc = "finish" /\ lmsg.id = cb[1]

\* A channel that is closed, or about to be, and empty belongs to a request
\* whose context is done: this is what "return ctx.Err()" relies on.
EmptyMeansDone ==
  \A p \in Procs :
    pc[p] \in {"send", "wait"} /\ chVal[p] = NoResp =>
      /\ chClosed[p] => CtxDone(p)
      /\ lpc = "finish" /\ IsCallback(p) => CtxDone(p)

\* What rpc() has taken from its channel and what it returns agree.
Returns ==
  /\ \A p \in Procs : pc[p] = "begin" => got[p] = NoResp /\ ret[p] = "none"
  /\ \A p \in Procs : got[p] # NoResp => got[p].id = req[p]
  /\ NilMeansResult

IndInv ==
  /\ TypeOK
  /\ RequestIDs
  /\ NoCallbackLeak
  /\ CallbackLocked
  /\ Channels
  /\ EmptyMeansDone
  /\ Returns

\* Close returns only after the background goroutines, and they stay exited.
ClosedInv == closePC = "closed" => BackgroundExited

\* No notification is on its way to a client whose server never sends any.
NoNotification ==
  \A i \in DOMAIN toClient : toClient[i].kind # "notification"

----------------------------------------------------------------------------
(* Type correctness.                                                       *)

\* The state New builds is well typed, with or without a ticker.
LEMMA TypeInit == Init => TypeOK
<1> SUFFICES ASSUME Init PROVE TypeOK
  OBVIOUS
<1>1. toClient \in Seq(Messages)
  BY DEF Init
<1>2. tpc \in {"wait", "send", "exited"} /\ callbacks \subseteq Nat \X Procs
  BY ClientAssumption DEF Init
<1> QED
  BY <1>1, <1>2 DEF Init, TypeOK

\* Every step keeps the types: one case per operation of the client, of its
\* users and of the server.
LEMMA TypeStep == TypeOK /\ [Next]_vars => TypeOK'
<1> SUFFICES ASSUME TypeOK, [Next]_vars PROVE TypeOK'
  OBVIOUS
<1> USE DEF TypeOK, rpcVars, chanVars, listenVars, echoVars, wireVars
<1>1. ASSUME NEW p \in Callers, Call(p) PROVE TypeOK'
  BY <1>1 DEF Call, Procs
<1>2. ASSUME NEW p \in Callers, Cancel(p) PROVE TypeOK'
  BY <1>2 DEF Cancel, Procs
<1>3. ASSUME NEW p \in Procs, BeginCanceled(p) PROVE TypeOK'
  BY <1>3 DEF BeginCanceled, Return, CtxErr, AfterRPC
<1>4. ASSUME NEW p \in Procs, Begin(p) PROVE TypeOK'
  BY <1>4 DEF Begin, RequestID
<1>5. ASSUME NEW p \in Procs, AddCallback(p) PROVE TypeOK'
  <2>1. callbacks' \subseteq Nat \X Procs
    BY <1>5 DEF AddCallback
  <2>2. pc' \in [Procs -> {"idle", "begin", "add", "send", "wait", "cleanup",
                          "account", "exited"}] /\ crashed' \in BOOLEAN
    BY <1>5 DEF AddCallback
  <2> QED
    BY <1>5, <2>1, <2>2 DEF AddCallback
<1>6. ASSUME NEW p \in Procs, Send(p) PROVE TypeOK'
  <2>1. toServer' \subseteq Nat
    BY <1>6 DEF Send
  <2> QED
    BY <1>6, <2>1 DEF Send
<1>7. ASSUME NEW p \in Procs, SendError(p) PROVE TypeOK'
  <2>1. encErr' \in {"none", "closedNetwork", "error"}
    BY <1>7 DEF SendError, WriteErrors
  <2>2. \E err \in {"closedNetwork", "error"} : Return(p, err, "cleanup")
    BY <1>7 DEF SendError, WriteErrors
  <2> QED
    BY <1>7, <2>1, <2>2 DEF SendError, Return
<1>8. ASSUME NEW p \in Procs, AwaitCanceled(p) PROVE TypeOK'
  BY <1>8 DEF AwaitCanceled, Return, CtxErr
<1>9. ASSUME NEW p \in Procs, AwaitResponse(p) PROVE TypeOK'
  BY <1>9 DEF AwaitResponse, Return, RpcResult
<1>10. ASSUME NEW p \in Procs, AwaitClosed(p) PROVE TypeOK'
  BY <1>10 DEF AwaitClosed, Return, CtxErr
<1>11. ASSUME NEW p \in Procs, Cleanup(p) PROVE TypeOK'
  BY <1>11 DEF Cleanup, AfterRPC, Without
<1>12. ASSUME NEW p \in Procs, Deliver(p) PROVE TypeOK'
  <2>1. /\ chVal' \in [Procs -> Responses \cup {NoResp}]
        /\ crashed' \in BOOLEAN /\ lpc' = "finish"
    BY <1>12 DEF Deliver
  <2> QED
    BY <1>12, <2>1 DEF Deliver
<1>13. ASSUME NEW p \in Procs, Finish(p) PROVE TypeOK'
  BY <1>13 DEF Finish, Without
<1>14. ASSUME Receive PROVE TypeOK'
  <2> DEFINE m == Head(toClient)
  <2>1. m \in Messages /\ Tail(toClient) \in Seq(Messages)
    BY <1>14 DEF Receive
  <2>2. m.kind = "response" => [id |-> m.id, body |-> m.body] \in Responses
    BY <2>1 DEF Messages, Responses
  <2>3. /\ toClient' \in {toClient, Tail(toClient)}
        /\ lpc' \in {lpc, "echo", "lookup"}
        /\ decErr' \in BOOLEAN /\ crashed' \in BOOLEAN
    BY <1>14 DEF Receive
  <2>4. lmsg' \in Responses \cup {NoResp}
    BY <1>14, <2>2 DEF Receive
  <2> QED
    BY <1>14, <2>1, <2>3, <2>4 DEF Receive
<1>15. ASSUME ReceiveClosed PROVE TypeOK'
  BY <1>15 DEF ReceiveClosed
<1>16. ASSUME ListenEchoCanceled PROVE TypeOK'
  BY <1>16 DEF ListenEchoCanceled
<1>17. ASSUME Lookup PROVE TypeOK'
  BY <1>17 DEF Lookup
<1>18. ASSUME ListenEcho PROVE TypeOK'
  BY ZenonT(60), <1>18 DEF ListenEcho, EchoReceive
<1>19. ASSUME TickerEcho PROVE TypeOK'
  BY ZenonT(60), <1>19 DEF TickerEcho, EchoReceive
<1>20. ASSUME EchoExit PROVE TypeOK'
  BY ZenonT(60), <1>20 DEF EchoExit
<1>21. ASSUME EchoAccount PROVE TypeOK'
  <2>1. echoOK' \in Nat /\ echoFail' \in Nat
    BY <1>21 DEF EchoAccount
  <2>2. pc' \in [Procs -> {"idle", "begin", "add", "send", "wait", "cleanup",
                          "account", "exited"}]
    BY <1>21 DEF EchoAccount
  <2> QED
    BY <1>21, <2>1, <2>2 DEF EchoAccount
<1>22. ASSUME Tick PROVE TypeOK'
  BY <1>22 DEF Tick
<1>23. ASSUME TickerExit PROVE TypeOK'
  BY <1>23 DEF TickerExit
<1>24. ASSUME CloseCancel PROVE TypeOK'
  BY <1>24 DEF CloseCancel
<1>25. ASSUME CloseConn PROVE TypeOK'
  BY <1>25 DEF CloseConn
<1>26. ASSUME CloseReturn PROVE TypeOK'
  BY <1>26 DEF CloseReturn
<1>27. ASSUME NEW id \in toServer, NEW body \in Bodies, Reply(id, body)
       PROVE TypeOK'
  BY <1>27, ClientAssumption DEF Reply, Messages
<1>28. ASSUME NEW kind \in Unsolicited, SendUnsolicited(kind) PROVE TypeOK'
  <2>1. CASE /\ kind \in {"echo", "notification", "mistyped", "malformed"}
             /\ ServerSend([kind |-> kind])
    BY <1>28, <2>1 DEF SendUnsolicited, ServerSend, Messages
  <2>2. ASSUME NEW id \in 0..rpcID, NEW body \in Bodies,
               ServerSend([kind |-> "response", id |-> id, body |-> body])
        PROVE TypeOK'
    BY <1>28, <2>2, ClientAssumption DEF SendUnsolicited, ServerSend, Messages
  <2>3. CASE eof' = TRUE /\ UNCHANGED toClient
    BY <1>28, <2>3 DEF SendUnsolicited
  <2> QED
    BY <1>28, <2>1, <2>2, <2>3 DEF SendUnsolicited
<1>29. ASSUME UNCHANGED vars PROVE TypeOK'
  BY <1>29 DEF vars
<1> QED
  BY <1>1, <1>2, <1>3, <1>4, <1>5, <1>6, <1>7, <1>8, <1>9, <1>10, <1>11, <1>12, <1>13, <1>14, <1>15, <1>16, <1>17, <1>18, <1>19, <1>20, <1>21, <1>22, <1>23, <1>24, <1>25, <1>26, <1>27, <1>28, <1>29
     DEF Next, RPC, Listen, Echo, Ticker, Close, Server

\* Type correctness of the client.
THEOREM TypeCorrect == Spec => []TypeOK
  BY TypeInit, TypeStep, PTL DEF Spec

----------------------------------------------------------------------------
(* The inductive invariant.                                                *)

\* New starts with an empty callback map, cbMu unlocked and no RPC in flight.
LEMMA IndInit == Init => IndInv
<1> SUFFICES ASSUME Init PROVE IndInv
  OBVIOUS
<1>1. TypeOK
  BY TypeInit
<1> QED
  BY <1>1 DEF Init, IndInv, RequestIDs, NoCallbackLeak, CallbackLocked,
     Channels, EmptyMeansDone, Returns, NilMeansResult

\* Every step keeps the invariant.  What carries the argument: a fresh ID is
\* above all others (Begin); the callback belongs to exactly one goroutine
\* (AddCallback, Deliver, Finish); cbMu keeps everyone else from the map
\* while listen delivers; and an RPC leaves only after its own delete.
LEMMA IndStep == IndInv /\ [Next]_vars => IndInv'
<1> SUFFICES ASSUME IndInv, [Next]_vars PROVE IndInv'
  OBVIOUS
<1>0. TypeOK /\ TypeOK'
  BY TypeStep DEF IndInv
<1> USE DEF IndInv, rpcVars, chanVars, listenVars, echoVars, wireVars
<1>1. ASSUME NEW p \in Callers, Call(p) PROVE IndInv'
  BY <1>0, <1>1 DEF TypeOK, Procs, Call, RequestIDs, NoCallbackLeak,
     CallbackLocked, Channels, EmptyMeansDone, IsCallback, CtxDone,
     ClientCtxDone, Returns, NilMeansResult
<1>2. ASSUME NEW p \in Callers, Cancel(p) PROVE IndInv'
  BY <1>0, <1>2 DEF TypeOK, Procs, Cancel, RequestIDs, NoCallbackLeak,
     CallbackLocked, Channels, EmptyMeansDone, IsCallback, CtxDone,
     ClientCtxDone, Returns, NilMeansResult
<1>3. ASSUME NEW p \in Procs, BeginCanceled(p) PROVE IndInv'
  BY <1>0, <1>3 DEF TypeOK, Procs, BeginCanceled, Return, CtxErr, AfterRPC,
     RequestIDs, NoCallbackLeak, CallbackLocked, Channels, EmptyMeansDone,
     IsCallback, CtxDone, ClientCtxDone, Returns, NilMeansResult
<1>4. ASSUME NEW p \in Procs, Begin(p) PROVE IndInv'
  <2>1. RequestIDs'
    BY <1>0, <1>4 DEF TypeOK, Procs, Begin, RequestID, RequestIDs
  <2>2. NoCallbackLeak' /\ CallbackLocked' /\ Channels'
    BY <1>0, <1>4 DEF TypeOK, Procs, Begin, RequestID, RequestIDs,
       NoCallbackLeak, CallbackLocked, Channels
  <2>3. EmptyMeansDone'
    BY <1>0, <1>4 DEF TypeOK, Procs, Begin, RequestID, EmptyMeansDone,
       CtxDone, ClientCtxDone, IsCallback
  <2>4. Returns'
    BY <1>0, <1>4 DEF TypeOK, Procs, Begin, RequestID, Returns,
       NilMeansResult
  <2> QED
    BY <1>0, <2>1, <2>2, <2>3, <2>4
<1>5. ASSUME NEW p \in Procs, AddCallback(p) PROVE IndInv'
  <2>1. RequestIDs' /\ NoCallbackLeak' /\ CallbackLocked' /\ Returns'
    BY <1>0, <1>5 DEF TypeOK, Procs, AddCallback, RequestIDs, NoCallbackLeak,
       CallbackLocked, Returns, NilMeansResult
  <2>2. Channels'
    BY <1>0, <1>5 DEF TypeOK, Procs, AddCallback, Channels, NoCallbackLeak,
       RequestIDs
  <2>3. EmptyMeansDone'
    BY <1>0, <1>5 DEF TypeOK, Procs, AddCallback, EmptyMeansDone, Channels,
       CallbackLocked, CtxDone, ClientCtxDone, IsCallback
  <2> QED
    BY <1>0, <2>1, <2>2, <2>3
<1>6. ASSUME NEW p \in Procs, Send(p) PROVE IndInv'
  BY <1>0, <1>6 DEF TypeOK, Procs, Send, RequestIDs, NoCallbackLeak,
     CallbackLocked, Channels, EmptyMeansDone, IsCallback, CtxDone,
     ClientCtxDone, Returns, NilMeansResult
<1>7. ASSUME NEW p \in Procs, SendError(p) PROVE IndInv'
  BY <1>0, <1>7 DEF TypeOK, Procs, SendError, Return, RequestIDs,
     NoCallbackLeak, CallbackLocked, Channels, EmptyMeansDone, IsCallback,
     CtxDone, ClientCtxDone, Returns, NilMeansResult
<1>8. ASSUME NEW p \in Procs, AwaitCanceled(p) PROVE IndInv'
  BY <1>0, <1>8 DEF TypeOK, Procs, AwaitCanceled, Return, CtxErr, RequestIDs,
     NoCallbackLeak, CallbackLocked, Channels, EmptyMeansDone, IsCallback,
     CtxDone, ClientCtxDone, Returns, NilMeansResult
<1>9. ASSUME NEW p \in Procs, AwaitResponse(p) PROVE IndInv'
  <2>1. RequestIDs' /\ NoCallbackLeak' /\ CallbackLocked' /\ Channels'
    BY <1>0, <1>9 DEF TypeOK, Procs, AwaitResponse, Return, RequestIDs,
       NoCallbackLeak, CallbackLocked, Channels
  <2>2. EmptyMeansDone'
    BY <1>0, <1>9 DEF TypeOK, Procs, AwaitResponse, Return, EmptyMeansDone,
       CtxDone, ClientCtxDone, IsCallback
  <2>3. Returns'
    BY <1>0, <1>9 DEF TypeOK, Procs, AwaitResponse, Return, Returns,
       NilMeansResult, RpcResult, Channels
  <2> QED
    BY <1>0, <2>1, <2>2, <2>3
<1>10. ASSUME NEW p \in Procs, AwaitClosed(p) PROVE IndInv'
  <2>1. RequestIDs' /\ NoCallbackLeak' /\ CallbackLocked' /\ Channels'
    BY <1>0, <1>10 DEF TypeOK, Procs, AwaitClosed, Return, CtxErr,
       RequestIDs, NoCallbackLeak, CallbackLocked, Channels
  <2>2. EmptyMeansDone'
    BY <1>0, <1>10 DEF TypeOK, Procs, AwaitClosed, Return, CtxErr,
       EmptyMeansDone, CtxDone, ClientCtxDone, IsCallback
  <2>3. Returns'
    BY <1>0, <1>10 DEF TypeOK, Procs, AwaitClosed, Return, CtxErr, Returns,
       NilMeansResult, EmptyMeansDone, CtxDone, ClientCtxDone
  <2> QED
    BY <1>0, <2>1, <2>2, <2>3
<1>11. ASSUME NEW p \in Procs, Cleanup(p) PROVE IndInv'
  <2>1. RequestIDs' /\ NoCallbackLeak' /\ CallbackLocked' /\ Returns'
    BY <1>0, <1>11 DEF TypeOK, Procs, Cleanup, AfterRPC, Without, RequestIDs,
       NoCallbackLeak, CallbackLocked, Returns, NilMeansResult
  <2>2. Channels'
    BY <1>0, <1>11 DEF TypeOK, Procs, Cleanup, AfterRPC, Without, Channels
  <2>3. EmptyMeansDone'
    BY <1>0, <1>11 DEF TypeOK, Procs, Cleanup, AfterRPC, Without,
       EmptyMeansDone, CtxDone, ClientCtxDone, IsCallback
  <2> QED
    BY <1>0, <2>1, <2>2, <2>3
<1>12. ASSUME Receive PROVE IndInv'
  <2>1. RequestIDs' /\ NoCallbackLeak' /\ Returns'
    BY <1>0, <1>12 DEF TypeOK, Procs, Receive, RequestIDs, NoCallbackLeak,
       Returns, NilMeansResult
  <2>2. CallbackLocked'
    <3> DEFINE m == Head(toClient)
    <3>1. m \in Messages
      BY <1>0, <1>12 DEF Receive, TypeOK
    <3>2. m.kind = "response" => [id |-> m.id, body |-> m.body] # NoResp
      BY <3>1 DEF Messages, NoResp, AllBodies
    <3> QED
      BY <1>0, <1>12, <3>2 DEF Receive, CallbackLocked
  <2>3. Channels' /\ EmptyMeansDone'
    BY <1>0, <1>12 DEF TypeOK, Procs, Receive, Channels, EmptyMeansDone,
       CtxDone, ClientCtxDone, IsCallback
  <2> QED
    BY <1>0, <2>1, <2>2, <2>3
<1>13. ASSUME ReceiveClosed PROVE IndInv'
  BY <1>0, <1>13 DEF TypeOK, Procs, ReceiveClosed, RequestIDs,
     NoCallbackLeak, CallbackLocked, Channels, EmptyMeansDone, IsCallback,
     CtxDone, ClientCtxDone, Returns, NilMeansResult
<1>14. ASSUME ListenEchoCanceled PROVE IndInv'
  BY <1>0, <1>14 DEF TypeOK, Procs, ListenEchoCanceled, RequestIDs,
     NoCallbackLeak, CallbackLocked, Channels, EmptyMeansDone, IsCallback,
     CtxDone, ClientCtxDone, Returns, NilMeansResult
<1>15. ASSUME Lookup PROVE IndInv'
  BY <1>0, <1>15 DEF TypeOK, Procs, Lookup, RequestIDs, NoCallbackLeak,
     CallbackLocked, Channels, EmptyMeansDone, IsCallback, CtxDone,
     ClientCtxDone, Returns, NilMeansResult
<1>16. ASSUME NEW p \in Procs, Deliver(p) PROVE IndInv'
  <2>1. RequestIDs' /\ NoCallbackLeak' /\ CallbackLocked' /\ Returns'
    BY <1>0, <1>16 DEF TypeOK, Procs, Deliver, RequestIDs, NoCallbackLeak,
       CallbackLocked, Returns, NilMeansResult
  <2>2. Channels'
    <3>1. /\ <<lmsg.id, p>> \in callbacks /\ req[p] = lmsg.id
          /\ ~chClosed[p] /\ pc[p] # "add"
      BY <1>0, <1>16 DEF Deliver, IsCallback, NoCallbackLeak, Channels
    <3>2. \A q \in Procs : chVal'[q] # NoResp => chVal'[q].id = req'[q]
      BY <1>0, <1>16, <3>1 DEF Deliver, TypeOK, Channels
    <3>3. \A q \in Procs :
             pc'[q] = "add" => chVal'[q] = NoResp /\ ~chClosed'[q]
      BY <1>0, <1>16, <3>1 DEF Deliver, TypeOK, Channels
    <3>4. \A cb \in callbacks' : ~chClosed'[cb[2]]
      BY <1>16 DEF Deliver, Channels
    <3>5. ASSUME NEW cb \in callbacks', chVal'[cb[2]] # NoResp
          PROVE  lpc' = "finish" /\ lmsg'.id = cb[1]
      BY <1>0, <1>16, <3>1, <3>5 DEF Deliver, TypeOK, Channels, NoCallbackLeak
    <3> QED
      BY <3>2, <3>3, <3>4, <3>5 DEF Channels
  <2>3. EmptyMeansDone'
    BY <1>0, <1>16 DEF TypeOK, Procs, Deliver, GiveUp, EmptyMeansDone,
       CtxDone, ClientCtxDone, IsCallback, NoCallbackLeak, RequestIDs,
       Channels, CallbackLocked
  <2> QED
    BY <1>0, <2>1, <2>2, <2>3
<1>17. ASSUME NEW p \in Procs, Finish(p) PROVE IndInv'
  <2>1. RequestIDs' /\ NoCallbackLeak' /\ CallbackLocked' /\ Returns'
    BY <1>0, <1>17 DEF TypeOK, Procs, Finish, Without, RequestIDs,
       NoCallbackLeak, CallbackLocked, Returns, NilMeansResult
  <2>2. Channels'
    <3>1. req[p] = lmsg.id /\ pc[p] # "add"
      BY <1>0, <1>17 DEF Finish, IsCallback, NoCallbackLeak
    <3>2. \A q \in Procs : chVal'[q] # NoResp => chVal'[q].id = req'[q]
      BY <1>0, <1>17 DEF Finish, Channels
    <3>3. \A q \in Procs :
             pc'[q] = "add" => chVal'[q] = NoResp /\ ~chClosed'[q]
      BY <1>0, <1>17, <3>1 DEF Finish, TypeOK, Channels
    <3>4. ASSUME NEW cb \in callbacks' PROVE ~chClosed'[cb[2]]
      BY <1>0, <1>17, <3>1 DEF Finish, TypeOK, Without, Channels, NoCallbackLeak
    <3>5. \A cb \in callbacks' : chVal'[cb[2]] = NoResp
      BY <1>0, <1>17 DEF Finish, Without, Channels
    <3> QED
      BY <3>2, <3>3, <3>4, <3>5 DEF Channels
  <2>3. EmptyMeansDone'
    BY <1>0, <1>17 DEF TypeOK, Procs, Finish, Without, EmptyMeansDone,
       CtxDone, ClientCtxDone, IsCallback, NoCallbackLeak, RequestIDs,
       Channels, CallbackLocked
  <2> QED
    BY <1>0, <2>1, <2>2, <2>3
<1>18. ASSUME ListenEcho PROVE IndInv'
  BY <1>0, <1>18 DEF TypeOK, Procs, ListenEcho, EchoReceive, RequestIDs,
     NoCallbackLeak, CallbackLocked, Channels, EmptyMeansDone, IsCallback,
     CtxDone, ClientCtxDone, Returns, NilMeansResult
<1>19. ASSUME TickerEcho PROVE IndInv'
  BY <1>0, <1>19 DEF TypeOK, Procs, TickerEcho, EchoReceive, RequestIDs,
     NoCallbackLeak, CallbackLocked, Channels, EmptyMeansDone, IsCallback,
     CtxDone, ClientCtxDone, Returns, NilMeansResult
<1>20. ASSUME EchoExit PROVE IndInv'
  BY <1>0, <1>20 DEF TypeOK, Procs, EchoExit, RequestIDs, NoCallbackLeak,
     CallbackLocked, Channels, EmptyMeansDone, IsCallback, CtxDone,
     ClientCtxDone, Returns, NilMeansResult
<1>21. ASSUME EchoAccount PROVE IndInv'
  BY <1>0, <1>21 DEF TypeOK, Procs, EchoAccount, RequestIDs, NoCallbackLeak,
     CallbackLocked, Channels, EmptyMeansDone, IsCallback, CtxDone,
     ClientCtxDone, Returns, NilMeansResult
<1>22. ASSUME Close PROVE IndInv'
  BY SMTT(30), <1>0, <1>22 DEF TypeOK, Procs, Close, CloseCancel, CloseConn,
     CloseReturn, RequestIDs, NoCallbackLeak, CallbackLocked, Channels,
     EmptyMeansDone, IsCallback, CtxDone, ClientCtxDone, Returns,
     NilMeansResult
\* Steps of echoTicker and of the server touch nothing the invariant reads.
<1>23. ASSUME Ticker \/ Server \/ UNCHANGED vars PROVE IndInv'
  <2>1. UNCHANGED <<rpcVars, chanVars, listenVars, closePC>>
    BY <1>23 DEF vars, Ticker, Tick, TickerExit, Server, Reply,
       SendUnsolicited
  <2> QED
    BY <1>0, <2>1 DEF RequestIDs, NoCallbackLeak, CallbackLocked, Channels,
       EmptyMeansDone, IsCallback, CtxDone, ClientCtxDone, Returns,
       NilMeansResult
<1> QED
  BY <1>1, <1>2, <1>3, <1>4, <1>5, <1>6, <1>7, <1>8, <1>9, <1>10, <1>11,
     <1>12, <1>13, <1>14, <1>15, <1>16, <1>17, <1>18, <1>19, <1>20, <1>21,
     <1>22, <1>23 DEF Next, RPC, Listen, Echo

\* The conjunction of the facts above holds in every reachable state.
THEOREM Inductive == Spec => []IndInv
  BY IndInit, IndStep, PTL DEF Spec

\* Whatever reaches an RPC answers the request that this very call sent,
\* however late, repeated or reordered the replies that listen reads.
THEOREM RepliesMatchThm == Spec => []RepliesMatch
<1>1. IndInv => RepliesMatch
  BY DEF IndInv, RepliesMatch, Channels, Returns
<1> QED
  BY <1>1, Inductive, PTL

\* rpc() returns nil only with a usable result of its own request: its
\* branch for a closed channel is taken only when the context is done.
THEOREM NilMeansResultThm == Spec => []NilMeansResult
<1>1. IndInv => NilMeansResult
  BY DEF IndInv, Returns
<1> QED
  BY <1>1, Inductive, PTL

\* The callback map holds no entry of an rpc() that has returned.
THEOREM NoCallbackLeakThm == Spec => []NoCallbackLeak
<1>1. IndInv => NoCallbackLeak
  BY DEF IndInv
<1> QED
  BY <1>1, Inductive, PTL

\* doCallback never waits in its select while it holds cbMu.
THEOREM DeliverNeverBlocksThm == Spec => []DeliverNeverBlocks
<1>1. IndInv => DeliverNeverBlocks
  BY DEF IndInv, DeliverNeverBlocks, IsCallback, Channels
<1> QED
  BY <1>1, Inductive, PTL

----------------------------------------------------------------------------
(* Panics.                                                                 *)

\* Only the server puts messages on the wire, so a notification gets there
\* only if it may send one.
LEMMA NoNotificationStep ==
  ASSUME "notification" \notin Unsolicited, TypeOK, NoNotification,
         [Next]_vars
  PROVE  NoNotification'
<1> USE DEF NoNotification, wireVars
<1>1. toClient \in Seq(Messages)
  BY DEF TypeOK
<1>2. CASE UNCHANGED toClient
  BY <1>2
<1>3. CASE Receive
  <2>1. toClient # <<>> /\ toClient' \in {toClient, Tail(toClient)}
    BY <1>3 DEF Receive
  <2> QED
    BY <1>1, <2>1
<1>4. ASSUME NEW m \in Messages, m.kind # "notification",
             toClient' = Append(toClient, m)
      PROVE  NoNotification'
  BY <1>1, <1>4
<1>5. ASSUME NEW id \in toServer, NEW body \in Bodies, Reply(id, body)
      PROVE  NoNotification'
  <2> DEFINE m == [kind |-> "response", id |-> id, body |-> body]
  <2>1. m \in Messages /\ m.kind # "notification"
    BY ClientAssumption DEF Messages, TypeOK
  <2> QED
    BY <1>4, <1>5, <2>1 DEF Reply
<1>6. ASSUME NEW kind \in Unsolicited, SendUnsolicited(kind)
      PROVE  NoNotification'
  <2>1. CASE /\ kind \in {"echo", "notification", "mistyped", "malformed"}
             /\ ServerSend([kind |-> kind])
    <3>1. [kind |-> kind] \in Messages /\ kind # "notification"
      BY <2>1 DEF Messages
    <3> QED
      BY <1>4, <2>1, <3>1 DEF ServerSend
  <2>2. ASSUME NEW id \in 0..rpcID, NEW body \in Bodies,
               ServerSend([kind |-> "response", id |-> id, body |-> body])
        PROVE  NoNotification'
    <3>1. [kind |-> "response", id |-> id, body |-> body] \in Messages
      BY ClientAssumption DEF Messages, TypeOK
    <3> QED
      BY <1>4, <2>2, <3>1 DEF ServerSend
  <2> QED
    BY <1>2, <1>6, <2>1, <2>2 DEF SendUnsolicited
<1>7. CASE \E p \in Callers : Call(p) \/ Cancel(p)
  BY <1>2, <1>7 DEF Call, Cancel
<1>8. CASE \E p \in Procs : RPC(p)
  BY <1>2, <1>8 DEF RPC, BeginCanceled, Begin, AddCallback, Send, SendError,
     AwaitCanceled, AwaitResponse, AwaitClosed, Cleanup
<1>9. CASE Listen
  BY <1>2, <1>3, <1>9 DEF Listen, ReceiveClosed, ListenEchoCanceled, Lookup,
     Deliver, Finish
<1>10. CASE Echo
  BY <1>2, <1>10 DEF Echo, ListenEcho, TickerEcho, EchoReceive, EchoExit,
     EchoAccount
<1>11. CASE Ticker \/ Close
  BY <1>2, <1>11 DEF Ticker, Tick, TickerExit, Close, CloseCancel, CloseConn,
     CloseReturn
<1>12. CASE UNCHANGED vars
  BY <1>2, <1>12 DEF vars
<1> QED
  BY <1>5, <1>6, <1>7, <1>8, <1>9, <1>10, <1>11, <1>12 DEF Next, Server

\* The three places that can panic: a request ID registered twice, a send on
\* a closed channel, a response without an ID.
LEMMA NoPanicStep ==
  ASSUME IndInv, NoNotification, NoPanic, [Next]_vars
  PROVE  NoPanic'
<1> USE DEF NoPanic
<1>1. TypeOK
  BY DEF IndInv
<1>2. CASE UNCHANGED crashed
  BY <1>2
<1>3. ASSUME NEW p \in Procs, AddCallback(p) PROVE NoPanic'
  <2>1. ASSUME NEW q \in Procs, <<req[p], q>> \in callbacks PROVE FALSE
    BY <1>3, <2>1 DEF AddCallback, IndInv, NoCallbackLeak, RequestIDs
  <2> QED
    BY <1>3, <2>1 DEF AddCallback, Registered
<1>4. ASSUME NEW q \in Procs, Deliver(q) PROVE NoPanic'
  <2>1. ~chClosed[q]
    BY <1>4 DEF Deliver, IsCallback, IndInv, Channels
  <2> QED
    BY <1>4, <2>1 DEF Deliver
<1>5. CASE Receive
  <2>1. Head(toClient).kind # "notification"
    <3>1. toClient \in Seq(Messages) /\ toClient # <<>>
      BY <1>1, <1>5 DEF TypeOK, Receive
    <3> QED
      BY <3>1 DEF NoNotification
  <2> QED
    BY <1>5, <2>1 DEF Receive
<1>6. CASE \E p \in Callers : Call(p) \/ Cancel(p)
  BY <1>2, <1>6 DEF Call, Cancel
<1>7. CASE \E p \in Procs : RPC(p)
  BY <1>2, <1>3, <1>7 DEF RPC, BeginCanceled, Begin, Send, SendError,
     AwaitCanceled, AwaitResponse, AwaitClosed, Cleanup
<1>8. CASE Listen
  BY <1>2, <1>4, <1>5, <1>8 DEF Listen, ReceiveClosed, ListenEchoCanceled,
     Lookup, Finish
<1>9. CASE Echo
  BY <1>2, <1>9 DEF Echo, ListenEcho, TickerEcho, EchoReceive, EchoExit,
     EchoAccount
<1>10. CASE Ticker \/ Close \/ Server \/ UNCHANGED vars
  BY <1>2, <1>10 DEF vars, Ticker, Tick, TickerExit, Close, CloseCancel,
     CloseConn, CloseReturn, Server, Reply, SendUnsolicited
<1> QED
  BY <1>6, <1>7, <1>8, <1>9, <1>10 DEF Next

\* Talking to a server that sends no notification but echo, no goroutine of
\* the client panics: neither addCallback on a repeated ID nor doCallback on
\* a closed channel.
THEOREM NoPanicThm ==
  ASSUME "notification" \notin Unsolicited
  PROVE  Spec => []NoPanic
<1>1. Init => NoPanic /\ NoNotification
  BY DEF Init, NoPanic, NoNotification
<1>2. IndInv /\ NoPanic /\ NoNotification /\ [Next]_vars
        => NoPanic' /\ NoNotification'
  BY NoNotificationStep, NoPanicStep DEF IndInv
<1> QED
  BY <1>1, <1>2, Inductive, PTL DEF Spec

----------------------------------------------------------------------------
(* After Close.                                                            *)

\* Background goroutines that have exited stay exited.
LEMMA ClosedStep == ClosedInv /\ TypeOK /\ [Next]_vars => ClosedInv'
<1> SUFFICES ASSUME ClosedInv, TypeOK, [Next]_vars PROVE ClosedInv'
  OBVIOUS
<1> USE DEF ClosedInv, BackgroundExited, TypeOK, Procs, rpcVars, listenVars,
        echoVars
<1>1. CASE \E p \in Callers : Call(p) \/ Cancel(p)
  BY <1>1, ClientAssumption DEF Call, Cancel
<1>2. CASE \E p \in Procs : RPC(p)
  BY <1>2 DEF RPC, BeginCanceled, Begin, AddCallback, Send, SendError,
     AwaitCanceled, AwaitResponse, AwaitClosed, Cleanup, Return
<1>3. CASE Listen
  BY <1>3 DEF Listen, Receive, ReceiveClosed, ListenEchoCanceled, Lookup,
     Deliver, Finish
<1>4. CASE Echo
  BY <1>4 DEF Echo, ListenEcho, TickerEcho, EchoReceive, EchoExit, EchoAccount
<1>5. CASE Ticker \/ Close \/ Server \/ UNCHANGED vars
  BY <1>5 DEF vars, Ticker, Tick, TickerExit, Close, CloseCancel, CloseConn,
     CloseReturn, Server, Reply, SendUnsolicited
<1> QED
  BY <1>1, <1>2, <1>3, <1>4, <1>5 DEF Next

\* Once Close has returned, statistics are final, cbMu is at rest, no channel
\* gets a response or is closed, and echoLoop has no callback.
THEOREM QuietAfterCloseThm == Spec => QuietAfterClose
<1> DEFINE Quiet ==
      closePC = "closed" =>
        /\ UNCHANGED <<echoOK, echoFail, cbMu>>
        /\ \A p \in Procs : /\ chVal'[p] \in {chVal[p], NoResp}
                            /\ chClosed'[p] => chClosed[p]
        /\ EchoLoop \notin {cb[2] : cb \in callbacks \cup callbacks'}
<1>1. Init => ClosedInv
  BY DEF Init, ClosedInv
<1>2. Spec => []ClosedInv
  BY <1>1, ClosedStep, TypeCorrect, PTL DEF Spec
<1>3. ASSUME IndInv, IndInv', ClosedInv, ClosedInv', [Next]_vars
      PROVE  [Quiet]_vars
  <2> SUFFICES ASSUME closePC = "closed", Next PROVE Quiet
    BY <1>3
  <2> USE DEF rpcVars, chanVars, listenVars, echoVars
  <2>1. TypeOK /\ BackgroundExited
    BY <1>3 DEF IndInv, ClosedInv
  <2>2. closePC' = "closed"
    BY DEF Next, Call, Cancel, RPC, BeginCanceled, Begin, AddCallback, Send,
       SendError, AwaitCanceled, AwaitResponse, AwaitClosed, Cleanup, Listen,
       Receive, ReceiveClosed, ListenEchoCanceled, Lookup, Deliver, Finish,
       Echo, ListenEcho, TickerEcho, EchoReceive, EchoExit, EchoAccount,
       Ticker, Tick, TickerExit, Close, CloseCancel, CloseConn, CloseReturn,
       Server, Reply, SendUnsolicited
  <2>3. EchoLoop \notin {cb[2] : cb \in callbacks \cup callbacks'}
    BY <1>3, <2>1, <2>2 DEF IndInv, ClosedInv, BackgroundExited,
       NoCallbackLeak
  <2>4. /\ UNCHANGED <<echoOK, echoFail, cbMu>>
        /\ \A p \in Procs : /\ chVal'[p] \in {chVal[p], NoResp}
                            /\ chClosed'[p] => chClosed[p]
    <3> USE <2>1 DEF BackgroundExited, TypeOK
    <3>1. CASE \E p \in Callers : Call(p) \/ Cancel(p)
      BY <3>1 DEF Call, Cancel
    <3>2. CASE \E p \in Procs : RPC(p)
      BY <3>2 DEF RPC, BeginCanceled, Begin, AddCallback, Send, SendError,
         AwaitCanceled, AwaitResponse, AwaitClosed, Cleanup
    <3>3. CASE Listen \/ Echo
      BY <3>3 DEF Listen, Receive, ReceiveClosed, ListenEchoCanceled, Lookup,
         Deliver, Finish, Echo, ListenEcho, TickerEcho, EchoReceive, EchoExit,
         EchoAccount
    <3>4. CASE Ticker \/ Close \/ Server
      BY <3>4 DEF Ticker, Tick, TickerExit, Close, CloseCancel, CloseConn,
         CloseReturn, Server, Reply, SendUnsolicited
    <3> QED
      BY <3>1, <3>2, <3>3, <3>4 DEF Next
  <2> QED
    BY <2>3, <2>4
<1> QED
  BY <1>2, <1>3, Inductive, PTL DEF Spec, QuietAfterClose

----------------------------------------------------------------------------
(* OvsdbClient implements RpcCalls.                                       *)

\* The server has no request with an ID that requestID has not returned.
OnlyIssued == toServer \subseteq 0 .. rpcID

----------------------------------------------------------------------------
\* IDs of requests are issued before they are sent, and stay issued.
LEMMA OnlyIssuedStep == IndInv /\ OnlyIssued /\ [Next]_vars => OnlyIssued'
<1> SUFFICES ASSUME IndInv, OnlyIssued, [Next]_vars PROVE OnlyIssued'
  OBVIOUS
<1> USE DEF OnlyIssued, rpcVars, wireVars
<1>1. TypeOK /\ RequestIDs
  BY DEF IndInv
<1>2. rpcID \in Nat /\ \A p \in Procs : req[p] \in 0 .. rpcID
  BY <1>1 DEF TypeOK, RequestIDs
<1>3. CASE \E p \in Callers : Call(p) \/ Cancel(p)
  BY <1>3 DEF Call, Cancel
<1>4. ASSUME NEW p \in Procs, RPC(p) PROVE OnlyIssued'
  <2>1. CASE Begin(p)
    <3>1. rpcID' = rpcID + 1 /\ toServer' = toServer
      BY <2>1 DEF Begin, RequestID
    <3> QED
      BY <1>2, <3>1
  <2>2. CASE Send(p)
    <3>1. rpcID' = rpcID /\ toServer' = toServer \cup {req[p]}
      BY <2>2 DEF Send
    <3> QED
      BY <1>2, <3>1
  <2>3. CASE \/ BeginCanceled(p) \/ AddCallback(p) \/ SendError(p)
             \/ AwaitCanceled(p) \/ AwaitResponse(p) \/ AwaitClosed(p)
             \/ Cleanup(p)
    BY <2>3 DEF BeginCanceled, AddCallback, SendError, AwaitCanceled,
       AwaitResponse, AwaitClosed, Cleanup
  <2> QED
    BY <1>4, <2>1, <2>2, <2>3 DEF RPC
<1>5. CASE Listen \/ Echo
  BY <1>5 DEF Listen, Receive, ReceiveClosed, ListenEchoCanceled, Lookup,
     Deliver, Finish, Echo, ListenEcho, TickerEcho, EchoReceive, EchoExit,
     EchoAccount
<1>6. CASE Ticker \/ Close \/ Server \/ UNCHANGED vars
  BY <1>6 DEF vars, Ticker, Tick, TickerExit, Close, CloseCancel, CloseConn,
     CloseReturn, Server, Reply, SendUnsolicited
<1> QED
  BY <1>3, <1>4, <1>5, <1>6 DEF Next

\* What a step leaves alone that the mapping reads is the same afterwards.
LEMMA SameMapping ==
  /\ UNCHANGED toClient => UNCHANGED InSocket
  /\ UNCHANGED <<lmsg, chVal, got>> => UNCHANGED InHand
  /\ UNCHANGED pc => UNCHANGED Status
  /\ UNCHANGED <<canceled, closePC>> => UNCHANGED Done
<1>1. UNCHANGED toClient => UNCHANGED InSocket
  BY DEF InSocket
<1>2. UNCHANGED <<lmsg, chVal, got>> => UNCHANGED InHand
  BY DEF InHand
<1>3. UNCHANGED pc => UNCHANGED Status
  BY DEF Status, StatusOf
<1>4. UNCHANGED <<canceled, closePC>> => UNCHANGED Done
  BY DEF Done, CtxDone, ClientCtxDone
<1> QED
  BY <1>1, <1>2, <1>3, <1>4

\* The mapping maps the state New builds to the abstract initial state.
LEMMA RefinesInit == Init => Abstract!Init
<1> SUFFICES ASSUME Init PROVE Abstract!Init
  OBVIOUS
<1>1. Status = [p \in Procs |-> "idle"]
  BY DEF Init, Status, StatusOf
<1>2. Done = {}
  BY DEF Init, Done, CtxDone, ClientCtxDone
<1>3. InSocket = {} /\ InHand = {}
  BY DEF Init, InSocket, InHand
<1> QED
  BY <1>1, <1>2, <1>3 DEF Init, Abstract!Init, Answers

----------------------------------------------------------------------------
(* What the steps do to the mapped state.                                  *)

\* A step of a goroutine inside rpc() changes no status but its own.
LEMMA StatusStep ==
  ASSUME TypeOK, NEW p \in Procs, NEW next,
         pc' = [pc EXCEPT ![p] = next]
  PROVE  /\ next = "begin" => Status' = [Status EXCEPT ![p] = "called"]
         /\ next \in {"add", "send", "wait"} =>
              Status' = [Status EXCEPT ![p] = "sent"]
         /\ next \in {"idle", "cleanup", "account", "exited"} =>
              Status' = [Status EXCEPT ![p] = "idle"]
BY DEF TypeOK, Status, StatusOf

\* What a goroutine's position says about its call.
LEMMA StatusAt ==
  ASSUME TypeOK, NEW p \in Procs
  PROVE  /\ pc[p] = "begin" => Status[p] = "called"
         /\ pc[p] \in {"add", "send", "wait"} => Status[p] = "sent"
         /\ pc[p] \in {"idle", "cleanup", "account", "exited"} =>
              Status[p] = "idle"
         /\ Status = [Status EXCEPT ![p] = Status[p]]
BY DEF TypeOK, Status, StatusOf

\* Answers that were in hand and are so no longer were thrown away.
LEMMA InHandShrinks ==
  ASSUME lmsg' \in {lmsg, NoResp} \cup {chVal[p] : p \in Procs},
         \A p \in Procs : chVal'[p] \in {chVal[p], lmsg, NoResp},
         \A p \in Procs : got'[p] \in {got[p], chVal[p], NoResp}
  PROVE  InHand' \subseteq InHand
BY DEF InHand

\* Reading a message takes its answer, if it is one, out of the socket.
LEMMA SocketShrinks ==
  ASSUME TypeOK, toClient # <<>>, toClient' = Tail(toClient)
  PROVE  /\ InSocket' \subseteq InSocket
         /\ Head(toClient).kind = "response" =>
              [id |-> Head(toClient).id, body |-> Head(toClient).body] \in InSocket
<1>1. /\ DOMAIN toClient = 1 .. Len(toClient) /\ Len(toClient) \in Nat \ {0}
      /\ DOMAIN toClient' = 1 .. Len(toClient) - 1
      /\ \A i \in DOMAIN toClient' : toClient'[i] = toClient[i + 1]
      /\ Head(toClient) = toClient[1]
  BY DEF TypeOK
<1>2. \A i \in DOMAIN toClient' : i + 1 \in DOMAIN toClient
  BY <1>1
<1>3. 1 \in DOMAIN toClient
  BY <1>1
<1> QED
  BY <1>1, <1>2, <1>3 DEF InSocket

\* A message the server sends adds its answer, if it is one.
LEMMA SocketGrows ==
  ASSUME TypeOK, NEW m \in Messages, toClient' = Append(toClient, m)
  PROVE  InSocket' = InSocket \cup
           (IF m.kind = "response" THEN {[id |-> m.id, body |-> m.body]} ELSE {})
<1>1. /\ DOMAIN toClient = 1 .. Len(toClient) /\ Len(toClient) \in Nat
      /\ DOMAIN toClient' = 1 .. Len(toClient) + 1
      /\ \A i \in DOMAIN toClient : toClient'[i] = toClient[i]
      /\ toClient'[Len(toClient) + 1] = m
  BY DEF TypeOK
<1>2. DOMAIN toClient' = DOMAIN toClient \cup {Len(toClient) + 1}
  BY <1>1
<1> QED
  BY <1>1, <1>2 DEF InSocket

----------------------------------------------------------------------------
(* One case per step of the client.                                        *)

\* Abstract steps and stuttering.
AbstractStep == Abstract!Next \/ UNCHANGED Abstract!rpcCallVars

\* A step that throws answers away at most.
LEMMA LoseStep ==
  ASSUME Status' = Status, Done' = Done, UNCHANGED <<req, ret, rpcID>>,
         InSocket' \subseteq Answers, InHand' \subseteq Answers
  PROVE  AbstractStep
BY DEF AbstractStep, Abstract!Next, Abstract!Lose, Abstract!Forget, Answers

\* rpc() sets its return value: one abstract return.
LEMMA ReturnStep ==
  ASSUME TypeOK, NEW p \in Procs, NEW err,
         Status[p] # "idle", Abstract!May(p, err),
         err \in {"nil", "ctx", "error", "closedNetwork"},
         NEW next \in {"idle", "cleanup", "account", "exited"},
         Return(p, err, next),
         UNCHANGED <<req, canceled, rpcID, closePC>>,
         InSocket' \subseteq Answers, InHand' \subseteq Answers
  PROVE  AbstractStep
<1>1. Status' = [Status EXCEPT ![p] = "idle"] /\ Done' = Done
  BY StatusStep, SameMapping DEF Return
<1>2. Abstract!Return(p)
  BY <1>1 DEF Abstract!Return, Abstract!Forget, Return, Answers
<1> QED
  BY <1>2 DEF AbstractStep, Abstract!Next

\* The steps of users: a call starts, a context is canceled.
LEMMA UserRefines ==
  ASSUME IndInv, NEW p \in Callers, Call(p) \/ Cancel(p)
  PROVE  AbstractStep
<1> USE DEF chanVars, listenVars, echoVars, wireVars
<1>1. TypeOK /\ p \in Procs /\ p # EchoLoop
  BY ClientAssumption DEF IndInv, Procs
<1>2. CASE Call(p)
  <2>1. Status[p] = "idle" /\ Status' = [Status EXCEPT ![p] = "called"]
    BY <1>1, <1>2, StatusAt, StatusStep DEF Call
  <2>2. Done' = Done \ {p}
    BY <1>1, <1>2 DEF Call, Done, CtxDone, ClientCtxDone
  <2>3. InSocket' = InSocket /\ InHand' \subseteq InHand
    BY <1>1, <1>2, SameMapping, InHandShrinks DEF Call, TypeOK
  <2>4. Abstract!Start(p)
    BY <1>2, <2>1, <2>2, <2>3 DEF Call, Abstract!Start, Abstract!Forget, Answers
  <2> QED
    BY <1>1, <2>4 DEF AbstractStep, Abstract!Next
<1>3. CASE Cancel(p)
  <2>1. UNCHANGED <<Status, InSocket, InHand>> /\ UNCHANGED <<req, ret, rpcID>>
    BY <1>3, SameMapping DEF Cancel
  <2>2. Done \subseteq Done'
    BY <1>3 DEF Cancel, Done, CtxDone, ClientCtxDone
  <2> QED
    BY <2>1, <2>2 DEF AbstractStep, Abstract!Next, Abstract!Cancel, Answers
<1> QED
  BY <1>2, <1>3

\* The steps of rpc(): an ID is issued, a return value is set, and the rest
\* changes nothing that a caller can see.
LEMMA RpcRefines ==
  ASSUME IndInv, NEW p \in Procs, RPC(p)
  PROVE  AbstractStep
<1> USE DEF rpcVars, chanVars, listenVars, echoVars, wireVars
<1>1. TypeOK
  BY DEF IndInv
<1>2. CASE BeginCanceled(p)
  <2>1. Status[p] = "called" /\ p \in Done
    BY <1>1, <1>2, StatusAt DEF BeginCanceled, Done
  <2>2. Abstract!May(p, "ctx")
    BY <2>1 DEF Abstract!May
  <2>3. Return(p, "ctx", AfterRPC(p)) /\ AfterRPC(p) \in {"idle", "account"}
    BY <1>2 DEF BeginCanceled, CtxErr, AfterRPC
  <2>4. UNCHANGED <<InSocket, InHand>>
    BY <1>2, SameMapping DEF BeginCanceled
  <2> QED
    BY <1>1, <1>2, <2>1, <2>2, <2>3, <2>4, ReturnStep DEF BeginCanceled, Answers
<1>3. CASE Begin(p)
  <2>1. Status[p] = "called" /\ Status' = [Status EXCEPT ![p] = "sent"]
    BY <1>1, <1>3, StatusAt, StatusStep DEF Begin
  <2>2. UNCHANGED <<Done, InSocket>>
    BY <1>3, SameMapping DEF Begin
  <2>3. InHand' \subseteq InHand
    BY <1>1, <1>3, InHandShrinks DEF Begin, TypeOK
  <2>4. Abstract!Issue(p)
    BY <1>3, <2>1, <2>2, <2>3 DEF Begin, RequestID, Abstract!Issue,
       Abstract!Forget, Answers
  <2> QED
    BY <2>4 DEF AbstractStep, Abstract!Next
<1>4. CASE AddCallback(p) \/ Send(p)
  <2>1. Status[p] = "sent"
    BY <1>1, <1>4, StatusAt DEF AddCallback, Send
  <2>2. \/ UNCHANGED pc
        \/ pc' = [pc EXCEPT ![p] = "send"]
        \/ pc' = [pc EXCEPT ![p] = "wait"]
    BY <1>4 DEF AddCallback, Send
  <2>3. Status' = Status
    BY <1>1, <2>1, <2>2, StatusAt, StatusStep, SameMapping
  <2>4. UNCHANGED <<Done, InSocket, InHand>> /\ UNCHANGED <<req, ret, rpcID>>
    BY <1>4, SameMapping DEF AddCallback, Send
  <2> QED
    BY <2>3, <2>4, LoseStep DEF Answers
<1>5. CASE SendError(p)
  <2>1. Status[p] = "sent"
    BY <1>1, <1>5, StatusAt DEF SendError
  <2>2. \E err \in {"error", "closedNetwork"} : Return(p, err, "cleanup")
    BY <1>5 DEF SendError, WriteErrors, IndInv, TypeOK
  <2>3. UNCHANGED <<InSocket, InHand>>
    BY <1>5, SameMapping DEF SendError
  <2>4. \A err \in {"error", "closedNetwork"} : Abstract!May(p, err)
    BY <2>1 DEF Abstract!May
  <2> QED
    BY <1>1, <1>5, <2>1, <2>2, <2>3, <2>4, ReturnStep DEF SendError, Answers
<1>6. CASE AwaitCanceled(p)
  <2>1. Status[p] = "sent" /\ p \in Done
    BY <1>1, <1>6, StatusAt DEF AwaitCanceled, Done
  <2>2. Abstract!May(p, "ctx")
    BY <2>1 DEF Abstract!May
  <2>3. Return(p, "ctx", "cleanup")
    BY <1>6 DEF AwaitCanceled, CtxErr
  <2>4. UNCHANGED <<InSocket, InHand>>
    BY <1>6, SameMapping DEF AwaitCanceled
  <2> QED
    BY <1>1, <1>6, <2>1, <2>2, <2>3, <2>4, ReturnStep DEF AwaitCanceled, Answers
\* The reply in the channel has the ID of this call's request (Channels).
<1>7. CASE AwaitResponse(p)
  <2> DEFINE err == RpcResult(chVal[p].body)
  <2>1. Status[p] = "sent" /\ Return(p, err, "cleanup")
    BY <1>1, <1>7, StatusAt DEF AwaitResponse
  <2>2. chVal[p] \in Answers /\ chVal[p].id = req[p]
    BY <1>7 DEF AwaitResponse, Answers, InHand, IndInv, Channels
  <2>3. chVal[p] = [id |-> req[p], body |-> chVal[p].body]
    BY <1>1, <1>7, <2>2 DEF TypeOK, AwaitResponse, Responses
  <2>4. Abstract!May(p, err) /\ err \in {"nil", "error"}
    BY <2>1, <2>2, <2>3 DEF Abstract!May, RpcResult
  <2>5. InSocket' = InSocket
    BY <1>7, SameMapping DEF AwaitResponse
  <2>6. InHand' \subseteq InHand
    BY <1>1, <1>7, InHandShrinks DEF AwaitResponse, TypeOK
  <2> QED
    BY <1>1, <1>7, <2>1, <2>4, <2>5, <2>6, ReturnStep DEF AwaitResponse, Answers
\* A channel closed and empty belongs to a done context (EmptyMeansDone).
<1>8. CASE AwaitClosed(p)
  <2>1. Status[p] = "sent"
    BY <1>1, <1>8, StatusAt DEF AwaitClosed
  <2>2. CtxDone(p)
    BY <1>8 DEF AwaitClosed, IndInv, EmptyMeansDone
  <2>3. Return(p, "ctx", "cleanup") /\ p \in Done
    BY <1>8, <2>2 DEF AwaitClosed, CtxErr, Done
  <2>4. Abstract!May(p, "ctx")
    BY <2>3 DEF Abstract!May
  <2>5. UNCHANGED <<InSocket, InHand>>
    BY <1>8, SameMapping DEF AwaitClosed
  <2> QED
    BY <1>1, <1>8, <2>1, <2>3, <2>4, <2>5, ReturnStep DEF AwaitClosed, Answers
<1>9. CASE Cleanup(p)
  <2>1. Status' = Status
    BY <1>1, <1>9, StatusAt, StatusStep DEF Cleanup, AfterRPC
  <2>2. UNCHANGED <<Done, InSocket>> /\ UNCHANGED <<req, ret, rpcID>>
    BY <1>9, SameMapping DEF Cleanup
  <2>3. InHand' \subseteq InHand
    BY <1>1, <1>9, InHandShrinks DEF Cleanup, TypeOK
  <2> QED
    BY <2>1, <2>2, <2>3, LoseStep DEF Answers
<1> QED
  BY <1>2, <1>3, <1>4, <1>5, <1>6, <1>7, <1>8, <1>9 DEF RPC

\* listen moves answers from the socket to its caller and loses some.
LEMMA ListenRefines ==
  ASSUME IndInv, Listen
  PROVE  AbstractStep
<1> USE DEF rpcVars, chanVars, listenVars, echoVars, wireVars
<1>1. TypeOK
  BY DEF IndInv
<1>2. UNCHANGED <<pc, canceled, closePC, req, ret, rpcID, got>>
  BY DEF Listen, Receive, ReceiveClosed, ListenEchoCanceled, Lookup, Deliver,
     Finish
<1>3. UNCHANGED <<Status, Done>>
  BY <1>2, SameMapping
<1>4. ASSUME Receive PROVE InSocket' \cup InHand' \subseteq Answers
  <2>1. CASE UNCHANGED <<toClient, lmsg>>
    BY <1>2, <1>4, <2>1, SameMapping DEF Receive, Answers
  <2>2. CASE toClient' = Tail(toClient) /\ UNCHANGED lmsg
    BY <1>1, <1>2, <1>4, <2>2, SameMapping, SocketShrinks DEF Receive, Answers
  <2>3. CASE /\ toClient' = Tail(toClient) /\ Head(toClient).kind = "response"
             /\ lmsg' = [id |-> Head(toClient).id, body |-> Head(toClient).body]
    <3>1. InSocket' \subseteq InSocket /\ lmsg' \in InSocket
      BY <1>1, <1>4, <2>3, SocketShrinks DEF Receive
    <3>2. InHand' \subseteq InHand \cup {lmsg'}
      BY <1>2, <1>4 DEF Receive, InHand
    <3> QED
      BY <3>1, <3>2 DEF Answers
  <2> QED
    BY <1>4, <2>1, <2>2, <2>3 DEF Receive
<1>5. CASE Receive
  BY <1>2, <1>3, <1>4, <1>5, LoseStep
<1>6. CASE \/ ReceiveClosed \/ ListenEchoCanceled \/ Lookup
           \/ \E q \in Procs : Finish(q)
  <2>1. UNCHANGED <<InSocket, InHand>>
    BY <1>2, <1>6, SameMapping DEF ReceiveClosed, ListenEchoCanceled, Lookup,
       Finish
  <2> QED
    BY <1>2, <1>3, <2>1, LoseStep DEF Answers
<1>7. ASSUME NEW q \in Procs, Deliver(q) PROVE AbstractStep
  <2>1. InSocket' = InSocket /\ lmsg' = lmsg
    BY <1>7, SameMapping DEF Deliver
  <2>2. \A p \in Procs : chVal'[p] \in {chVal[p], lmsg, NoResp}
    BY <1>1, <1>7 DEF Deliver, TypeOK
  <2>3. InHand' \subseteq InHand
    BY <1>2, <2>1, <2>2, InHandShrinks
  <2> QED
    BY <1>2, <1>3, <2>1, <2>3, LoseStep DEF Answers
<1> QED
  BY <1>5, <1>6, <1>7 DEF Listen

\* echoLoop takes a request and starts a call, or exits, or counts.
LEMMA EchoRefines ==
  ASSUME IndInv, Echo
  PROVE  AbstractStep
<1> USE DEF rpcVars, chanVars, listenVars, echoVars, wireVars
<1>1. TypeOK /\ EchoLoop \in Procs
  BY DEF IndInv, Procs
<1>2. UNCHANGED <<Done, InSocket>> /\ UNCHANGED <<req, rpcID, lmsg, chVal>>
  BY SameMapping DEF Echo, ListenEcho, TickerEcho, EchoReceive, EchoExit,
     EchoAccount
<1>3. Status[EchoLoop] = "idle"
  BY <1>1, StatusAt DEF Echo, ListenEcho, TickerEcho, EchoReceive, EchoExit,
     EchoAccount
<1>4. CASE EchoExit \/ EchoAccount \/ (EchoReceive /\ ClientCtxDone)
  <2>1. \E next \in {"idle", "exited"} : pc' = [pc EXCEPT ![EchoLoop] = next]
    BY <1>4 DEF EchoExit, EchoAccount, EchoReceive
  <2>2. Status' = Status
    BY <1>1, <1>3, <2>1, StatusAt, StatusStep
  <2>3. UNCHANGED <<got, ret>>
    BY <1>4 DEF EchoExit, EchoAccount, EchoReceive
  <2>4. InHand' = InHand
    BY <1>2, <2>3, SameMapping
  <2> QED
    BY <1>2, <2>2, <2>3, <2>4, LoseStep DEF Answers
<1>5. CASE EchoReceive /\ ~ClientCtxDone
  <2>1. Status' = [Status EXCEPT ![EchoLoop] = "called"]
    BY <1>1, <1>5, StatusStep DEF EchoReceive
  <2>2. EchoLoop \notin Done
    BY <1>5 DEF Done, CtxDone
  <2>3. InHand' \subseteq InHand
    BY <1>1, <1>2, <1>5, InHandShrinks DEF EchoReceive, TypeOK
  <2>4. Abstract!Start(EchoLoop)
    BY <1>2, <1>3, <1>5, <2>1, <2>2, <2>3 DEF EchoReceive, Abstract!Start,
       Abstract!Forget, Answers
  <2> QED
    BY <1>1, <2>4 DEF AbstractStep, Abstract!Next
<1> QED
  BY <1>4, <1>5 DEF Echo, ListenEcho, TickerEcho

\* Ticks are invisible, and canceling the client's context ends echoLoop's.
LEMMA CloseRefines ==
  ASSUME Ticker \/ Close
  PROVE  AbstractStep
<1> USE DEF rpcVars, chanVars, listenVars, echoVars, wireVars
<1>1. UNCHANGED <<Status, InSocket, InHand>> /\ UNCHANGED <<req, ret, rpcID>>
  BY SameMapping DEF Ticker, Tick, TickerExit, Close, CloseCancel, CloseConn,
     CloseReturn
<1>2. Done \subseteq Done'
  BY DEF Ticker, Tick, TickerExit, Close, CloseCancel, CloseConn, CloseReturn,
     Done, CtxDone, ClientCtxDone
<1> QED
  BY <1>1, <1>2 DEF AbstractStep, Abstract!Next, Abstract!Cancel, Answers

\* The server answers with an ID that was issued, or sends what is no answer.
LEMMA ServerRefines ==
  ASSUME IndInv, OnlyIssued, Server
  PROVE  AbstractStep
<1> USE DEF rpcVars, chanVars, listenVars, echoVars, wireVars
<1>1. TypeOK
  BY DEF IndInv
<1>2. UNCHANGED <<Status, Done, InHand>> /\ UNCHANGED <<req, ret, rpcID>>
  BY SameMapping DEF Server, Reply, SendUnsolicited
<1>3. ASSUME NEW id \in 0 .. rpcID, NEW body \in AllBodies,
             toClient' = Append(toClient,
                           [kind |-> "response", id |-> id, body |-> body])
      PROVE  AbstractStep
  <2> DEFINE m == [kind |-> "response", id |-> id, body |-> body]
  <2>1. m \in Messages
    BY <1>1 DEF Messages, TypeOK
  <2>2. InSocket' = InSocket \cup {[id |-> id, body |-> body]}
    BY <1>1, <1>3, <2>1, SocketGrows
  <2>3. Abstract!Answer
    BY <1>2, <2>2 DEF Abstract!Answer, Answers
  <2> QED
    BY <2>3 DEF AbstractStep, Abstract!Next
<1>4. CASE \E id \in toServer, body \in Bodies : Reply(id, body)
  BY <1>3, <1>4, ClientAssumption DEF Reply, OnlyIssued
<1>5. ASSUME NEW kind \in Unsolicited, SendUnsolicited(kind) PROVE AbstractStep
  <2>1. CASE kind = "stray"
    BY <1>3, <1>5, <2>1, ClientAssumption DEF SendUnsolicited, ServerSend
  <2>2. CASE kind \in {"echo", "notification", "mistyped", "malformed"}
    <3>1. toClient' = Append(toClient, [kind |-> kind])
      BY <1>5, <2>2 DEF SendUnsolicited, ServerSend
    <3>2. [kind |-> kind] \in Messages /\ [kind |-> kind].kind # "response"
      BY <2>2 DEF Messages
    <3>3. InSocket' = InSocket
      BY <1>1, <3>1, <3>2, SocketGrows
    <3> QED
      BY <1>2, <3>3, LoseStep DEF Answers
  <2>3. CASE kind = "eof"
    <3>1. InSocket' = InSocket
      BY <1>5, <2>3, SameMapping DEF SendUnsolicited
    <3> QED
      BY <1>2, <3>1, LoseStep DEF Answers
  <2> QED
    BY <1>5, <2>1, <2>2, <2>3, ClientAssumption DEF AllUnsolicited
<1> QED
  BY <1>4, <1>5 DEF Server

----------------------------------------------------------------------------
\* Whatever the callers, the server and the interleaving, every step of the
\* client is a step of an abstract call, or invisible: rpc() returns nil only
\* for the answer to its own request and ctx.Err() only for a done context.
THEOREM ClientImplementsRpcCalls == Spec => ImplementsRpcCalls
<1>1. Init => OnlyIssued
  BY DEF Init, OnlyIssued
<1>2. Spec => []OnlyIssued
  BY <1>1, OnlyIssuedStep, Inductive, PTL DEF Spec
<1>3. ASSUME IndInv, OnlyIssued, [Next]_vars
      PROVE  [Abstract!Next]_Abstract!rpcCallVars
  <2>1. CASE Next
    <3>1. AbstractStep
      BY <1>3, <2>1, UserRefines, RpcRefines, ListenRefines, EchoRefines,
         CloseRefines, ServerRefines DEF Next
    <3> QED
      BY <3>1 DEF AbstractStep
  <2>2. CASE UNCHANGED vars
    <3>1. UNCHANGED <<Status, Done, InSocket, InHand>>
      BY <2>2, SameMapping DEF vars, rpcVars, chanVars, listenVars, wireVars
    <3> QED
      BY <2>2, <3>1 DEF vars, rpcVars, Abstract!rpcCallVars, Answers
  <2> QED
    BY <1>3, <2>1, <2>2
<1> QED
  BY <1>2, <1>3, RefinesInit, Inductive, PTL
     DEF Spec, ImplementsRpcCalls, Abstract!Spec
=============================================================================
