----------------------------- MODULE MCFrontEnd -----------------------------
(***************************************************************************)
(* Instances for TLC of what takes requests in: auth (Auth), the JSON-RPC  *)
(* gateway (JsonRpc), and the way of a request from the gateway through    *)
(* the services and back (Requests).  Each has the others in its           *)
(* environment, which sends, repeats and loses more than the others do; so *)
(* a behaviour is one of the part that is chosen at the start, with the    *)
(* others as they were.                                                    *)
(***************************************************************************)
EXTENDS Auth, TLC

CONSTANTS t1, t2, s1, s2, p1, p2
MCTxs == {t1, t2}
MCFault == [t \in Txs |-> "OK"]
\* t2 is past its limit from the start: it comes in proposals and is in no block.
MCUntil == t1 :> 4 @@ t2 :> 0
MCSingles == {s1, s2}
MCTxOf == [s \in Singles |-> t1]
MCJsonrpc == {s1}
MCProposals == {p1, p2}
MCReqs == p1 :> <<t2>> @@ p2 :> <<t1, t2>>

MCWorkloads == {{s1, s2}, {p1, p2}, {s1, p2}}

VARIABLES
  part,
  http, pos, ws, responses, delivered, ws_answers, relay, new_tx_request_buffer,
  published, sent, asked, inbox, handling,         \* JsonRpc
  rpc, filing, waiting, missed, queue, replied,
  outputs, panics                                  \* Requests

jsonrpcVars == <<http, pos, ws, responses, delivered, ws_answers, relay, new_tx_request_buffer,
                 published, sent, asked, inbox, handling>>
requestVars == <<rpc, filing, waiting, missed, queue, replied, outputs, panics>>

\* A single call, a batch and a WebSocket request, which may be answered twice.
Calls == {"c1", "c2"}
WsReqs == {"w1"}

J == INSTANCE JsonRpc
  WITH Reqs <- "c1" :> <<"h1">> @@ "c2" :> <<"h2", "h3">>, Single <- {"c1"},
       NewTx <- {"h1", "h2", "h3"}, CountPerBatch <- 1, NoId <- "none",
       MaxAnswers <- [id \in {"h1", "h2", "h3", "w1"} |-> IF id = "w1" THEN 2 ELSE 1],
       answers <- ws_answers

\* Every method over HTTP, with the parameters it takes and without, and over WebSocket
\* one for each service, so that two requests meet on their ways.
EveryMethod == {"cita_sendTransaction", "cita_blockNumber", "cita_getBlockByHash",
  "cita_getBlockByNumber", "cita_getTransaction", "net_peerCount", "eth_call", "eth_getLogs",
  "eth_getTransactionReceipt", "eth_getTransactionCount", "eth_getCode", "eth_newFilter",
  "eth_newBlockFilter", "eth_uninstallFilter", "eth_getFilterChanges", "eth_getFilterLogs",
  "eth_other"}

R == INSTANCE Requests
  WITH Rpcs <- {"r1", "r2"}, Http <- {"r1"},
       Asks <- "r1" :> [method : EveryMethod, len : 0..2, parses : BOOLEAN] @@
               "r2" :> {[method |-> "cita_blockNumber", len |-> 0, parses |-> TRUE],
                        [method |-> "eth_call", len |-> 1, parses |-> TRUE],
                        [method |-> "eth_getFilterChanges", len |-> 1, parses |-> TRUE]}

-----------------------------------------------------------------------------
FrontInit ==
  /\ part \in {"auth", "jsonrpc", "requests"} /\ Init /\ J!Init /\ R!RequestsInit
  /\ part # "auth" => Where("new") = {s1, s2}

Verify == part = "auth" /\ Next /\ UNCHANGED <<part, jsonrpcVars, requestVars>>
Gate == part = "jsonrpc" /\ J!Next /\ UNCHANGED <<part, vars, requestVars>>
Ask == part = "requests" /\ R!RequestsNext /\ UNCHANGED <<part, vars, jsonrpcVars>>

FrontNext == Verify \/ Gate \/ Ask

\* The fairness of Auth and that of JsonRpc: threads take the steps they can, timers
\* fire, and nothing obliges a client, a peer, the chain or an answer to come.  In
\* Requests the services take their messages, and the jobs of the WebSocket pool go on.
FrontFairSpec ==
  /\ FrontInit /\ [][FrontNext]_<<part, vars, jsonrpcVars, requestVars>>
  /\ WF_vars(part = "auth" /\ Remote) /\ WF_vars(part = "auth" /\ Batching)
  /\ WF_vars(part = "auth" /\ Result) /\ WF_vars(part = "auth" /\ DealTx)
  /\ WF_vars(part = "auth" /\ \E i \in Items : Job(i))
  /\ \A c \in Calls : WF_jsonrpcVars(part = "jsonrpc" /\ J!Worker(c))
  /\ \A id \in WsReqs : WF_jsonrpcVars(part = "jsonrpc" /\ J!Job(id))
  /\ WF_jsonrpcVars(part = "jsonrpc" /\ J!Dispatch) /\ WF_jsonrpcVars(part = "jsonrpc" /\ J!Main)
  /\ WF_requestVars(part = "requests" /\ R!Serve)
  /\ WF_requestVars(part = "requests" /\ \E id \in {"r1", "r2"} : R!ws_insert(id))

-----------------------------------------------------------------------------
(* Properties of the gateway; those of auth are in Auth.                   *)

\* An entry of `responses` lives as long as its call: never lost before, never left
\* behind (insert, the removal by the main thread, and the timers).
NothingLeft == J!NothingLeft

\* A WebSocket client gets one answer to a request, however often it is answered.
WsAnsweredOnce == J!AnsweredOnce

\* What is sent is published once and in order (batch_forward_new_tx, forward_service).
ForwardedInOrder == J!ForwardedInOrder

\* The services agree on who answers which request, once and with what was asked for
\* (select_topic, the two reply_request, reply_rpc, Output::from).
AnsweredAsAsked == R!AnsweredAsAsked

=============================================================================
