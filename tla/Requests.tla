------------------------------ MODULE Requests ------------------------------
(***************************************************************************)
(* The way of a request through the services.  The gateway makes a request *)
(* of a JSON-RPC call (MethodHandler) and publishes it under a topic that  *)
(* it takes from the name of the method (select_topic).  The services that *)
(* subscribe to the topic answer it, or pass it on: chain answers what is  *)
(* asked of blocks, and has the executor answer what is asked of the       *)
(* state.  The gateway turns the answer into what the client gets.  Which  *)
(* topic, which service and which kind of answer belong together is        *)
(* written down nowhere but in the code of the five services.              *)
(*                                                                         *)
(* The message queue keeps the messages of each service in order.  How     *)
(* requests are filed and batched is in JsonRpc, how auth comes to its     *)
(* answer in Auth.                                                         *)
(***************************************************************************)
EXTENDS Integers, Sequences, TLC

CONSTANTS
  Rpcs,    \* ids of the calls
  Http,    \* those over HTTP, which have a timer
  Asks     \* Asks[r]: the calls r may be, [method, len, parses]

VARIABLES
  rpc,         \* rpc[r]: the call, or NoRpc
  filing,      \* WebSocket ids that are sent and not yet filed
  waiting,     \* ids in `responses` of the gateway
  missed,      \* ids whose answer came before they were filed
  queue,       \* queue[s]: messages for service s
  replied,     \* replied[r]: responses the services sent
  outputs,     \* outputs[r]: what the client got
  panics       \* the services that panicked, and at which request

requestVars == <<rpc, filing, waiting, missed, queue, replied, outputs, panics>>
gateVars == <<rpc, filing, waiting, missed, outputs>>

NoRpc == [method |-> "none", len |-> 0, parses |-> FALSE]
Services == {"auth", "chain", "executor", "network", "jsonrpc"}

-----------------------------------------------------------------------------
(* MethodHandler.                                                          *)

Method(start, lens, req) == [start |-> start, lens |-> lens, req |-> req]

\* How each name starts, the numbers of parameters it takes, and the request it makes.
send_methods ==
  "cita_sendTransaction" :> Method("cita_send", {1}, "un_tx")

block_methods ==
  "net_peerCount" :> Method("net_", {0}, "peercount") @@
  "cita_blockNumber" :> Method("cita", {0}, "block_number") @@
  "cita_getBlockByHash" :> Method("cita", {2}, "block_by_hash") @@
  "cita_getBlockByNumber" :> Method("cita", {2}, "block_by_height") @@
  "cita_getTransaction" :> Method("cita", {1}, "transaction")

eth_methods ==
  "eth_call" :> Method("eth", {1, 2}, "call") @@
  "eth_getLogs" :> Method("eth", {1}, "filter") @@
  "eth_getTransactionReceipt" :> Method("eth", {1}, "transaction_receipt") @@
  "eth_getTransactionCount" :> Method("eth", {2}, "transaction_count") @@
  "eth_getCode" :> Method("eth", {2}, "code")

filter_methods ==
  "eth_newFilter" :> Method("eth", {1}, "new_filter") @@
  "eth_newBlockFilter" :> Method("eth", {0}, "new_block_filter") @@
  "eth_uninstallFilter" :> Method("eth", {1}, "uninstall_filter") @@
  "eth_getFilterChanges" :> Method("eth", {1}, "filter_changes") @@
  "eth_getFilterLogs" :> Method("eth", {1}, "filter_logs")

methods == send_methods @@ block_methods @@ eth_methods @@ filter_methods

\* The parameters are as many as the method takes, and parse.
ParamsFit(call) ==
  /\ call.len \in methods[call.method].lens
  /\ call.len > 0 => call.parses

\* request gives an error: method_not_found, invalid_params or a parse error.
Refused(call) == call.method \notin DOMAIN methods \/ ~ParamsFit(call)

select_topic(method) ==
  CASE methods[method].start = "cita_send" -> "jsonrpc.new_tx"
    [] methods[method].start \in {"cita", "eth"} -> "jsonrpc.request"
    [] methods[method].start = "net_" -> "jsonrpc.net"

-----------------------------------------------------------------------------
(* The message queue: of the topics each service subscribes to             *)
(* (start_pubsub), those of requests and of responses to them.             *)

Topics ==
  [s \in Services |->
     CASE s = "auth" -> {"jsonrpc.new_tx_batch"}
       [] s = "chain" -> {"jsonrpc.request"}
       [] s = "executor" -> {"executor.rpc"}
       [] s = "network" -> {"jsonrpc.net"}
       [] s = "jsonrpc" -> {"auth.rpc", "chain.rpc"}]

\* The service s, if any, takes its first message, and msg is published.
Publish(s, topic, msg) ==
  queue' = [t \in Services |->
              (IF t = s THEN Tail(queue[t]) ELSE queue[t])
                \o (IF topic \in Topics[t] THEN <<msg>> ELSE <<>>)]

Take(s) == queue' = [queue EXCEPT ![s] = Tail(queue[s])]

\* A response, with an error code or without, and with data of a kind.
Response(id, code, data) == [id |-> id, code |-> code, data |-> data]

Reply(s, topic, id, code, data) ==
  /\ Publish(s, topic, Response(id, code, data))
  /\ replied' = [replied EXCEPT ![id] = @ + 1]
  /\ UNCHANGED panics

-----------------------------------------------------------------------------
(* The gateway.                                                            *)

\* The topic under which the dispatch thread publishes: transactions go in batches.
forward_topic(topic) == IF topic = "jsonrpc.new_tx" THEN "jsonrpc.new_tx_batch" ELSE topic

\* An HTTP worker files the id and then sends the request; a job of the WebSocket pool
\* sends the request first.
Call(r, call) ==
  /\ rpc[r] = NoRpc /\ rpc' = [rpc EXCEPT ![r] = call]
  /\ IF Refused(call)
     THEN /\ outputs' = [outputs EXCEPT ![r] = <<"failure">>]
          /\ UNCHANGED <<filing, waiting, queue>>
     ELSE /\ IF r \in Http THEN waiting' = waiting \cup {r} /\ UNCHANGED filing
                            ELSE filing' = filing \cup {r} /\ UNCHANGED waiting
          /\ Publish("none", forward_topic(select_topic(call.method)),
                     [id |-> r, req |-> methods[call.method].req])
          /\ UNCHANGED outputs
  /\ UNCHANGED <<missed, replied, panics>>

\* The job goes on: a WebSocket request has no timer.
ws_insert(r) ==
  /\ r \in filing
  /\ filing' = filing \ {r}
  /\ waiting' = waiting \cup {r}
  /\ UNCHANGED <<rpc, missed, queue, replied, outputs, panics>>

\* Output::from.  An answer with neither code nor data is not foreseen: data.unwrap().
Output(response) ==
  IF response.code # 0 THEN "failure"
  ELSE IF response.data = "error_msg" THEN "failure"
  ELSE IF response.data = "none" THEN "null" ELSE response.data

\* MqHandler::handle: the answer to a call that is over, or not yet filed, is dropped.
handle ==
  /\ queue["jsonrpc"] # <<>> /\ Take("jsonrpc")
  /\ LET response == Head(queue["jsonrpc"])
         id == response.id
         unwrapped == response.data # "nothing"
     IN /\ waiting' = waiting \ {id}
        /\ missed' = missed \cup ({id} \cap filing)
        /\ outputs' = IF id \in waiting /\ unwrapped
                      THEN [outputs EXCEPT ![id] = Append(@, Output(response))] ELSE outputs
        /\ panics' = IF id \in waiting /\ ~unwrapped THEN panics \cup {<<"jsonrpc", id>>} ELSE panics
  /\ UNCHANGED <<rpc, filing, replied>>

\* An HTTP call is over once its timer fires.
TimeOut(r) ==
  /\ r \in Http /\ r \in waiting /\ waiting' = waiting \ {r}
  /\ outputs' = [outputs EXCEPT ![r] = Append(@, "failure")]
  /\ UNCHANGED <<rpc, filing, missed, queue, replied, panics>>

-----------------------------------------------------------------------------
(* The services.                                                           *)

\* What chain answers itself: code and data.
ChainAnswers(req) ==
  CASE req = "block_number" -> {<<0, "block_number">>}
    [] req = "block_by_hash" -> {<<0, "block">>, <<0, "none">>, <<1, "error_msg">>, <<1, "block">>}
    [] req = "block_by_height" -> {<<0, "block">>, <<0, "none">>, <<1, "error_msg">>}
    [] req = "transaction" -> {<<0, "ts">>, <<0, "none">>}
    [] req = "transaction_receipt" -> {<<0, "receipt">>, <<0, "none">>}
    [] req = "filter" -> {<<0, "logs">>, <<1, "error_msg">>}
    [] req \in {"new_filter", "new_block_filter"} -> {<<0, "filter_id">>}
    [] req = "uninstall_filter" -> {<<0, "uninstall_filter">>}
    [] req = "filter_changes" -> {<<0, "filter_changes">>}
    [] req = "filter_logs" -> {<<0, "filter_logs">>}
    [] OTHER -> {<<0, "nothing">>}

OfState == {"call", "transaction_count", "code"}

ChainReply(id, req) ==
  /\ \E answer \in ChainAnswers(req) : Reply("chain", "chain.rpc", id, answer[1], answer[2])
  /\ UNCHANGED gateVars

\* A filter that is not installed, or a receipt of a block whose body is not yet there,
\* is unwrapped all the same.
ChainPanic(id, req) ==
  /\ req \in {"filter_changes", "transaction_receipt"} /\ Take("chain")
  /\ panics' = panics \cup {<<"chain", id>>}
  /\ UNCHANGED <<gateVars, replied>>

\* Mutant of chain_reply_request: what is asked of the state is answered as well.
RetransmitAndReply(id, req) ==
  IF req \in OfState
  THEN /\ queue' = [queue EXCEPT !["chain"] = Tail(@), !["executor"] = Append(@, Head(queue["chain"])),
                                 !["jsonrpc"] = Append(@, Response(id, 0, "nothing"))]
       /\ replied' = [replied EXCEPT ![id] = @ + 1]
       /\ UNCHANGED <<gateVars, panics>>
  ELSE ChainReply(id, req) \/ ChainPanic(id, req)

chain_reply_request(id, req) ==
  IF req \in OfState
  THEN /\ Publish("chain", "executor.rpc", Head(queue["chain"]))
       /\ UNCHANGED <<gateVars, replied, panics>>
  ELSE ChainReply(id, req) \/ ChainPanic(id, req)

ExecutorAnswers(req) ==
  CASE req = "call" -> {<<0, "call_result">>, <<1, "error_msg">>}
    [] req = "transaction_count" -> {<<0, "transaction_count">>, <<1, "error_msg">>}
    [] req = "code" -> {<<0, "contract_code">>, <<1, "error_msg">>}
    [] OTHER -> {<<0, "nothing">>}

executor_reply_request(id, req) ==
  /\ \E answer \in ExecutorAnswers(req) : Reply("executor", "chain.rpc", id, answer[1], answer[2])
  /\ UNCHANGED gateVars

\* reply_rpc of the network: only the number of peers is answered.
reply_rpc(id, req) ==
  /\ IF req = "peercount" THEN Reply("network", "chain.rpc", id, 0, "peercount")
     ELSE Take("network") /\ UNCHANGED <<replied, panics>>
  /\ UNCHANGED gateVars

\* auth tells whether the transaction is in the pool.
new_tx(id, req) ==
  /\ \E answer \in {<<0, "tx_state">>, <<1, "error_msg">>} :
       Reply("auth", "auth.rpc", id, answer[1], answer[2])
  /\ UNCHANGED gateVars

\* The id and the request of the message that the service takes next, if there is one.
Received(s) == {<<queue[s][i].id, queue[s][i].req>> : i \in {1} \cap DOMAIN queue[s]}

Serve ==
  \/ \E m \in Received("chain") : chain_reply_request(m[1], m[2])
  \/ \E m \in Received("executor") : executor_reply_request(m[1], m[2])
  \/ \E m \in Received("network") : reply_rpc(m[1], m[2])
  \/ \E m \in Received("auth") : new_tx(m[1], m[2])
  \/ handle

-----------------------------------------------------------------------------
RequestsInit ==
  /\ rpc = [r \in Rpcs |-> NoRpc] /\ filing = {} /\ waiting = {} /\ missed = {} /\ panics = {}
  /\ queue = [s \in Services |-> <<>>]
  /\ replied = [r \in Rpcs |-> 0] /\ outputs = [r \in Rpcs |-> <<>>]

RequestsNext ==
  \/ \E r \in Rpcs : (\E call \in Asks[r] : Call(r, call)) \/ ws_insert(r) \/ TimeOut(r)
  \/ Serve

-----------------------------------------------------------------------------
(* Properties.                                                             *)

\* The results a method may have, besides a failure (ResultBody).
Results(method) ==
  CASE method = "cita_sendTransaction" -> {"tx_state"}
    [] method = "cita_blockNumber" -> {"block_number"}
    [] method \in {"cita_getBlockByHash", "cita_getBlockByNumber"} -> {"block", "null"}
    [] method = "cita_getTransaction" -> {"ts", "null"}
    [] method = "net_peerCount" -> {"peercount"}
    [] method = "eth_call" -> {"call_result"}
    [] method = "eth_getLogs" -> {"logs"}
    [] method = "eth_getTransactionReceipt" -> {"receipt", "null"}
    [] method = "eth_getTransactionCount" -> {"transaction_count"}
    [] method = "eth_getCode" -> {"contract_code"}
    [] method \in {"eth_newFilter", "eth_newBlockFilter"} -> {"filter_id"}
    [] method = "eth_uninstallFilter" -> {"uninstall_filter"}
    [] method = "eth_getFilterChanges" -> {"filter_changes"}
    [] method = "eth_getFilterLogs" -> {"filter_logs"}
    [] OTHER -> {}

\* The services agree on who answers what: a request that the gateway lets through is
\* with one service, or was answered once, or chain panicked at it.  The answer is of
\* the kind that the method asks for, and never one that Output::from cannot unwrap.
AnsweredAsAsked ==
  \A r \in Rpcs :
    /\ \A i \in DOMAIN outputs[r] : outputs[r][i] \in {"failure"} \cup Results(rpc[r].method)
    /\ <<"jsonrpc", r>> \notin panics
    /\ rpc[r] # NoRpc /\ ~Refused(rpc[r]) =>
         LET Asked == {s \in Services \ {"jsonrpc"} : \E i \in DOMAIN queue[s] : queue[s][i].id = r}
             Ends == IF <<"chain", r>> \in panics THEN 1 ELSE replied[r]
         IN IF Ends = 0 THEN \E s \in Services : Asked = {s} ELSE Ends = 1 /\ Asked = {}

\* No request is left with a service, and no call waits but one without an answer to
\* come: chain panicked at it, or, over WebSocket, its answer came before its id was
\* filed and was dropped.
Answered ==
  /\ \A s \in Services : queue[s] = <<>>
  /\ filing = {}
  /\ \A r \in waiting : <<"chain", r>> \in panics \/ r \in missed
=============================================================================
