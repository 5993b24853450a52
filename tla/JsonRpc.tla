------------------------------ MODULE JsonRpc ------------------------------
(***************************************************************************)
(* The JSON-RPC gateway.  HTTP workers and the jobs of the WebSocket pool   *)
(* give each request an id, file the id in the shared map `responses` and   *)
(* send the request to the dispatch thread, which publishes it, new         *)
(* transactions in batches.  The main thread takes each answer from the     *)
(* message queue and gives it to whoever filed its id.  The services that   *)
(* answer are the environment: an answer may be late, missing or repeated.  *)
(***************************************************************************)
EXTENDS Integers, Sequences, SequencesExt, FiniteSets

CONSTANTS
  Calls,          \* HTTP requests (POST /)
  Reqs,           \* Reqs[c]: the ids of the requests in the body of c
  Single,         \* the calls that are not batches
  WsReqs,         \* ids of requests that come over WebSocket
  NewTx,          \* ids whose topic is jsonrpc.new_tx
  CountPerBatch,  \* count_per_batch
  MaxAnswers,     \* MaxAnswers[r]: bound on the answers to r
  NoId

HttpReqs == UNION {ToSet(Reqs[c]) : c \in Calls}
Ids == HttpReqs \cup WsReqs

VARIABLES
  http,        \* where the worker is with each call
  pos,         \* the request of the call it is at
  ws,          \* where the pool is with each WebSocket request
  responses,   \* ids in the map from ids to those who wait
  delivered,   \* HTTP ids whose oneshot channel holds its output
  answers,     \* messages sent to the WebSocket client for each request
  relay,       \* channel to the dispatch thread
  new_tx_request_buffer,
  published,   \* the requests published so far, batches unpacked, by topic
  sent,        \* every request put in the relay, in order
  asked,       \* answers the services gave to each request
  inbox,       \* channel from the message queue to the main thread
  handling     \* the id the main thread has taken out of the map

vars == <<http, pos, ws, responses, delivered, answers, relay, new_tx_request_buffer,
          published, sent, asked, inbox, handling>>
httpVars == <<http, pos>>
wsVars == <<ws, answers>>
relayVars == <<relay, sent>>
dispatchVars == <<new_tx_request_buffer, published>>
mqVars == <<asked, inbox, handling>>

Topics == {"jsonrpc.new_tx_batch", "other"}
Finished == {"rejected", "failed", "answered", "timed_out"}
CallOf(r) == CHOOSE c \in Calls : r \in ToSet(Reqs[c])

Init ==
  /\ http = [c \in Calls |-> "new"]
  /\ pos = [c \in Calls |-> 1]
  /\ ws = [r \in WsReqs |-> "new"]
  /\ responses = {} /\ delivered = {}
  /\ answers = [r \in WsReqs |-> 0]
  /\ relay = <<>> /\ sent = <<>>
  /\ new_tx_request_buffer = <<>> /\ published = [t \in Topics |-> <<>>]
  /\ asked = [r \in Ids |-> 0]
  /\ inbox = <<>> /\ handling = NoId

-----------------------------------------------------------------------------
(* HTTP workers.                                                           *)

\* Where a worker goes once p - 1 requests of the call are sent.  A batch
\* starts its timer only then, and fails if it cannot.
AfterSending(c, p) ==
  IF p <= Len(Reqs[c]) THEN {"insert"}
  ELSE IF c \in Single THEN {"wait"} ELSE {"wait", "failed"}

\* The body is not JSON, a request in it has no such method, or, for a single
\* request, the timer cannot be started: the worker answers at once.
read(c) ==
  /\ http[c] = "new"
  /\ \/ http' = [http EXCEPT ![c] = "rejected"]
     \/ \E s \in AfterSending(c, 1) : http' = [http EXCEPT ![c] = s]
  /\ UNCHANGED <<pos, wsVars, responses, delivered, relayVars, dispatchVars, mqVars>>

\* Mutant of handle_insert: only the first id of a batch is filed.
InsertFirst(c) ==
  /\ http[c] = "insert"
  /\ responses' = IF pos[c] = 1 THEN responses \cup {Reqs[c][1]} ELSE responses
  /\ http' = [http EXCEPT ![c] = "send"]
  /\ UNCHANGED <<pos, wsVars, delivered, relayVars, dispatchVars, mqVars>>

\* handle_single and handle_batch file the id, then send the request.
handle_insert(c) ==
  /\ http[c] = "insert"
  /\ responses' = responses \cup {Reqs[c][pos[c]]}
  /\ http' = [http EXCEPT ![c] = "send"]
  /\ UNCHANGED <<pos, wsVars, delivered, relayVars, dispatchVars, mqVars>>

handle_send(c) ==
  /\ http[c] = "send"
  /\ relay' = Append(relay, Reqs[c][pos[c]])
  /\ sent' = Append(sent, Reqs[c][pos[c]])
  /\ pos' = [pos EXCEPT ![c] = pos[c] + 1]
  /\ \E s \in AfterSending(c, pos[c] + 1) : http' = [http EXCEPT ![c] = s]
  /\ UNCHANGED <<wsVars, responses, delivered, dispatchVars, mqVars>>

AllDelivered(c) == ToSet(Reqs[c]) \subseteq delivered

\* The future of the answers is polled before the timer.
poll_answer(c) ==
  /\ http[c] = "wait" /\ AllDelivered(c)
  /\ http' = [http EXCEPT ![c] = "answered"]
  /\ UNCHANGED <<pos, wsVars, responses, delivered, relayVars, dispatchVars, mqVars>>

\* Mutant of poll_timeout: only the first id of a batch is removed.
TimeoutFirst(c) ==
  /\ http[c] = "wait" /\ ~AllDelivered(c)
  /\ responses' = responses \ {Reqs[c][1]}
  /\ http' = [http EXCEPT ![c] = "timed_out"]
  /\ UNCHANGED <<pos, wsVars, delivered, relayVars, dispatchVars, mqVars>>

\* Mutant of poll_timeout: once a part of a batch is answered, the timer is off.
TimeoutWhole(c) ==
  /\ http[c] = "wait" /\ ToSet(Reqs[c]) \cap delivered = {}
  /\ responses' = responses \ ToSet(Reqs[c])
  /\ http' = [http EXCEPT ![c] = "timed_out"]
  /\ UNCHANGED <<pos, wsVars, delivered, relayVars, dispatchVars, mqVars>>

poll_timeout(c) ==
  /\ http[c] = "wait" /\ ~AllDelivered(c)
  /\ responses' = responses \ ToSet(Reqs[c])
  /\ http' = [http EXCEPT ![c] = "timed_out"]
  /\ UNCHANGED <<pos, wsVars, delivered, relayVars, dispatchVars, mqVars>>

-----------------------------------------------------------------------------
(* Jobs of the WebSocket pool: the request is sent before its id is filed. *)

ws_send(r) ==
  /\ ws[r] = "new"
  /\ \/ /\ ws' = [ws EXCEPT ![r] = "rejected"]
        /\ UNCHANGED relayVars
     \/ /\ ws' = [ws EXCEPT ![r] = "insert"]
        /\ relay' = Append(relay, r)
        /\ sent' = Append(sent, r)
  /\ UNCHANGED <<httpVars, answers, responses, delivered, dispatchVars, mqVars>>

ws_insert(r) ==
  /\ ws[r] = "insert"
  /\ responses' = responses \cup {r}
  /\ ws' = [ws EXCEPT ![r] = "open"]
  /\ UNCHANGED <<httpVars, answers, delivered, relayVars, dispatchVars, mqVars>>

-----------------------------------------------------------------------------
(* The dispatch thread.                                                    *)

Publish(topic, reqs) == published' = [published EXCEPT ![topic] = @ \o reqs]

\* Mutant of batch_forward_new_tx: a full batch leaves out the last request.
BatchTruncated(buffer) ==
  /\ Publish("jsonrpc.new_tx_batch", SubSeq(buffer, 1, CountPerBatch))
  /\ new_tx_request_buffer' = <<>>

batch_forward_new_tx(buffer) ==
  /\ Publish("jsonrpc.new_tx_batch", buffer)
  /\ new_tx_request_buffer' = <<>>

MayWait(buffer) == Len(buffer) <= CountPerBatch

\* A full buffer is forwarded, one that is old may be: the age is a choice.
forward_service ==
  /\ relay # <<>>
  /\ relay' = Tail(relay)
  /\ LET r == Head(relay)
         buffer == Append(new_tx_request_buffer, r)
     IN IF r \notin NewTx
        THEN /\ Publish("other", <<r>>)
             /\ UNCHANGED new_tx_request_buffer
        ELSE \/ batch_forward_new_tx(buffer)
             \/ /\ MayWait(buffer)
                /\ new_tx_request_buffer' = buffer
                /\ UNCHANGED published
  /\ UNCHANGED <<httpVars, wsVars, responses, delivered, sent, mqVars>>

\* Nothing to receive: what is buffered is forwarded.
dispatch_idle ==
  /\ relay = <<>> /\ new_tx_request_buffer # <<>>
  /\ batch_forward_new_tx(new_tx_request_buffer)
  /\ UNCHANGED <<httpVars, wsVars, responses, delivered, relayVars, mqVars>>

-----------------------------------------------------------------------------
(* The services, and the main thread (MqHandler).                          *)

Answer(r) ==
  /\ \E t \in Topics : Contains(published[t], r)
  /\ asked[r] < MaxAnswers[r]
  /\ asked' = [asked EXCEPT ![r] = @ + 1]
  /\ inbox' = Append(inbox, r)
  /\ UNCHANGED <<httpVars, wsVars, responses, delivered, relayVars, dispatchVars, handling>>

\* Mutant of handle_remove: the entry of a WebSocket client is left in the map.
HandleGet ==
  /\ handling = NoId /\ inbox # <<>>
  /\ inbox' = Tail(inbox)
  /\ handling' = IF Head(inbox) \in responses THEN Head(inbox) ELSE NoId
  /\ responses' = responses \ ({Head(inbox)} \cap HttpReqs)
  /\ UNCHANGED <<httpVars, wsVars, delivered, relayVars, dispatchVars, asked>>

\* An id that nobody has filed is a lost request id: the answer is dropped.
handle_remove ==
  /\ handling = NoId /\ inbox # <<>>
  /\ inbox' = Tail(inbox)
  /\ handling' = IF Head(inbox) \in responses THEN Head(inbox) ELSE NoId
  /\ responses' = responses \ {Head(inbox)}
  /\ UNCHANGED <<httpVars, wsVars, delivered, relayVars, dispatchVars, asked>>


\* The answer goes into the oneshot channel of an HTTP call, unless the call is
\* over and its end dropped, or to the WebSocket client.
handle_send_back ==
  /\ handling # NoId
  /\ handling' = NoId
  /\ \/ /\ handling \in HttpReqs
        /\ delivered' = IF http[CallOf(handling)] \in Finished THEN delivered
                        ELSE delivered \cup {handling}
        /\ UNCHANGED wsVars
     \/ /\ handling \in WsReqs
        /\ ws' = [ws EXCEPT ![handling] = "answered"]
        /\ answers' = [answers EXCEPT ![handling] = @ + 1]
        /\ UNCHANGED delivered
  /\ UNCHANGED <<httpVars, responses, relayVars, dispatchVars, asked, inbox>>

-----------------------------------------------------------------------------
Worker(c) == \/ handle_insert(c) \/ handle_send(c)
             \/ poll_answer(c) \/ poll_timeout(c)
Job(r) == ws_insert(r)
Dispatch == forward_service \/ dispatch_idle
Main == handle_remove \/ handle_send_back

Next ==
  \/ \E c \in Calls : read(c) \/ Worker(c)
  \/ \E r \in WsReqs : ws_send(r) \/ Job(r)
  \/ Dispatch
  \/ \E r \in Ids : Answer(r)
  \/ Main

Spec == Init /\ [][Next]_vars

\* A thread that can take a step takes one in the end; a timer fires in the end.
\* Nothing obliges a client to call or a service to answer.
FairSpec ==
  /\ Spec
  /\ \A c \in Calls : WF_vars(Worker(c))
  /\ \A r \in WsReqs : WF_vars(Job(r))
  /\ WF_vars(Dispatch)
  /\ WF_vars(Main)

-----------------------------------------------------------------------------
(* Properties.                                                             *)

\* The ids of the call that are filed so far.
Filed(c) == {Reqs[c][i] : i \in {j \in 1..Len(Reqs[c]) :
                                   j < pos[c] \/ (j = pos[c] /\ http[c] = "send")}}

\* The sender of a oneshot channel is never dropped while its call waits, so the
\* Incomplete error of SingleFutureResponse and BatchFutureResponse is never the
\* answer: an id that is filed is in the map, in the main thread's hands, or
\* delivered.
NeverIncomplete ==
  \A c \in Calls : http[c] \in {"insert", "send", "wait"} =>
    Filed(c) \subseteq responses \cup {handling} \cup delivered

\* An entry of the map lives as long as its call: none is lost before
\* (NeverIncomplete), and a call that is answered or timed out leaves nothing
\* behind, late and repeated answers included.
NothingLeft ==
  /\ NeverIncomplete
  /\ \A c \in Calls : http[c] \in {"answered", "timed_out", "rejected"} =>
       ToSet(Reqs[c]) \cap responses = {}

\* A WebSocket client gets one answer to a request, however often it is answered.
AnsweredOnce == \A r \in WsReqs : answers[r] <= 1

IsNewTx(r) == r \in NewTx
IsOther(r) == r \notin NewTx

\* What is sent is published once and in order, new transactions among themselves
\* and the other requests among themselves, whatever the batches.
ForwardedInOrder ==
  /\ SelectSeq(sent, IsNewTx) =
       published["jsonrpc.new_tx_batch"] \o new_tx_request_buffer \o SelectSeq(relay, IsNewTx)
  /\ SelectSeq(sent, IsOther) = published["other"] \o SelectSeq(relay, IsOther)

\* Every HTTP call that was read is answered, by the services or by its timer, and a
\* WebSocket request without an answer is still filed, with no answer on its way.
Quiet ==
  /\ \A c \in Calls : http[c] \in {"new"} \cup Finished
  /\ \A r \in WsReqs : ws[r] = "open" => r \in responses /\ ~Contains(inbox, r)
=============================================================================
