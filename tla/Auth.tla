-------------------------------- MODULE Auth --------------------------------
(***************************************************************************)
(* The auth service: it verifies new transactions and the transactions of  *)
(* proposals, and keeps the pool from which blocks are made.  The remote   *)
(* thread (r) takes the messages; the batching thread (b) looks at single  *)
(* requests first; the threads of the pool verify; the result thread       *)
(* counts verdicts and passes good transactions on; two threads share the  *)
(* dispatcher with the transaction pool behind one mutex.                  *)
(*                                                                         *)
(* An item is one transaction to verify: a new transaction, or the k-th of *)
(* proposal p.  at[i] says which channel or thread has it; the channels    *)
(* between threads are sets: threads of the pool send in any order, and    *)
(* for the others a set allows every order a queue does.                   *)
(***************************************************************************)
EXTENDS Verifier, Sequences

CONSTANTS
  Singles,           \* requests with one new transaction
  TxOf,              \* TxOf[s]: its transaction
  Jsonrpc,           \* the requests that come from jsonrpc, not from a peer
  Proposals,         \* block verification requests, by request_id
  Reqs,              \* Reqs[p]: the transactions of proposal p
  tx_pool_limit,
  PerThread,         \* tx_verify_num_per_thread
  CountPerBatch,     \* count_per_batch
  Workloads,         \* bound: the sets of requests that come in one behaviour
  MaxNotices,        \* bound on the notices to the dispatcher
  NoProposal

ASSUME AuthAssumption ==
  /\ TxOf \in [Singles -> Txs] /\ Jsonrpc \subseteq Singles
  /\ Reqs \in [Proposals -> Seq(Txs) \ {<<>>}] /\ NoProposal \notin Proposals
  /\ \A s \in Singles, p \in Proposals : \A k \in 1..Len(Reqs[p]) : s # <<p, k>>
  /\ Workloads \subseteq SUBSET (Singles \cup Proposals)
  /\ tx_pool_limit \in Nat /\ PerThread \in Nat /\ CountPerBatch \in Nat /\ MaxNotices \in Nat

ItemsOf(p) == {<<p, k>> : k \in 1..Len(Reqs[p])}
BlockItems == UNION {ItemsOf(p) : p \in Proposals}
Items == Singles \cup BlockItems
Request(i) == IF i \in Singles THEN i ELSE i[1]
Tx(i) == IF i \in Singles THEN TxOf[i] ELSE Reqs[i[1]][i[2]]

VARIABLES
  cache,       \* tx hash -> response, or "None"
  r,           \* the remote thread: pc, height, proposal and position in it
  b,           \* the batching thread: pc and the request it has
  at,          \* where each item is
  ret,         \* the response on its way with the item
  status,      \* block_verify_status
  pool,        \* the transactions in the pool
  tx_pool_cap,
  buffer,      \* new_tx_request_buffer of the dispatcher, by request
  flag,        \* the first dispatcher thread: something was dealt with
  notices,     \* heights on their way to the second dispatcher thread
  answers,     \* history: the answers to each jsonrpc request
  verdicts,    \* history: the verdicts on each proposal, and how they came about
  passed       \* history: items of proposals that were found good

verifyVars == <<cache, at, ret>>
statusVars == <<status, verdicts, passed>>
dispatchVars == <<pool, tx_pool_cap, buffer, flag, answers>>
vars == <<chainVars, verifierVars, verifyVars, statusVars, dispatchVars, notices, r, b>>

Idle == [pc |-> "Recv", height |-> 0, proposal |-> NoProposal, k |-> 0]
NotBegin == [request_id |-> NoProposal, result |-> "NotBegin", required |-> 0, capture |-> 0]
Where(place) == {i \in Items : at[i] = place}

Init ==
  /\ VerifierInit
  /\ cache = [t \in Txs |-> "None"]
  /\ r = Idle
  /\ b = [pc |-> "Recv", items |-> {}]
  /\ \E W \in Workloads :
       at = [i \in Items |-> IF Request(i) \in W THEN "new" ELSE "never"]
  /\ ret = [i \in Items |-> "None"]
  /\ status = NotBegin
  /\ pool = {} /\ tx_pool_cap = tx_pool_limit
  /\ buffer = {} /\ flag = FALSE /\ notices = <<>>
  /\ answers = [s \in Jsonrpc |-> 0]
  /\ verdicts = [p \in Proposals |-> {}] /\ passed = {}

Chain ==
  /\ \E S \in SUBSET Txs : NewBlock(S)
  /\ UNCHANGED <<verifyVars, statusVars, dispatchVars, notices, r, b>>

Move(i, place) == at' = [at EXCEPT ![i] = place]

\* resp_sender.send: a response goes to the result thread.
Respond(i, v) ==
  /\ Move(i, "result")
  /\ ret' = [ret EXCEPT ![i] = v]

-----------------------------------------------------------------------------
(* The remote thread: handle_remote_msg.                                   *)

\* BlockTxHashes: the transactions of a block leave the cache.
TakeHashes(h) ==
  /\ r.pc = "Recv" /\ Len(notices) < MaxNotices
  /\ cache' = [t \in Txs |-> IF t \in chain[h] THEN "None" ELSE cache[t]]
  /\ r' = [r EXCEPT !.pc = "Update", !.height = h]
  /\ UNCHANGED <<chainVars, verifierVars, at, ret, statusVars, dispatchVars, notices, b>>

\* Then the verifier gets them, and the dispatcher if the block is the latest.
TakeUpdate ==
  /\ r.pc = "Update"
  /\ update_hashes(r.height)
  /\ notices' = IF height_latest' = r.height THEN Append(notices, r.height) ELSE notices
  /\ r' = Idle
  /\ UNCHANGED <<chainVars, verifyVars, statusVars, dispatchVars, b>>

\* Request: a new transaction, of a batch from jsonrpc or from a peer.
TakeTx(s) ==
  /\ r.pc = "Recv" /\ at[s] = "new"
  /\ Move(s, "channel")
  /\ UNCHANGED <<chainVars, verifierVars, cache, ret, statusVars, dispatchVars, notices, r, b>>

NewStatus(p) == [request_id |-> p, result |-> "Ongoing", required |-> Len(Reqs[p]), capture |-> 0]

\* VerifyBlockReq.  From here to BlockEnd the thread has block_verify_status locked.
TakeProposal(p) ==
  /\ r.pc = "Recv" /\ at[<<p, 1>>] = "new"
  /\ status' = NewStatus(p)
  /\ r' = [r EXCEPT !.pc = "Check", !.proposal = p, !.k = 1]
  /\ UNCHANGED <<chainVars, verifierVars, verifyVars, verdicts, passed, dispatchVars, notices, b>>

\* One transaction of the proposal: check_verify_request_preprocess, which for a
\* proposal looks only in the cache.
BlockCheck ==
  LET i == <<r.proposal, r.k>>
      next == [r EXCEPT !.k = @ + 1, !.pc = IF r.k < Len(Reqs[r.proposal]) THEN "Check" ELSE "End"]
  IN /\ r.pc = "Check"
     /\ \/ /\ cache[Tx(i)] = "OK"
           /\ status' = [status EXCEPT !.capture = @ + 1]
           /\ passed' = passed \cup {i}
           /\ Move(i, "done") /\ r' = next
        \/ /\ cache[Tx(i)] = "None"
           /\ Move(i, "need") /\ r' = next
           /\ UNCHANGED <<status, passed>>
        \/ /\ cache[Tx(i)] \notin {"OK", "None"}
           /\ Move(i, "done") /\ r' = [r EXCEPT !.pc = "Fail"]
           /\ UNCHANGED <<status, passed>>
     /\ UNCHANGED <<chainVars, verifierVars, cache, ret, verdicts, dispatchVars, notices, b>>

publish_block_verification_result(p, v, by) ==
  verdicts' = [verdicts EXCEPT ![p] = @ \cup {[ret |-> v, by |-> by]}]

\* The cache is read again for the verdict; block_verify_result stays as it is.
BlockFail ==
  /\ r.pc = "Fail"
  /\ LET v == cache[Reqs[r.proposal][r.k]]
     IN publish_block_verification_result(r.proposal, IF v = "None" THEN "BadSig" ELSE v, "cache")
  /\ r' = [r EXCEPT !.pc = "End"]
  /\ UNCHANGED <<chainVars, verifierVars, verifyVars, status, passed, dispatchVars, notices, b>>

\* Mutant of BlockEnd: a proposal that is all in the cache gets no verdict.
EndSilent ==
  /\ r.pc = "End"
  /\ at' = [i \in Items |-> IF at[i] = "need" THEN "verify" ELSE at[i]]
  /\ r' = Idle
  /\ UNCHANGED <<chainVars, verifierVars, cache, ret, statusVars, dispatchVars, notices, b>>

\* What is not in the cache goes to the pool of threads, with on_proposal set.
BlockEnd ==
  /\ r.pc = "End"
  /\ \/ /\ Where("need") # {}
        /\ at' = [i \in Items |-> IF at[i] = "need" THEN "verify" ELSE at[i]]
        /\ r' = [r EXCEPT !.pc = "Spawned"]
        /\ UNCHANGED <<status, verdicts>>
     \/ /\ Where("need") = {} /\ status.capture = status.required
        /\ status' = [status EXCEPT !.result = "Succeeded"]
        /\ publish_block_verification_result(r.proposal, "OK", "count")
        /\ r' = Idle /\ UNCHANGED at
     \/ /\ Where("need") = {} /\ status.capture # status.required
        /\ r' = Idle /\ UNCHANGED <<at, status, verdicts>>
  /\ UNCHANGED <<chainVars, verifierVars, cache, ret, passed, dispatchVars, notices, b>>

on_proposal == r.pc = "Spawned"

BlockUnlock ==
  /\ r.pc = "Spawned"
  /\ r' = Idle
  /\ UNCHANGED <<chainVars, verifierVars, verifyVars, statusVars, dispatchVars, notices, b>>

StatusLocked == r.pc \in {"Check", "Fail", "End", "Spawned"}

-----------------------------------------------------------------------------
(* The batching thread.                                                    *)

\* Flow control: with the pool full the answer is Busy.
BatchRecv(s) ==
  /\ b.pc = "Recv" /\ at[s] = "channel"
  /\ IF tx_pool_limit # 0 /\ tx_pool_cap = 0
     THEN Respond(s, "Busy") /\ UNCHANGED b
     ELSE /\ Move(s, "batching") /\ UNCHANGED ret
          /\ b' = [pc |-> "Until", items |-> {s}]
  /\ UNCHANGED <<chainVars, verifierVars, cache, statusVars, dispatchVars, notices, r>>

BatchUntil(s) ==
  /\ b.pc = "Until" /\ s \in b.items
  /\ IF verify_valid_until_block(TxOf[s])
     THEN b' = [b EXCEPT !.pc = "Cached"] /\ UNCHANGED <<at, ret>>
     ELSE b' = [pc |-> "Recv", items |-> {}] /\ Respond(s, "InvalidUntilBlock")
  /\ UNCHANGED <<chainVars, verifierVars, cache, statusVars, dispatchVars, notices, r>>

\* Mutant of BatchCached: a cached response is sent, and the request goes on.
CachedGoesOn(s) ==
  /\ b.pc = "Cached" /\ s \in b.items
  /\ b' = [pc |-> "Recv", items |-> {}]
  /\ Move(s, "group") /\ UNCHANGED ret
  /\ answers' = IF cache[TxOf[s]] # "None" /\ s \in Jsonrpc
                THEN [answers EXCEPT ![s] = @ + 1] ELSE answers
  /\ UNCHANGED <<chainVars, verifierVars, cache, statusVars, pool, tx_pool_cap, buffer, flag,
                 notices, r>>

BatchCached(s) ==
  /\ b.pc = "Cached" /\ s \in b.items
  /\ IF cache[TxOf[s]] = "None"
     THEN /\ Move(s, "group") /\ UNCHANGED ret
          /\ b' = [pc |-> IF Cardinality(Where("group")) >= PerThread THEN "Look" ELSE "Recv",
                   items |-> {}]
     ELSE Respond(s, cache[TxOf[s]]) /\ b' = [pc |-> "Recv", items |-> {}]
  /\ UNCHANGED <<chainVars, verifierVars, cache, statusVars, dispatchVars, notices, r>>

Spawn ==
  /\ ~on_proposal
  /\ at' = [i \in Items |-> IF at[i] = "group" THEN "verify" ELSE at[i]]
  /\ b' = [pc |-> "Recv", items |-> {}]
  /\ UNCHANGED <<chainVars, verifierVars, cache, ret, statusVars, dispatchVars, notices, r>>

\* A full group, or one that nothing is there to join, goes to the pool of threads.
BatchSpawn ==
  /\ \/ b.pc = "Look"
     \/ b.pc = "Recv" /\ Where("channel") = {} /\ Where("group") # {}
  /\ Spawn

\* It waits while the transactions of a proposal are given out.
BatchSleep ==
  /\ b.pc = "Look" /\ on_proposal
  /\ b' = [pc |-> "Recv", items |-> {}]
  /\ UNCHANGED <<chainVars, verifierVars, verifyVars, statusVars, dispatchVars, notices, r>>

-----------------------------------------------------------------------------
(* A thread of the pool: verify_tx_group_service.                          *)

JobVerify(i) ==
  /\ at[i] = "verify"
  /\ Move(i, "insert")
  /\ ret' = [ret EXCEPT ![i] = verfiy_tx(Tx(i))]
  /\ UNCHANGED <<chainVars, verifierVars, cache, statusVars, dispatchVars, notices, r, b>>

JobInsert(i) ==
  /\ at[i] = "insert"
  /\ cache' = [cache EXCEPT ![Tx(i)] = ret[i]]
  /\ Respond(i, ret[i])
  /\ UNCHANGED <<chainVars, verifierVars, statusVars, dispatchVars, notices, r, b>>

-----------------------------------------------------------------------------
(* The result thread: handle_verificaton_result.                           *)

Done(i) == Move(i, "done") /\ ret' = [ret EXCEPT ![i] = "None"]

ResultSingle(s) ==
  /\ at[s] = "result"
  /\ IF ret[s] = "OK"
     THEN Move(s, "deal") /\ UNCHANGED <<ret, answers>>
     ELSE /\ Done(s)
          /\ answers' = IF s \in Jsonrpc THEN [answers EXCEPT ![s] = @ + 1] ELSE answers
  /\ UNCHANGED <<chainVars, verifierVars, cache, statusVars, pool, tx_pool_cap, buffer, flag,
                 notices, r, b>>

\* Mutant of Counts: a response is counted for whatever proposal is current.
CountsAny(p) == TRUE

Counts(p) == p = status.request_id

ResultBlock(i) ==
  LET p == i[1]
      all == status.capture + 1 = status.required
  IN /\ at[i] = "result" /\ ~StatusLocked
     /\ Done(i)
     /\ passed' = IF ret[i] = "OK" THEN passed \cup {i} ELSE passed
     /\ \/ /\ ret[i] # "OK" /\ Counts(p) /\ status.result # "Failed"
           /\ status' = [status EXCEPT !.result = "Failed"]
           /\ publish_block_verification_result(p, ret[i], "result")
        \/ /\ ret[i] = "OK" /\ Counts(p)
           /\ status' = [status EXCEPT !.capture = @ + 1,
                                       !.result = IF all THEN "Succeeded" ELSE @]
           /\ IF all THEN publish_block_verification_result(status.request_id, "OK", "count")
                     ELSE UNCHANGED verdicts
        \/ /\ ~Counts(p) \/ (ret[i] # "OK" /\ status.result = "Failed")
           /\ UNCHANGED <<status, verdicts>>
     /\ UNCHANGED <<chainVars, verifierVars, cache, dispatchVars, notices, r, b>>

-----------------------------------------------------------------------------
(* The dispatcher.                                                         *)

update_capacity == tx_pool_cap' = IF tx_pool_limit >= Cardinality(pool')
                                  THEN tx_pool_limit - Cardinality(pool') ELSE 0

\* batch_forward_tx_to_peer, or not yet.
Forward(reqs, now) == buffer' = IF now THEN {} ELSE reqs

\* The first thread: a verified transaction enters the pool.  One from jsonrpc is
\* answered and goes to the peers, with others, by number or by age.
deal_tx(s) ==
  LET dup == TxOf[s] \in pool
  IN /\ at[s] = "deal"
     /\ Done(s) /\ flag' = TRUE
     /\ pool' = pool \cup {TxOf[s]}
     /\ IF dup THEN UNCHANGED tx_pool_cap ELSE update_capacity
     /\ answers' = IF s \in Jsonrpc THEN [answers EXCEPT ![s] = @ + 1] ELSE answers
     /\ IF s \in Jsonrpc /\ ~dup
        THEN \E now \in BOOLEAN : /\ Cardinality(buffer \cup {s}) > CountPerBatch => now
                                  /\ Forward(buffer \cup {s}, now)
        ELSE UNCHANGED buffer
     /\ UNCHANGED <<chainVars, verifierVars, cache, statusVars, notices, r, b>>

\* Mutant of wait_timeout_process: the flag is cleared and the buffer kept.
TimeoutKeeps ==
  /\ Where("deal") = {} /\ flag
  /\ flag' = FALSE
  /\ UNCHANGED <<chainVars, verifierVars, verifyVars, statusVars, pool, tx_pool_cap, buffer,
                 answers, notices, r, b>>

wait_timeout_process ==
  /\ Where("deal") = {} /\ flag
  /\ flag' = FALSE
  /\ Forward(buffer, TRUE)
  /\ UNCHANGED <<chainVars, verifierVars, verifyVars, statusVars, pool, tx_pool_cap, answers,
                 notices, r, b>>

\* The pool's package, which may drop transactions that are too old.
package(S, height) == {S \ old : old \in SUBSET {t \in S : valid_until_block[t] <= height}}

\* The second thread: the transactions of the latest block leave the pool, and
\* those for the next one go to consensus.
deal_txs ==
  /\ notices # <<>>
  /\ pool' \in package(pool \ chain[Head(notices)], Head(notices))
  /\ update_capacity
  /\ notices' = Tail(notices)
  /\ UNCHANGED <<chainVars, verifierVars, verifyVars, statusVars, buffer, flag, answers,
                 r, b>>

-----------------------------------------------------------------------------
Receive ==
  \/ \E h \in 0..tip : TakeHashes(h)
  \/ \E s \in Singles : TakeTx(s)
  \/ \E p \in Proposals : TakeProposal(p)
Remote == TakeUpdate \/ BlockCheck \/ BlockFail \/ BlockEnd \/ BlockUnlock
Batching ==
  \/ \E s \in Singles : BatchRecv(s) \/ BatchUntil(s) \/ BatchCached(s)
  \/ BatchSpawn \/ BatchSleep
Job(i) == JobVerify(i) \/ JobInsert(i)
Result == (\E s \in Singles : ResultSingle(s)) \/ (\E i \in BlockItems : ResultBlock(i))
DealTx == (\E s \in Singles : deal_tx(s)) \/ wait_timeout_process

Next ==
  \/ Chain \/ Receive \/ Remote \/ Batching \/ Result \/ DealTx \/ deal_txs
  \/ \E i \in Items : Job(i)

Spec == Init /\ [][Next]_vars

\* Every thread takes the steps it can, and what is given to the pool of threads is
\* run.  Nothing obliges the chain to grow or a message to come.
FairSpec ==
  /\ Spec
  /\ WF_vars(Remote) /\ WF_vars(Batching) /\ WF_vars(Result)
  /\ WF_vars(\E i \in Items : Job(i)) /\ WF_vars(DealTx)

-----------------------------------------------------------------------------
(* Properties.                                                             *)

\* A verifier that says it is ready has the hashes of every block of its window,
\* whatever came late, twice, out of order or not at all; and what it has is what
\* the chain has.
WindowComplete ==
  /\ \A h \in DOMAIN hashes : hashes[h] = chain[h]
  /\ inited => DOMAIN hashes = height_low..height_latest

\* A transaction that verfiy_tx lets pass, and that is not out of date, is in no
\* block up to the latest: a window of BLOCKLIMIT blocks is enough, because
\* valid_until_block is at most BLOCKLIMIT ahead when a transaction is taken.
NoReplay ==
  [][\A i \in Items :
       JobVerify(i) /\ ret'[i] = "OK" /\ valid_until_block[Tx(i)] > height_latest
         => \A h \in 0..height_latest : Tx(i) \notin chain[h]]_vars

\* A verdict OK that comes from counting is given only when every transaction of
\* that proposal was found good, however the responses to it and to an earlier
\* proposal interleave.
OkSound ==
  \A p \in Proposals : [ret |-> "OK", by |-> "count"] \in verdicts[p] => ItemsOf(p) \subseteq passed

\* A request from jsonrpc has one answer when the service is done with it and none
\* before, whichever thread ends it.
AnsweredOnce == \A s \in Jsonrpc : answers[s] = IF at[s] = "done" THEN 1 ELSE 0

\* The threads have left no request behind: every new transaction that was taken is
\* dealt with, and forwarded if it is to be, though no other comes, and the proposal in
\* block_verify_status, if there is one, has a verdict.
Served ==
  /\ buffer = {} /\ \A s \in Singles : at[s] \in {"never", "new", "done"}
  /\ \A p \in Proposals : status.request_id = p => verdicts[p] # {}
=============================================================================
