------------------------------ MODULE LogIndex ------------------------------
(***************************************************************************)
(* What the chain service answers about the logs of one block: `logs`,     *)
(* which walks blocks, receipts and logs backwards, and                    *)
(* `localized_receipt`, which walks them forwards.                         *)
(*                                                                         *)
(* A block is the sequence of the receipts of its transactions.  A receipt *)
(* is [gas_used, logs], or NoReceipt where the executor gave none; a log   *)
(* is its topic.  Positions count from 0, as in the code.                  *)
(***************************************************************************)
EXTENDS Integers, Sequences, SequencesExt

NoReceipt == [gas_used |-> -1, logs |-> <<>>]

Present(receipts) == SelectSeq(receipts, LAMBDA r : r # NoReceipt)

no_of_logs(receipts) == FoldLeft(LAMBDA n, r : n + Len(r.logs), 0, receipts)

\* One entry of an answer: where the log is in its block and transaction.
Entry(log, tx, i, n) ==
  [entry |-> log, transaction_index |-> tx,
   transaction_log_index |-> i, log_index |-> n]

\* Filter::matches: no topic asks for every log.
matches(topics, log) == topics = {} \/ log \in topics

\* The receipt of the transaction at `index`, or NoAnswer.
NoAnswer == [gas_used |-> 0, logs |-> <<>>]
localized_receipt(receipts, index) ==
  LET last_receipt == receipts[index + 1]
      prior == Present(SubSeq(receipts, 1, index))
      prior_gas_used == IF prior = <<>> THEN 0 ELSE Last(prior).gas_used
  IN  IF last_receipt = NoReceipt THEN NoAnswer
      ELSE [gas_used |-> last_receipt.gas_used - prior_gas_used,
            logs |-> [i \in 1..Len(last_receipt.logs) |->
                        Entry(last_receipt.logs[i], index, i - 1, no_of_logs(prior) + i - 1)]]

\* Mutant of block_logs: the logs of a transaction are numbered from 1.
LogsFromOne(receipts) ==
  LET back == Reverse(Present(receipts))
      entries(index) ==
        LET ls == back[index + 1].logs
            current_log_index == no_of_logs(receipts) - no_of_logs(SubSeq(back, 1, index))
        IN  [i \in 1..Len(ls) |-> Entry(ls[Len(ls) - i + 1], Len(receipts) - index - 1,
                                        Len(ls) - i, current_log_index - i + 1)]
  IN  FlattenSeq([n \in 1..Len(back) |-> entries(n - 1)])

\* The part of `logs` for one block: reversed receipts without the missing ones,
\* numbered from the end.  All entries, the last log first.
block_logs(receipts) ==
  LET back == Reverse(Present(receipts))
      entries(index) ==
        LET ls == back[index + 1].logs
            current_log_index == no_of_logs(receipts) - no_of_logs(SubSeq(back, 1, index))
        IN  [i \in 1..Len(ls) |-> Entry(ls[Len(ls) - i + 1], Len(receipts) - index - 1,
                                        Len(ls) - i, current_log_index - i)]
  IN  FlattenSeq([n \in 1..Len(back) |-> entries(n - 1)])

\* The last `limit` logs; Unlimited keeps them all.
Unlimited == -1
limit_logs(found, limit) ==
  IF limit # Unlimited /\ Len(found) >= limit
  THEN SubSeq(found, Len(found) - limit + 1, Len(found)) ELSE found

\* Chain::logs for the blocks `numbers` (last one first) of `blocks`.
logs(blocks, numbers, topics, limit) ==
  LET all == FlattenSeq([k \in 1..Len(numbers) |->
               LET es == block_logs(blocks[numbers[k]])
               IN  [j \in 1..Len(es) |-> [number |-> numbers[k], log |-> es[j]]]])
      some == SelectSeq(all, LAMBDA e : matches(topics, e.log.entry))
      taken == IF limit # Unlimited /\ limit < Len(some) THEN SubSeq(some, 1, limit) ELSE some
  IN  Reverse(taken)
=============================================================================
