------------------------------ MODULE Executive ------------------------------
(***************************************************************************)
(* The execution of the transactions of a block: OpenBlock, which applies  *)
(* them in order, Executive, which runs one, Externalities, which is what  *)
(* a running contract sees, Substate and ExecutiveTracer.                  *)
(*                                                                         *)
(* A call or a creation is a frame.  The code of a contract is left open:  *)
(* while a frame runs it may do any of the things the interpreter lets it  *)
(* do to the state, in any order, each for the gas of one Step, and end in *)
(* any way.  Frames and their changes are told apart by a number: a frame  *)
(* writes its number into the storage and into its logs.                   *)
(*                                                                         *)
(* The state is the map of accounts that State implements, with the maps   *)
(* saved by the open checkpoints, one for each frame.  contract_address    *)
(* never gives an address twice: the new address is the old one and the    *)
(* nonce.  Balances are 0, so that only calls without value are made.      *)
(* The sender of a transaction of a block is recovered from its signature: *)
(* it is not the zero address, which only calls outside of blocks have.    *)
(***************************************************************************)
EXTENDS Accounts, Integers, Sequences, FiniteSets, SequencesExt

CONSTANTS
  Genesis,            \* the accounts before the block
  Txs,                \* the transactions a block may hold
  MaxTxs,             \* bound on the transactions of a block
  check_permission, check_quota,   \* of the configuration
  ZeroSender,         \* Address::zero(), which no check is made for
  senders, creators,  \* who may send, and who may create contracts too
  Natives,            \* addresses of native contracts (privatetx)
  GasLimit,           \* of the block
  AccountGasLimit,    \* of each sender, in the block
  BaseGas,            \* base_gas_required
  NativeCost, CodeCost,
  RefundGas,          \* for a cleared key, and for a suicide
  max_depth,
  CheckEvery,         \* CHECK_NUM + 1
  MaxFrames           \* bound on the frames of a block

VARIABLES
  accounts, saved,   \* the state, and what it was at each open checkpoint
  frames,            \* the running calls and creations, outermost first
  tx,                \* the transaction that runs
  opened,            \* the number of frames opened
  failed,            \* the frames that an exception ended, in or around them
  applied, receipts, traces, current_gas_used, account_gas,   \* of the block
  stage              \* of the block: "open", "closed" or "interrupted"

stateOf == <<accounts, saved>>
txVars == <<frames, tx, opened, failed>>
blockVars == <<applied, receipts, traces, current_gas_used, account_gas, stage>>
execVars == <<accounts, saved, frames, tx, opened, failed, applied,
              receipts, traces, current_gas_used, account_gas, stage>>

NoTx == [sender |-> <<>>, action |-> "none", to |-> <<>>, gas |-> 0, nonce |-> 0]
NoReceipt == [gas_used |-> -1, logs |-> <<>>, error |-> "no receipt", nonce |-> 0]
Code == "code"

\* contract_address of the nonce n of a.
contract_address(a, n) == Append(a, n)

min(a, b) == IF a < b THEN a ELSE b

-----------------------------------------------------------------------------
(* Substate.                                                               *)

EmptySubstate == [suicides |-> {}, logs |-> <<>>, clears |-> 0, created |-> <<>>]

accrue(s, t) ==
  [suicides |-> s.suicides \cup t.suicides, logs |-> s.logs \o t.logs,
   clears |-> s.clears + t.clears, created |-> s.created \o t.created]

-----------------------------------------------------------------------------
(* ExecutiveTracer.                                                        *)

Trace(kind, subs) == [kind |-> kind, address |-> <<>>, subtraces |-> subs]

top_level_subtraces(ts) == Cardinality({i \in DOMAIN ts : ts[i].address = <<>>})

\* Mutant of prefix_subtrace_addresses: the first of the traces counts.
PrefixFromOne(ts) ==
  [i \in DOMAIN ts |->
     [ts[i] EXCEPT !.address = <<top_level_subtraces(SubSeq(ts, 1, i))>> \o @]]

\* Each of the traces goes under the number of its top level trace, from 0.
prefix_subtrace_addresses(ts) ==
  [i \in DOMAIN ts |->
     [ts[i] EXCEPT !.address = <<Cardinality({j \in 2..i : ts[j].address = <<>>})>> \o @]]

\* trace_call, trace_create and their failed forms; trace_suicide has no traces below.
Traced(ts, kind, below) ==
  Append(ts, Trace(kind, top_level_subtraces(below))) \o prefix_subtrace_addresses(below)

-----------------------------------------------------------------------------
(* Frames.                                                                 *)

\* The frame of a call or a creation, numbered id.
Frame(kind, id, address, gas, code) ==
  [kind |-> kind, id |-> id, address |-> address, gas |-> gas, provided |-> gas,
   code |-> code, substate |-> EmptySubstate, traces |-> <<>>]

Top == frames[Len(frames)]
depth == Len(frames) - 1

IsNative(address, gas) == address \in Natives /\ NativeCost <= gas

\* The top frame has paid for a step, and g more for the frame it opens.
Paid(g) == [frames EXCEPT ![Len(frames)].gas = @ - 1 - g]

\* A frame that code runs in has the gas for a step.
Runs(kinds) ==
  /\ frames # <<>>
  /\ Top.kind \in kinds /\ Top.code # NoCode
  /\ Top.gas > 0

SameTx == UNCHANGED <<tx, opened, failed, blockVars>>

-----------------------------------------------------------------------------
(* What a running contract does: Externalities.                            *)

\* A read of a key, or anything else that changes only what the frame has itself.
SLoad ==
  /\ Runs({"call", "create", "native"})
  /\ frames' = Paid(0)
  /\ UNCHANGED stateOf /\ SameTx

\* set_storage and inc_sstore_clears.
SStore(k) ==
  /\ Runs({"call", "create", "native"})
  /\ \E v \in {0, Top.id} :
       /\ accounts' = SetStorage(accounts, Top.address, k, v)
       /\ frames' = IF v = 0 /\ StorageAt(accounts, Top.address, k) # 0
                    THEN [Paid(0) EXCEPT ![Len(frames)].substate.clears = @ + 1]
                    ELSE Paid(0)
  /\ UNCHANGED saved /\ SameTx

Log ==
  /\ Runs({"call", "create", "native"})
  /\ frames' = [Paid(0) EXCEPT ![Len(frames)].substate.logs =
                  Append(@, [address |-> Top.address, id |-> Top.id])]
  /\ UNCHANGED stateOf /\ SameTx

\* Externalities::call of the code at to, in the account there or (CALLCODE and
\* DELEGATECALL) in its own: Executive::call at the next depth.
\* Nothing is called at max_depth: the gas comes back.
OpenCall(to, address, g) ==
  /\ saved' = Append(saved, accounts)
  /\ opened' = opened + 1
  /\ frames' = Append(Paid(g), Frame(IF IsNative(to, g) THEN "native" ELSE "call", opened + 1,
                                     address, g, IF IsNative(to, g) THEN Code ELSE CodeOf(accounts, to)))
  /\ UNCHANGED <<accounts, tx, failed, blockVars>>

\* There is no account: nothing runs.
CallNothing ==
  /\ frames' = [Paid(0) EXCEPT ![Len(frames)].traces = Traced(@, "call", <<>>)]
  /\ UNCHANGED stateOf /\ SameTx

Call(to) ==
  /\ Runs({"call", "create"})
  /\ depth < max_depth /\ opened < MaxFrames
  /\ \E g \in 0..(Top.gas - 1) :
       \/ /\ IsNative(to, g) \/ to \in DOMAIN accounts
          /\ \E address \in {to, Top.address} : OpenCall(to, address, g)
       \/ /\ ~IsNative(to, g) /\ to \notin DOMAIN accounts
          /\ CallNothing

\* Externalities::create, once the accounts are counted.
CreateIn(counted) ==
  LET a == contract_address(Top.address, NonceOf(accounts, Top.address))
  IN /\ Runs({"call", "create"})
     /\ depth < max_depth /\ opened < MaxFrames
     /\ saved' = Append(saved, counted)
     /\ accounts' = NewContract(counted, a)
     /\ opened' = opened + 1
     /\ frames' = Append(Paid(Top.gas - 1), Frame("create", opened + 1, a, Top.gas - 1, Code))
     /\ UNCHANGED <<tx, failed, blockVars>>

\* Mutant of Create: the nonce of the creator does not count.
CreateUncounted == CreateIn(accounts)

\* The nonce of the creator counts before the checkpoint.
Create == CreateIn(IncNonce(accounts, Top.address))

-----------------------------------------------------------------------------
(* The end of a frame.                                                     *)

\* Mutant of enact_result: the substate of a frame that failed is kept.
EnactAll(ok, s, f) == accrue(s, f.substate)

\* enact_result of the frame f, on the substate s around it.
enact_result(ok, s, f) == IF ok THEN accrue(s, f.substate) ELSE s

\* Executed.gas_used of finalize, of a transaction of gas g.
gas_used(ok, g, left, s) ==
  LET refunds == RefundGas * (s.clears + Cardinality(s.suicides))
  IN IF ok THEN g - (left + min(refunds, (g - left) \div 2)) ELSE g

\* finalize, and what apply and apply_transaction do after it.  result is "ok", an
\* exception, or "Internal", for which there is no receipt.
Finalize(t, result, left, s, m, ts) ==
  LET used == gas_used(result = "ok", t.gas, left, s)
      receipt == [gas_used |-> current_gas_used + used,
                  logs |-> IF result = "ok" THEN s.logs ELSE <<>>,
                  error |-> result, nonce |-> t.nonce]
  IN /\ accounts' = [a \in DOMAIN m \ s.suicides |-> m[a]]
     /\ tx' = NoTx /\ frames' = <<>>
     /\ applied' = Append(applied, t)
     /\ \/ /\ result = "Internal"
           /\ receipts' = Append(receipts, NoReceipt)
           /\ UNCHANGED <<traces, current_gas_used, account_gas>>
        \/ /\ result # "Internal"
           /\ receipts' = Append(receipts, receipt)
           /\ traces' = Append(traces, ts)
           /\ current_gas_used' = receipt.gas_used
           /\ account_gas' = [account_gas EXCEPT ![t.sender] = IF check_quota THEN @ - used ELSE @]
     /\ UNCHANGED stage

\* The frame f on top ends with result, left gas, and the state m if it is kept.
\* Its caller gets the gas back if it ended well, and knows it as created if it was
\* a creation.  What a native contract does is not traced.
EndFrame(f, result, left, m) ==
  LET n == Len(frames)
      kept == result \in {"ok", "Internal"}
      state == IF kept THEN m ELSE saved[n]
      WithTrace(ts) == IF f.kind = "native" THEN ts ELSE Traced(ts, f.kind, f.traces)
      caller == frames[n - 1]
      enacted == enact_result(kept, caller.substate, f)
  IN /\ saved' = SubSeq(saved, 1, n - 1)
     /\ failed' = IF kept THEN failed ELSE failed \cup f.id..opened
     /\ UNCHANGED opened
     /\ \/ /\ n = 1
           /\ Finalize(tx, result, left, enact_result(kept, EmptySubstate, f), state, WithTrace(<<>>))
        \/ /\ n > 1
           /\ accounts' = state
           /\ frames' = Append(SubSeq(frames, 1, n - 2),
                [caller EXCEPT !.gas = IF result = "ok" THEN @ + left ELSE @,
                               !.traces = WithTrace(@),
                               !.substate = IF result = "ok" /\ f.kind = "create"
                                            THEN [enacted EXCEPT !.created = Append(@, f.address)]
                                            ELSE enacted])
           /\ UNCHANGED <<tx, blockVars>>

\* STOP, the end of the code, or RETURN of a call.
Stop ==
  /\ frames # <<>>
  /\ EndFrame(Top, "ok", Top.gas, accounts)

\* RETURN of a creation gives the code, if there is the gas for it.
ReturnCode ==
  /\ frames # <<>> /\ Top.kind = "create"
  /\ \/ /\ CodeCost > Top.gas
        /\ EndFrame(Top, "ok", Top.gas, accounts)
     \/ /\ CodeCost <= Top.gas
        /\ EndFrame(Top, "ok", Top.gas - CodeCost, InitCode(accounts, Top.address, Code))

Suicide ==
  /\ Runs({"call", "create"})
  /\ EndFrame([Top EXCEPT !.substate.suicides = @ \cup {Top.address},
                          !.traces = Append(@, Trace("suicide", 0))],
              "ok", Top.gas - 1, accounts)

\* OutOfGas, BadJumpDestination, BadInstruction, StackUnderflow, OutOfStack.
Exception ==
  /\ frames # <<>> /\ Top.code # NoCode
  /\ EndFrame(Top, "exception", 0, accounts)

\* An error of the database, or one that a native contract answers with.
Internal ==
  /\ frames # <<>> /\ Top.code # NoCode
  /\ EndFrame(Top, "Internal", 0, accounts)

-----------------------------------------------------------------------------
(* The transactions of the block.                                          *)

\* Mutant of Refusal: the gas of the block is not looked at.
RefusalNoBlockLimit(t) ==
  IF t.sender = ZeroSender THEN "ok"
  ELSE IF check_permission /\ t.action = "create" /\ t.sender \notin creators THEN "NoContractPermission"
  ELSE IF check_permission /\ t.sender \notin senders \cup creators THEN "NoTransactionPermission"
  ELSE IF t.action # "store" /\ t.gas < BaseGas THEN "NotEnoughBaseGas"
  ELSE IF check_quota /\ t.gas > account_gas[t.sender] THEN "AccountGasLimitReached"
  ELSE "ok"

\* Why transact_with_tracer refuses t.
Refusal(t) ==
  IF t.sender = ZeroSender THEN "ok"
  ELSE IF check_permission /\ t.action = "create" /\ t.sender \notin creators THEN "NoContractPermission"
  ELSE IF check_permission /\ t.sender \notin senders \cup creators THEN "NoTransactionPermission"
  ELSE IF t.action # "store" /\ t.gas < BaseGas THEN "NotEnoughBaseGas"
  ELSE IF check_quota /\ current_gas_used + t.gas > GasLimit THEN "BlockGasLimitReached"
  ELSE IF check_quota /\ t.gas > account_gas[t.sender] THEN "AccountGasLimitReached"
  ELSE "ok"

\* A refused transaction has counted for the nonce.
Refuse(t, counted) ==
  /\ accounts' = counted
  /\ applied' = Append(applied, t)
  /\ receipts' = Append(receipts, [gas_used |-> 0, logs |-> <<>>, error |-> Refusal(t), nonce |-> 0])
  /\ UNCHANGED <<saved, txVars, traces, current_gas_used, account_gas, stage>>

\* The outermost frame.
Enter(t, kind, address, code, before, m) ==
  /\ saved' = <<before>> /\ accounts' = m
  /\ tx' = t /\ opened' = opened + 1
  /\ frames' = <<Frame(kind, opened + 1, address, t.gas - BaseGas, code)>>
  /\ UNCHANGED <<failed, blockVars>>

\* apply_transaction: transact_with_tracer up to the first step of the code.
apply_transaction(t0) ==
  LET nonce == NonceOf(accounts, t0.sender)
      t == [t0 EXCEPT !.nonce = nonce]
      counted == IncNonce(accounts, t.sender)
      new == contract_address(t.sender, nonce)
      gas == t.gas - BaseGas
  IN /\ stage = "open" /\ tx = NoTx /\ Len(applied) < MaxTxs /\ opened < MaxFrames
     /\ \/ /\ Refusal(t) # "ok"
           /\ Refuse(t, counted)
        \/ /\ Refusal(t) = "ok" /\ t.action = "store"
           /\ Finalize(t, "ok", t.gas, EmptySubstate, counted, <<>>)
           /\ UNCHANGED <<saved, opened, failed>>
        \/ /\ Refusal(t) = "ok" /\ t.action = "create"
           /\ Enter(t, "create", new, Code, counted, NewContract(counted, new))
        \/ /\ Refusal(t) = "ok" /\ t.action = "call" /\ IsNative(t.to, gas)
           /\ Enter(t, "native", t.to, Code, counted, counted)
        \/ /\ Refusal(t) = "ok" /\ t.action = "call" /\ ~IsNative(t.to, gas)
           /\ t.to \in DOMAIN counted
           /\ Enter(t, "call", t.to, CodeOf(counted, t.to), counted, counted)
        \/ /\ Refusal(t) = "ok" /\ t.action = "call" /\ ~IsNative(t.to, gas)
           /\ t.to \notin DOMAIN counted
           /\ Finalize(t, "ok", gas, EmptySubstate, counted, Traced(<<>>, "call", <<>>))
           /\ UNCHANGED <<saved, opened, failed>>

\* The executor was told to stop with this block: it is looked at now and then.
Interrupt ==
  /\ stage = "open" /\ tx = NoTx /\ Len(applied) % CheckEvery = 0
  /\ stage' = "interrupted"
  /\ UNCHANGED <<stateOf, txVars, applied, receipts, traces, current_gas_used, account_gas>>

\* The end of apply_transactions and into_closed_block: State implements commit.
Close ==
  /\ stage = "open" /\ tx = NoTx
  /\ stage' = "closed"
  /\ UNCHANGED <<stateOf, txVars, applied, receipts, traces, current_gas_used, account_gas>>

ExecInit ==
  /\ accounts = Genesis /\ saved = <<>>
  /\ frames = <<>> /\ tx = NoTx /\ opened = 0 /\ failed = {}
  /\ applied = <<>> /\ receipts = <<>> /\ traces = <<>>
  /\ current_gas_used = 0
  /\ account_gas = [s \in {t.sender : t \in Txs} |-> AccountGasLimit]
  /\ stage = "open"

ExecNext ==
  \/ \E t \in Txs : apply_transaction(t)
  \/ SLoad \/ Log \/ Create \/ Stop \/ ReturnCode \/ Suicide \/ Exception \/ Internal
  \/ \E k \in Keys : SStore(k)
  \/ \E to \in DOMAIN accounts \cup Natives \cup {t.to : t \in Txs} : Call(to)
  \/ Interrupt \/ Close

-----------------------------------------------------------------------------
(* Properties.                                                             *)

\* Nothing is left of a call or creation that an exception ended, nor of those made
\* in it that had ended well (checkpoint, enact_result and accrue): no value it
\* wrote, no log, no contract it made known, whatever runs or ran around it.
FailedLeavesNothing ==
  LET substates == {frames[i].substate : i \in DOMAIN frames}
  IN /\ \A a \in DOMAIN accounts, k \in Keys : accounts[a].storage[k] \notin failed
     /\ \A s \in substates :
          /\ \A i \in DOMAIN s.logs : s.logs[i].id \notin failed
          /\ ToSet(s.created) \cup s.suicides \subseteq DOMAIN accounts
     /\ \A r \in ToSet(receipts) : \A i \in DOMAIN r.logs : r.logs[i].id \notin failed

\* The gas the frames have is within what the transaction was given, what the
\* executed transactions used is, when quotas are checked, within the limit of the
\* block and of their senders (env_info, account_gas), and none counts down the gas
\* used before it.
GasWithinLimits ==
  LET executed == {i \in DOMAIN receipts : receipts[i].error \in {"ok", "exception"}}
  IN /\ FoldFunctionOnSet(+, 0, [i \in DOMAIN frames |-> frames[i].gas], DOMAIN frames)
          <= IF tx = NoTx THEN 0 ELSE tx.gas - BaseGas
     /\ check_quota => current_gas_used <= GasLimit
     /\ \A s \in DOMAIN account_gas : account_gas[s] \in 0..AccountGasLimit
     /\ \A i, j \in executed : i <= j => receipts[i].gas_used <= receipts[j].gas_used
     /\ \A i \in executed : receipts[i].gas_used <= current_gas_used

\* An address that a contract is made at has no account (contract_address, and
\* inc_nonce before the checkpoint of a creation): no account is overwritten.
CreateIsFresh ==
  [][\A i \in DOMAIN frames' :
       frames'[i].kind = "create" /\ frames'[i].id > opened => frames'[i].address \notin DOMAIN accounts]_execVars

\* The trace addresses of a transaction are the paths of a tree, written in
\* preorder with the children of a node numbered from 0, and each trace tells the
\* number of its children (ExecutiveTracer): a filter or a client can rebuild it.
TraceTree ==
  \A ts \in ToSet(traces) :
    /\ ts # <<>> => ts[1].address = <<>>
    /\ \A i \in 2..Len(ts) :
         LET a == ts[i].address
             up == SubSeq(a, 1, Len(a) - 1)
         IN /\ a # <<>>
            /\ IsPrefix(up, ts[i - 1].address)
            /\ IF Last(a) = 0 THEN up = ts[i - 1].address
               ELSE IsPrefix(Append(up, Last(a) - 1), ts[i - 1].address)
    /\ \A i \in DOMAIN ts :
         ts[i].subtraces = Cardinality({j \in DOMAIN ts : /\ ts[j].address # <<>>
                                                         /\ Front(ts[j].address) = ts[i].address})

=============================================================================
