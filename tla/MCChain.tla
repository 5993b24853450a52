------------------------------- MODULE MCChain -------------------------------
(***************************************************************************)
(* Instances for TLC of what a chain service does: it stores and commits   *)
(* blocks (Chain) and answers queries about them (ChainQuery); of the      *)
(* database of traces, which is searched in the same way (TraceDB); and of *)
(* a connection between the network services of two nodes, over which      *)
(* their chain services exchange blocks (PeerLink).  A behaviour is one of *)
(* the part that is chosen at the start, with the others as they were.     *)
(***************************************************************************)
EXTENDS Chain, TraceDB

CONSTANT Parts   \* some of "store", "queries", "traces", "link"

VARIABLES
  part,
  height, blocks, disk_blooms, blocks_blooms, writer, reader, polls,
  next_available_id, collected, restarts,                             \* ChainQuery
  stream, wire, buf, written, sent, channels, stalls, breaks          \* PeerLink

queryVars == <<height, blocks, disk_blooms, blocks_blooms, writer, reader, polls,
               next_available_id, collected, restarts>>
linkVars == <<stream, wire, buf, written, sent, channels, stalls, breaks>>

-----------------------------------------------------------------------------
\* Blocks without transactions, with one log, and with logs of several transactions.
Receipt(used, logs) == [gas_used |-> used, logs |-> logs]

Q == INSTANCE ChainQuery
  WITH Blocks <- {<<>>, <<Receipt(1, <<"t">>)>>,
                  <<Receipt(1, <<"t", "u">>), Receipt(2, <<>>), Receipt(4, <<"u", "t", "t">>)>>},
       MaxHeight <- 3, MaxPolls <- 1, MaxCollected <- 1, MaxCrashes <- 1

\* Messages for every peer, for all but another peer, for another peer only and for
\* this one.
Message(key, operate, origin) == [key |-> key, operate |-> operate, origin |-> origin]

L == INSTANCE PeerLink
  WITH id_card <- 1, MaxStalls <- 1, MaxBreaks <- 1,
       Messages <- <<Message("consensus.msg", "BROADCAST", 0), Message("auth.tx", "SUBTRACT", 2),
                     Message("net.sync_resp", "SINGLE", 2), Message("consensus.msg", "BROADCAST", 0),
                     Message("net.sync_req", "SINGLE", 1)>>

\* Two branches of two blocks each, with calls, creations and a suicide, some of which
\* failed.  The bits of z are those of x and y together.
FlatTrace(type, from, to, result, subtraces, address) ==
  [action |-> [type |-> type, from |-> from, to |-> to], result |-> result,
   subtraces |-> subtraces, trace_address |-> address]

Created == [type |-> "Create", gas_used |-> 1, address |-> "z"]

TraceHashes == {"genesis", "a1", "a2", "b1", "b2"}
TraceBlocks == [h \in TraceHashes |->
  CASE h = "genesis" -> [number |-> 0, parent |-> "none", traces |-> <<>>]
    [] h = "a1" -> [number |-> 1, parent |-> "genesis", traces |->
         <<<<FlatTrace("Call", "x", "x", [type |-> "Call", gas_used |-> 2], 1, <<>>),
             FlatTrace("Create", "x", NoAddress, Created, 0, <<0>>)>>>>]
    [] h = "a2" -> [number |-> 2, parent |-> "a1", traces |->
         <<<<FlatTrace("Create", "x", NoAddress, [type |-> "FailedCreate", error |-> "Internal"], 0, <<>>)>>,
           <<FlatTrace("Call", "x", "z", [type |-> "Call", gas_used |-> 2], 1, <<>>),
             FlatTrace("Suicide", "z", "y", [type |-> "None"], 0, <<0>>)>>>>]
    [] h = "b1" -> [number |-> 1, parent |-> "genesis", traces |-> <<>>]
    [] h = "b2" -> [number |-> 2, parent |-> "b1", traces |->
         <<<<FlatTrace("Call", "y", "x", [type |-> "FailedCall", error |-> "OutOfStack"], 0, <<>>)>>>>]]
TraceBits == [a \in {"x", "y", "z"} |->
  CASE a = "x" -> {1} [] a = "y" -> {2} [] a = "z" -> {1, 2}]
TraceFilters ==
  {[from |-> 0, to |-> 2, from_address |-> {}, to_address |-> {"z"}],
   [from |-> 1, to |-> 2, from_address |-> {"x", "z"}, to_address |-> {"y"}],
   [from |-> 1, to |-> 1, from_address |-> {}, to_address |-> {}]}

-----------------------------------------------------------------------------
ChainInit == part \in Parts /\ Init /\ Q!QueryInit /\ L!LinkInit /\ TraceInit

Store == part = "store" /\ Next /\ UNCHANGED <<part, queryVars, linkVars, traceVars>>
Queries == part = "queries" /\ Q!QueryNext /\ UNCHANGED <<part, vars, linkVars, traceVars>>
Link == part = "link" /\ L!LinkNext /\ UNCHANGED <<part, vars, queryVars, traceVars>>
Traces == part = "traces" /\ TraceNext /\ UNCHANGED <<part, vars, queryVars, linkVars>>

ChainNext == Store \/ Queries \/ Traces \/ Link

ChainSpec == ChainInit /\ [][ChainNext]_<<part, vars, queryVars, linkVars, traceVars>>

\* The fairness of Chain!FairSpec, and that of PeerLink: the thread of connect starts a
\* round every fifteen seconds, and the peer's server reads what has arrived.
ChainFairSpec ==
  /\ ChainSpec
  /\ WF_vars(part = "store" /\ Forward) /\ WF_vars(part = "store" /\ Writer)
  /\ WF_vars(part = "store" /\ (Execute \/ write_batch))
  /\ SF_vars(part = "store" /\ Resend) /\ SF_vars(part = "store" /\ ResendResult)
  /\ WF_linkVars(part = "link" /\ L!connect) /\ WF_linkVars(part = "link" /\ L!Read)

-----------------------------------------------------------------------------
(* Properties of the parts; those of the store are in Chain.               *)

\* A client that polls a filter misses no block (filter_changes, with the height read
\* while the writer commits), and a search for traces finds all of the chain that match,
\* after any change of branch (TraceDB::filter).
FiltersMissNothing ==
  /\ part = "queries" => Q!FiltersMissNothing
  /\ part = "traces" => SearchComplete

\* Two queries give a log the same place in its block: the search for logs (logs) and
\* the receipts of the transactions (localized_receipt).  The queries for traces by
\* position agree with what was imported, and what they cache can be dropped.
QueriesAgree ==
  /\ part = "queries" => Q!QueriesAgree
  /\ part = "traces" => PositionsAgree /\ CachedIsTracked

\* A connection that broke comes back, and on one that stays every message written
\* ends at the channel its key names, whole, once and in order (broadcast, connect,
\* CitaCodec::decode, NetWork::receiver).
Delivered ==
  <>[](part # "link" \/ (stream = "Up" /\ \A o \in L!Outputs : channels[o] = L!Routed(sent, o)))
=============================================================================
