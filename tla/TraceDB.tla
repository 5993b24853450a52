------------------------------- MODULE TraceDB -------------------------------
(***************************************************************************)
(* TraceDB, the database of the traces of executed blocks: import, with    *)
(* the change of branch its requests may bring, the caches of traces and   *)
(* of blooms, and the queries by position and by addresses.                *)
(*                                                                         *)
(* Who uses it is external: it knows the blocks of the chain (extras),     *)
(* imports a block after its parent and writes the batch of an import      *)
(* before it asks anything else, as the tests of TraceDB do.  Tracing is   *)
(* on: import does nothing when it is off.  The groups of blooms of all    *)
(* levels are one group, from block numbers to blooms.  A bloom is the set *)
(* of its bits; different addresses may share bits.                        *)
(***************************************************************************)
EXTENDS CacheManager, SequencesExt

CONSTANTS
  Hashes,       \* the hashes of the blocks there may be, Genesis among them
  Genesis,
  BlockOf,      \* hash -> [number, parent, traces]
  BitsOf,       \* address -> the bits of its bloom
  Filters       \* the filters that are asked, [from, to, from_address, to_address]

VARIABLES
  chain,        \* extras: the hashes of the chain, from Genesis on
  known,        \* the blocks imported
  db_traces,    \* on disk: hash -> encoded traces of the block
  db_blooms,    \* on disk: the group of blooms
  traces,       \* the cache of traces
  blooms,       \* the cache of the group, NoBlooms if it is not there
  cache_usage

traceVars == <<chain, known, db_traces, db_blooms, traces, blooms, cache_usage>>

NoBlooms == [n \in {} |-> {}]

-----------------------------------------------------------------------------
(* Traces.  An action is [type, from, to]: of a call the sender and the    *)
(* contract, of a creation the creator, of a suicide the contract and the  *)
(* heir.  A result is [type, gas_used], with the address of a new contract *)
(* or, in place of the gas, the error of a failed action.                  *)

NoAddress == "none"
TraceErrors == <<"OutOfGas", "BadJumpDestination", "BadInstruction", "StackUnderflow",
                 "OutOfStack", "Internal">>

\* The values of an enumeration are written as their place in it.
Place(list, x) == CHOOSE i \in 0..(Len(list) - 1) : list[i + 1] = x

Call_encode(a) == <<a.from, a.to>>
Call_decode(v) == [type |-> "Call", from |-> v[1], to |-> v[2]]
Call_bloom(a) == BitsOf[a.from] \cup BitsOf[a.to]

Create_encode(a) == <<a.from>>
Create_decode(v) == [type |-> "Create", from |-> v[1], to |-> NoAddress]
Create_bloom(a) == BitsOf[a.from]

Suicide_encode(a) == <<a.from, a.to>>
Suicide_decode(v) == [type |-> "Suicide", from |-> v[1], to |-> v[2]]
Suicide_bloom(a) == BitsOf[a.from] \cup BitsOf[a.to]

Action_encode(a) ==
  CASE a.type = "Call"    -> <<0, Call_encode(a)>>
    [] a.type = "Create"  -> <<1, Create_encode(a)>>
    [] a.type = "Suicide" -> <<2, Suicide_encode(a)>>

Action_decode(v) ==
  CASE v[1] = 0 -> Call_decode(v[2])
    [] v[1] = 1 -> Create_decode(v[2])
    [] v[1] = 2 -> Suicide_decode(v[2])

Action_bloom(a) ==
  CASE a.type = "Call"    -> Call_bloom(a)
    [] a.type = "Create"  -> Create_bloom(a)
    [] a.type = "Suicide" -> Suicide_bloom(a)

CallResult_encode(r) == <<r.gas_used>>
CallResult_decode(v) == [type |-> "Call", gas_used |-> v[1]]

CreateResult_encode(r) == <<r.gas_used, r.address>>
CreateResult_decode(v) == [type |-> "Create", gas_used |-> v[1], address |-> v[2]]
CreateResult_bloom(r) == BitsOf[r.address]

Error_encode(e) == Place(TraceErrors, e)
Error_decode(n) == TraceErrors[n + 1]

Res_encode(r) ==
  CASE r.type = "Call"         -> <<0, CallResult_encode(r)>>
    [] r.type = "Create"       -> <<1, CreateResult_encode(r)>>
    [] r.type = "FailedCall"   -> <<2, Error_encode(r.error)>>
    [] r.type = "FailedCreate" -> <<3, Error_encode(r.error)>>
    [] r.type = "None"         -> <<4>>

Res_decode(v) ==
  CASE v[1] = 0 -> CallResult_decode(v[2])
    [] v[1] = 1 -> CreateResult_decode(v[2])
    [] v[1] = 2 -> [type |-> "FailedCall", error |-> Error_decode(v[2])]
    [] v[1] = 3 -> [type |-> "FailedCreate", error |-> Error_decode(v[2])]
    [] v[1] = 4 -> [type |-> "None"]

Res_bloom(r) == IF r.type = "Create" THEN CreateResult_bloom(r) ELSE {}

FlatTrace_encode(t) ==
  <<Action_encode(t.action), Res_encode(t.result), t.subtraces, t.trace_address>>
FlatTrace_decode(v) ==
  [action |-> Action_decode(v[1]), result |-> Res_decode(v[2]), subtraces |-> v[3],
   trace_address |-> v[4]]
FlatTrace_bloom(t) == Action_bloom(t.action) \cup Res_bloom(t.result)

FlatTransactionTraces_bloom(ts) == UNION {FlatTrace_bloom(ts[i]) : i \in DOMAIN ts}
FlatBlockTraces_bloom(txs) == UNION {FlatTransactionTraces_bloom(txs[i]) : i \in DOMAIN txs}

encode(txs) == [i \in DOMAIN txs |-> [j \in DOMAIN txs[i] |-> FlatTrace_encode(txs[i][j])]]
decode(v) == [i \in DOMAIN v |-> [j \in DOMAIN v[i] |-> FlatTrace_decode(v[i][j])]]

-----------------------------------------------------------------------------
(* Filters.  Several addresses are alternatives, none stands for all.      *)

AddressMatches(list, address) == list = {} \/ address \in list

\* with_blooms: each of bs with each of the addresses.
with_blooms(list, bs) ==
  IF list = {} THEN bs ELSE {b \cup BitsOf[a] : b \in bs, a \in list}

bloom_possibilities(f) == with_blooms(f.to_address, with_blooms(f.from_address, {{}}))

\* Filter::matches: a creation that failed has no address to match.
matches(f, t) ==
  /\ AddressMatches(f.from_address, t.action.from)
  /\ IF t.action.type = "Create"
     THEN t.result.type = "Create" /\ AddressMatches(f.to_address, t.result.address)
     ELSE AddressMatches(f.to_address, t.action.to)

-----------------------------------------------------------------------------
(* The caches over the database.                                           *)

TraceId(h) == <<"Trace", h>>
BloomId == <<"Bloom">>

Cached(ts, bs) == {TraceId(h) : h \in DOMAIN ts} \cup (IF bs = NoBlooms THEN {} ELSE {BloomId})

Put(f, x, y) == [z \in DOMAIN f \cup {x} |-> IF z = x THEN y ELSE f[z]]

\* read_with_cache of the traces of h, known to be on disk or in the cache, and the
\* caches after it.
TracesOf(h) == IF h \in DOMAIN traces THEN traces[h] ELSE decode(db_traces[h])
WithTraces(hs) ==
  [h \in DOMAIN traces \cup (hs \cap DOMAIN db_traces) |-> TracesOf(h)]

blooms_at == IF blooms = NoBlooms THEN db_blooms ELSE blooms

-----------------------------------------------------------------------------
(* import.                                                                 *)

Number(h) == BlockOf[h].number
block_hash(n) == chain[n + 1]
Height == Len(chain) - 1

\* The blocks from the chain to h, h the last.
Branch(h) ==
  CHOOSE s \in SeqOf(known \cup {h}, Number(h)) :
    /\ s # <<>> /\ Last(s) = h
    /\ BlockOf[s[1]].parent \in Range(chain)
    /\ \A i \in DOMAIN s : /\ s[i] \notin Range(chain)
                           /\ i > 1 => BlockOf[s[i]].parent = s[i - 1]

\* What BloomGroupChain::replace makes of the group: the new blooms from `start` on,
\* and nothing in what is left of the replaced range.
replace(group, start, retracted, new) ==
  [n \in DOMAIN group \cup start..(start + Len(new) - 1) |->
     IF n \in start..(start + Len(new) - 1) THEN new[n - start + 1]
     ELSE IF n \in start..(start + retracted - 1) THEN {}
     ELSE group[n]]

\* The request: block h, the blocks enacted with it and the number of those retracted.
\* The rebuilt group goes to the database and out of the cache, the traces go to both.
import(h, enacted, retracted) ==
  LET start == Number(h) + 1 - Len(enacted)
      new == [i \in DOMAIN enacted |->
                FlatBlockTraces_bloom(IF enacted[i] = h THEN BlockOf[h].traces
                                      ELSE TracesOf(enacted[i]))]
      read == WithTraces(Range(enacted) \ {h})
      used == {TraceId(enacted[i]) : i \in DOMAIN enacted} \cup {TraceId(h)}
  IN /\ IF enacted = <<>> THEN UNCHANGED <<db_blooms, blooms>>
        ELSE /\ db_blooms' = replace(blooms_at, start, retracted, new)
             /\ blooms' = NoBlooms
     /\ traces' = Put(read, h, BlockOf[h].traces)
     /\ db_traces' = Put(db_traces, h, encode(BlockOf[h].traces))
     /\ cache_usage' = note_used(cache_usage, IF enacted = <<>> THEN {TraceId(h)}
                                             ELSE used \cup {BloomId})

Importable(h) ==
  h \in Hashes \ known /\ BlockOf[h].parent \in known

\* A block of another branch, which does not become the chain.
ImportBranch(h) ==
  /\ Importable(h)
  /\ import(h, <<>>, 0)
  /\ known' = known \cup {h}
  /\ UNCHANGED chain

\* A block that becomes the head, after the last one or with the change of branch.
ImportCanon(h) ==
  LET enacted == Branch(h)
      start == Number(h) + 1 - Len(enacted)
  IN /\ Importable(h)
     /\ import(h, enacted, Len(chain) - start)
     /\ known' = known \cup {h}
     /\ chain' = SubSeq(chain, 1, start) \o enacted

-----------------------------------------------------------------------------
(* Queries.                                                                *)

Localized(t, n, tx) ==
  [trace |-> t, transaction_number |-> tx, transaction_hash |-> <<block_hash(n), tx>>,
   block_number |-> n, block_hash |-> block_hash(n)]

\* The traces of transaction tx (from 0) of block n, and of all its transactions.
transaction_traces(n, tx) ==
  LET ts == TracesOf(block_hash(n))[tx + 1] IN [j \in DOMAIN ts |-> Localized(ts[j], n, tx)]

block_traces(n) ==
  FlattenSeq([i \in DOMAIN TracesOf(block_hash(n)) |-> transaction_traces(n, i - 1)])

\* The trace at a position of the tree of a transaction.
trace(n, tx, position) ==
  SelectSeq(transaction_traces(n, tx), LAMBDA t : t.trace.trace_address = position)[1]

matching_transaction_traces(f, n, tx) ==
  SelectSeq(transaction_traces(n, tx), LAMBDA t : matches(f, t.trace))

matching_block_traces(f, n) ==
  FlattenSeq([i \in DOMAIN TracesOf(block_hash(n)) |-> matching_transaction_traces(f, n, i - 1)])

\* BloomGroupChain::filter: the numbers in the range, both ends with it, whose bloom has
\* all bits of one of the possibilities, in order.  A number that was never written has an
\* empty bloom in a group that is there.
numbers(f) ==
  LET range == [i \in 1..(f.to - f.from + 1) |-> f.from + i - 1]
      bloom(n) == IF n \in DOMAIN blooms_at THEN blooms_at[n] ELSE {}
  IN SelectSeq(range, LAMBDA n : /\ blooms_at # NoBlooms
                                 /\ \E b \in bloom_possibilities(f) : b \subseteq bloom(n))

filter(f) ==
  LET ns == numbers(f) IN FlattenSeq([i \in DOMAIN ns |-> matching_block_traces(f, ns[i])])

\* A query by the number of a block reads its traces.
QueryBlock(n) ==
  /\ traces' = WithTraces({block_hash(n)})
  /\ cache_usage' = note_used(cache_usage, {TraceId(block_hash(n))})
  /\ UNCHANGED <<chain, known, db_traces, db_blooms, blooms>>

\* A search reads the group of blooms and the traces of the blocks it leads to.
QueryFilter(f) ==
  LET found == {block_hash(n) : n \in Range(numbers(f))}
  IN /\ f.to <= Height
     /\ blooms' = blooms_at
     /\ traces' = WithTraces(found)
     /\ cache_usage' = note_used(cache_usage, {BloomId} \cup {TraceId(h) : h \in found})
     /\ UNCHANGED <<chain, known, db_traces, db_blooms>>

collect_garbage ==
  LET ids == Cached(traces, blooms)
      gone == Dropped(cache_usage, ids)
  IN /\ traces' = [h \in {g \in DOMAIN traces : TraceId(g) \notin gone} |-> traces[h]]
     /\ blooms' = IF BloomId \in gone THEN NoBlooms ELSE blooms
     /\ cache_usage' = Collected(cache_usage, ids)
     /\ UNCHANGED <<chain, known, db_traces, db_blooms>>

\* The database is opened (again): the genesis block has no traces.
new ==
  /\ db_traces' = Put(db_traces, Genesis, encode(<<>>))
  /\ traces' = [h \in {} |-> <<>>] /\ blooms' = NoBlooms
  /\ cache_usage' = NoUsage
  /\ UNCHANGED <<chain, known, db_blooms>>

TraceInit ==
  /\ chain = <<Genesis>> /\ known = {Genesis}
  /\ db_traces = [h \in {Genesis} |-> encode(<<>>)] /\ db_blooms = NoBlooms
  /\ traces = [h \in {} |-> <<>>] /\ blooms = NoBlooms /\ cache_usage = NoUsage

TraceNext ==
  \/ \E h \in Hashes : ImportBranch(h) \/ ImportCanon(h)
  \/ \E n \in 0..Height : QueryBlock(n)
  \/ \E f \in Filters : QueryFilter(f)
  \/ collect_garbage
  \/ new

TraceSpec == TraceInit /\ [][TraceNext]_traceVars

-----------------------------------------------------------------------------
(* Properties.                                                             *)

\* The traces that executing block n of the chain gave, in order.
Happened(n) ==
  LET txs == BlockOf[block_hash(n)].traces
  IN FlattenSeq([i \in DOMAIN txs |-> [j \in DOMAIN txs[i] |-> Localized(txs[i][j], n, i - 1)]])

\* A search gives every trace of the blocks of the chain in its range that matches, in
\* order and no other, whatever was imported, retracted, cached and dropped before
\* (filter, import, collect_garbage).
SearchComplete ==
  \A f \in Filters : f.to <= Height =>
    filter(f) = FlattenSeq([i \in 1..(f.to - f.from + 1) |->
                  SelectSeq(Happened(f.from + i - 1), LAMBDA t : matches(f, t.trace))])

\* The queries by position agree with each other and with what happened: the traces of a
\* block are those of its transactions, and each is found at its place in the tree
\* (block_traces, transaction_traces, trace).
PositionsAgree ==
  \A n \in 0..Height :
    /\ block_traces(n) = Happened(n)
    /\ \A i \in DOMAIN Happened(n) :
         LET t == Happened(n)[i]
         IN trace(n, t.transaction_number, t.trace.trace_address) = t

\* What is cached can be dropped: collect_garbage knows of every entry of the caches.
CachedIsTracked ==
  Cached(traces, blooms) \subseteq UNION {cache_usage[i] : i \in 1..COLLECTION_QUEUE_SIZE}
=============================================================================
