-------------------------------- MODULE State --------------------------------
(***************************************************************************)
(* The account state of the executor as the code keeps it: the trie of the *)
(* last block, a cache of entries read from it or written, and, for each   *)
(* open checkpoint, the entries that its changes replaced.  A storage key  *)
(* is read from the changes of its account, then from what was read of the *)
(* trie before, then from the trie.                                        *)
(*                                                                         *)
(* Reads of the trie do not fail, and the cache of storage keys, limited   *)
(* to STORAGE_CACHE_ITEMS, does not forget.  Executive is the caller:      *)
(* new_contract comes at an address that has no account, kill_account when *)
(* no checkpoint is open, commit at the end of a block.                    *)
(***************************************************************************)
EXTENDS Accounts, Integers, Sequences, FiniteSets

CONSTANTS
  Addresses, Values, Codes,
  MaxNonce,        \* bound on nonces
  MaxCheckpoints   \* bound on open checkpoints

VARIABLES
  trie,         \* address -> account, as of the last commit
  codes,        \* the codes in the database, each under its address
  cache,        \* address -> entry
  checkpoints,  \* of each open checkpoint, address -> entry that was replaced
  call          \* the last call, as in StateSpec

stateVars == <<trie, codes, cache, checkpoints, call>>

None == -1
NoAccount == <<>>
NoneEntry == <<>>
NoItems == [x \in {} |-> 0]

-----------------------------------------------------------------------------
(* Account.                                                                *)

Account(nonce, root, code, size) ==
  [nonce |-> nonce, storage_root |-> root, storage_cache |-> NoItems,
   storage_changes |-> NoItems, code_hash |-> code, code_size |-> size,
   code_cache |-> NoCode, code_filth |-> FALSE]

from_rlp(basic) == Account(basic.nonce, basic.storage, basic.code, None)
new_basic == Account(0, Zeros, NoCode, 0)
new_contract_account == Account(0, Zeros, NoCode, None)

SizeOf(code) == IF code = NoCode THEN 0 ELSE 1

set_code(acc, code) ==
  [acc EXCEPT !.code_hash = code, !.code_cache = code, !.code_size = SizeOf(code),
              !.code_filth = TRUE]

is_cached(acc) == acc.code_cache # NoCode \/ acc.code_hash = NoCode

\* AccountDB keeps what belongs to an account under keys of its own: the hash of the
\* address is mixed into the key, so the code of one account is not that of another
\* even where the two are equal.  Get finds what contains says is there.
combine_key(a, key) == <<a, key>>
AccountDB_contains(a, key) == combine_key(a, key) \in codes

\* emplace, in the databases of the accounts of `written`, of a code each.
AccountDBMut_emplace(db, written) == db \cup {combine_key(a, written[a]) : a \in DOMAIN written}

\* The code of an account that has one comes from the database.
cache_code(a, acc) ==
  IF ~is_cached(acc) /\ AccountDB_contains(a, acc.code_hash)
  THEN [acc EXCEPT !.code_size = SizeOf(acc.code_hash), !.code_cache = acc.code_hash]
  ELSE acc

storage_at_key(acc, k) ==
  IF k \in DOMAIN acc.storage_changes THEN acc.storage_changes[k]
  ELSE IF k \in DOMAIN acc.storage_cache THEN acc.storage_cache[k]
  ELSE acc.storage_root[k]

\* storage_at keeps what it read of the trie.
note_key(acc, k) ==
  IF k \in DOMAIN acc.storage_changes \cup DOMAIN acc.storage_cache THEN acc
  ELSE [acc EXCEPT !.storage_cache = With(@, k, acc.storage_root[k])]

Overlay(new, old) ==
  [k \in DOMAIN new \cup DOMAIN old |-> IF k \in DOMAIN new THEN new[k] ELSE old[k]]

commit_storage(acc) ==
  [acc EXCEPT !.storage_root = Overlay(acc.storage_changes, @),
              !.storage_cache = Overlay(acc.storage_changes, @),
              !.storage_changes = NoItems]

commit_code(acc) ==
  IF acc.code_filth
  THEN [acc EXCEPT !.code_size = SizeOf(acc.code_cache), !.code_filth = FALSE]
  ELSE acc

rlp(acc) == [nonce |-> acc.nonce, storage |-> acc.storage_root, code |-> acc.code_hash]

clone_account(acc) == [acc EXCEPT !.storage_cache = NoItems]

\* Mutant of overwrite_account: the changes of the account stay.
OverwriteKeepsChanges(ours, other) ==
  [other EXCEPT !.storage_cache = Overlay(@, ours.storage_cache),
                !.storage_changes = Overlay(@, ours.storage_changes)]

overwrite_account(ours, other) ==
  [other EXCEPT !.storage_cache = Overlay(@, ours.storage_cache)]

-----------------------------------------------------------------------------
(* AccountEntry.                                                           *)

new_dirty(acc) == [account |-> acc, state |-> "Dirty"]
new_clean(acc) == [account |-> acc, state |-> "CleanFresh"]
is_dirty(e) == e.state = "Dirty"

clone_dirty(e) ==
  IF e.account = NoAccount THEN e ELSE [e EXCEPT !.account = clone_account(@)]

\* An entry without an account stays so.
overwrite_with(e, other) ==
  [account |-> IF other.account = NoAccount \/ e.account = NoAccount THEN NoAccount
               ELSE overwrite_account(e.account, other.account),
   state |-> other.state]

-----------------------------------------------------------------------------
(* The cache and the checkpoints.                                          *)

from_trie(a) == IF a \in DOMAIN trie THEN from_rlp(trie[a]) ELSE NoAccount

\* The cache once a is in it.
Cached(a) == IF a \in DOMAIN cache THEN cache ELSE With(cache, a, new_clean(from_trie(a)))

CachedKey(a, k) ==
  IF Cached(a)[a].account = NoAccount THEN Cached(a)
  ELSE [Cached(a) EXCEPT ![a].account = note_key(@, k)]

CachedCode(a) ==
  IF Cached(a)[a].account = NoAccount THEN Cached(a)
  ELSE [Cached(a) EXCEPT ![a].account = cache_code(a, @)]

\* The last checkpoint gets the entry a had, unless it holds an older one.
Noted(a, e) ==
  LET n == Len(checkpoints)
  IN IF n > 0 /\ a \notin DOMAIN checkpoints[n]
     THEN [checkpoints EXCEPT ![n] = With(@, a, e)]
     ELSE checkpoints

insert_cache(a, e) ==
  /\ cache' = With(cache, a, e)
  /\ checkpoints' = Noted(a, IF a \in DOMAIN cache THEN cache[a] ELSE NoneEntry)

note_cache(c, a) == Noted(a, clone_dirty(c[a]))

\* The account at a in the cache c, or default.
AccountOr(c, a, default) == IF c[a].account = NoAccount THEN default ELSE c[a].account

\* The account at a in the cache c is noted, and then changed through the reference.
require_or_from(c, a, changed) ==
  /\ cache' = [c EXCEPT ![a] = new_dirty(changed)]
  /\ checkpoints' = note_cache(c, a)

-----------------------------------------------------------------------------
(* The operations.                                                         *)

StateInit ==
  /\ trie = NoAccounts /\ codes = {}
  /\ cache = NoItems /\ checkpoints = <<>> /\ call = <<>>

checkpoint ==
  /\ Len(checkpoints) < MaxCheckpoints
  /\ checkpoints' = Append(checkpoints, NoItems)
  /\ call' = <<"checkpoint">>
  /\ UNCHANGED <<trie, codes, cache>>

\* Mutant of Merged: the later entry of an account takes the place of the earlier.
MergedLast(prev, last) == Overlay(last, prev)

Merged(prev, last) == Overlay(prev, last)

discard_checkpoint ==
  LET n == Len(checkpoints)
  IN /\ n > 0
     /\ checkpoints' =
          IF n = 1 THEN <<>>
          ELSE Append(SubSeq(checkpoints, 1, n - 2), Merged(checkpoints[n - 1], checkpoints[n]))
     /\ call' = <<"discard_checkpoint">>
     /\ UNCHANGED <<trie, codes, cache>>

\* What becomes of the cache entry of a, in the checkpoint as e.
Reverted(a, e) ==
  IF e # NoneEntry
  THEN IF a \in DOMAIN cache THEN overwrite_with(cache[a], e) ELSE e
  ELSE IF a \in DOMAIN cache /\ ~is_dirty(cache[a]) THEN cache[a] ELSE NoneEntry

revert_to_checkpoint ==
  LET n == Len(checkpoints)
      back == checkpoints[n]
      next == [a \in DOMAIN cache \cup DOMAIN back |->
                 IF a \in DOMAIN back THEN Reverted(a, back[a]) ELSE cache[a]]
  IN /\ n > 0
     /\ cache' = [a \in {b \in DOMAIN next : next[b] # NoneEntry} |-> next[a]]
     /\ checkpoints' = SubSeq(checkpoints, 1, n - 1)
     /\ call' = <<"revert_to_checkpoint">>
     /\ UNCHANGED <<trie, codes>>

Exists(a) == Cached(a)[a].account # NoAccount

inc_nonce(a) ==
  /\ Exists(a) => Cached(a)[a].account.nonce < MaxNonce
  /\ require_or_from(Cached(a), a, [AccountOr(Cached(a), a, new_basic) EXCEPT !.nonce = @ + 1])
  /\ call' = <<"inc_nonce", a>>
  /\ UNCHANGED <<trie, codes>>

set_storage(a, k, v) ==
  LET c == CachedKey(a, k)
      old == IF c[a].account = NoAccount THEN 0 ELSE storage_at_key(c[a].account, k)
  IN /\ IF old = v
        THEN cache' = c /\ UNCHANGED checkpoints
        ELSE require_or_from(c, a, [AccountOr(c, a, new_basic) EXCEPT !.storage_changes = With(@, k, v)])
     /\ call' = <<"set_storage", a, k, v>>
     /\ UNCHANGED <<trie, codes>>

init_code(a, code) ==
  /\ LET acc == AccountOr(Cached(a), a, new_contract_account)
     IN require_or_from(Cached(a), a, set_code(cache_code(a, acc), code))
  /\ call' = <<"init_code", a, code>>
  /\ UNCHANGED <<trie, codes>>

new_contract(a) ==
  /\ ~Exists(a)
  /\ insert_cache(a, new_dirty(new_contract_account))
  /\ call' = <<"new_contract", a>>
  /\ UNCHANGED <<trie, codes>>

kill_account(a) ==
  /\ checkpoints = <<>>
  /\ insert_cache(a, new_dirty(NoAccount))
  /\ call' = <<"kill_account", a>>
  /\ UNCHANGED <<trie, codes>>

\* Account::code is None when the code is not at hand, and so is the size.
CodeRead(a, acc) ==
  LET c == cache_code(a, acc)
  IN IF ~is_cached(c) \/ SizeOf(c.code_cache) # (IF c.code_size = None THEN 0 ELSE c.code_size)
     THEN Absent ELSE c.code_cache

\* The reads: each loads what it asks for and returns it.  exists, nonce and code_hash
\* ask for the account, code and code_size for its code too.
Load(c) ==
  /\ cache' = c
  /\ UNCHANGED <<trie, codes, checkpoints>>

nonce(a) ==
  LET acc == Cached(a)[a].account
  IN /\ Load(Cached(a))
     /\ call' = <<"nonce", a, IF acc = NoAccount THEN 0 ELSE acc.nonce>>

read_code(a) ==
  LET acc == CachedCode(a)[a].account
  IN /\ Load(CachedCode(a))
     /\ call' = <<"code", a, IF acc = NoAccount THEN Absent ELSE CodeRead(a, acc)>>

storage_at(a, k) ==
  LET acc == CachedKey(a, k)[a].account
  IN /\ Load(CachedKey(a, k))
     /\ call' = <<"storage_at", a, k, IF acc = NoAccount THEN 0 ELSE storage_at_key(acc, k)>>

\* The end of a block: the dirty entries go into the trie, and the next block opens
\* the state on it (from_existing).
commit ==
  LET dirty == {a \in DOMAIN cache : is_dirty(cache[a])}
      gone == {a \in dirty : cache[a].account = NoAccount}
      done == [a \in dirty \ gone |-> commit_code(commit_storage(cache[a].account))]
      coded == {a \in dirty \ gone : cache[a].account.code_filth /\ done[a].code_cache # NoCode}
  IN /\ checkpoints = <<>>
     /\ codes' = AccountDBMut_emplace(codes, [a \in coded |-> done[a].code_cache])
     /\ trie' = [a \in (DOMAIN trie \cup dirty) \ gone |->
                   IF a \in dirty THEN rlp(done[a]) ELSE trie[a]]
     /\ cache' = NoItems
     /\ call' = <<"commit">>
     /\ UNCHANGED checkpoints

StateNext ==
  \/ checkpoint \/ discard_checkpoint \/ revert_to_checkpoint
  \/ commit
  \/ \E a \in Addresses :
       \/ inc_nonce(a) \/ new_contract(a) \/ kill_account(a)
       \/ nonce(a) \/ read_code(a)
       \/ \E k \in Keys : storage_at(a, k) \/ \E v \in Values : set_storage(a, k, v)
       \/ \E c \in Codes : init_code(a, c)

StateSpecification == StateInit /\ [][StateNext]_stateVars

-----------------------------------------------------------------------------
(* The map of accounts this stands for: what the reads return.             *)

AsAccount(a, acc) ==
  [nonce |-> acc.nonce, code |-> CodeRead(a, acc),
   storage |-> [k \in Keys |-> storage_at_key(acc, k)]]

Now(a) == IF a \in DOMAIN cache THEN cache[a].account ELSE from_trie(a)

\* The account at checkpoint i: the first entry replaced since then.
Then(i, a) ==
  LET later == {j \in i..Len(checkpoints) : a \in DOMAIN checkpoints[j]}
      first == CHOOSE j \in later : \A m \in later : j <= m
  IN IF later = {} THEN Now(a)
     ELSE IF checkpoints[first][a] = NoneEntry THEN from_trie(a)
     ELSE checkpoints[first][a].account

AccountsNow == [a \in {b \in Addresses : Now(b) # NoAccount} |-> AsAccount(a, Now(a))]

SavedThen ==
  [i \in 1..Len(checkpoints) |->
     [a \in {b \in Addresses : Then(i, b) # NoAccount} |-> AsAccount(a, Then(i, a))]]

Abstract == INSTANCE StateSpec WITH accounts <- AccountsNow, saved <- SavedThen

\* The caches, and checkpoints that hold only the replaced entries, are not seen:
\* every operation, in every order, makes of the accounts what that operation makes of
\* a plain map of them with whole copies saved at the checkpoints, a read returns what
\* is in that map, and a read, a commit and a new block change nothing.
StateImplements == Abstract!Spec
=============================================================================
