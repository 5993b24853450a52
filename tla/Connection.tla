----------------------------- MODULE Connection -----------------------------
(***************************************************************************)
(* The peers of the network service.  One thread follows the configuration *)
(* file and changes peers_pair entry by entry, locking it for each; one    *)
(* keeps the connections, with the table locked for a whole round.  The    *)
(* threads that write messages leave the table as it is (see PeerLink).    *)
(***************************************************************************)
EXTENDS Integers, Sequences, SequencesExt

CONSTANTS
  Configs,     \* the peers the file may list, as sequences of [id_card, addr]
  MaxChanges   \* bound on changes of the file

VARIABLES
  peers_pair,   \* sequence of [id_card, addr, up]; up: there is a connection
  config,       \* what the file lists
  notified,     \* a change of the file is to be looked at
  watcher,      \* pc, the entries of the file to go through, and the addresses noted
  changes

connectionVars == <<peers_pair, config, notified, watcher, changes>>

Peer(c) == [id_card |-> c.id_card, addr |-> c.addr, up |-> FALSE]
Addresses(seq) == [i \in 1..Len(seq) |-> seq[i].addr]
AddressSet(seq) == {seq[i].addr : i \in 1..Len(seq)}

WatcherIdle == [pc |-> "recv", left |-> <<>>, config_addr |-> <<>>, peers_addr |-> <<>>]

\* Connection::new
ConnectionInit ==
  /\ config \in Configs
  /\ peers_pair = [i \in 1..Len(config) |-> Peer(config[i])]
  /\ notified = FALSE /\ watcher = WatcherIdle /\ changes = 0

\* The file is written.
ChangeFile(c) ==
  /\ changes < MaxChanges /\ c # config
  /\ config' = c /\ notified' = TRUE /\ changes' = changes + 1
  /\ UNCHANGED <<peers_pair, watcher>>

\* A round of connect: a heartbeat to each connection there is, a new one where
\* there is none or the heartbeat fails; it may not come about.
connect ==
  /\ \E up \in [1..Len(peers_pair) -> BOOLEAN] :
       peers_pair' = [i \in 1..Len(peers_pair) |-> [peers_pair[i] EXCEPT !.up = up[i]]]
  /\ UNCHANGED <<config, notified, watcher, changes>>

\* manage_connect and the start of update: the file is read, and the addresses in
\* the table are noted.  A file without peers clears the table.
update ==
  /\ watcher.pc = "recv" /\ notified
  /\ notified' = FALSE
  /\ IF config = <<>>
     THEN peers_pair' = <<>> /\ UNCHANGED watcher
     ELSE /\ watcher' = [pc |-> "add", left |-> config, config_addr |-> Addresses(config),
                         peers_addr |-> Addresses(peers_pair)]
          /\ UNCHANGED peers_pair
  /\ UNCHANGED <<config, changes>>

\* Mutant of AddPeer: a new peer goes to the front of the table.
AddFront ==
  /\ watcher.pc = "add" /\ watcher.left # <<>>
  /\ LET c == Head(watcher.left)
     IN  IF Contains(watcher.peers_addr, c.addr)
         THEN watcher' = [watcher EXCEPT !.left = Tail(@)] /\ UNCHANGED peers_pair
         ELSE /\ watcher' = [watcher EXCEPT !.left = Tail(@), !.peers_addr = Append(@, c.addr)]
              /\ peers_pair' = <<Peer(c)>> \o peers_pair
  /\ UNCHANGED <<config, notified, changes>>

\* The next entry of the file: a peer whose address is not in the table is added.
AddPeer ==
  /\ watcher.pc = "add" /\ watcher.left # <<>>
  /\ LET c == Head(watcher.left)
     IN  IF Contains(watcher.peers_addr, c.addr)
         THEN watcher' = [watcher EXCEPT !.left = Tail(@)] /\ UNCHANGED peers_pair
         ELSE /\ watcher' = [watcher EXCEPT !.left = Tail(@), !.peers_addr = Append(@, c.addr)]
              /\ peers_pair' = Append(peers_pair, Peer(c))
  /\ UNCHANGED <<config, notified, changes>>

\* The first address the file does not list leaves the notes, and the entry at
\* the same place leaves the table.
RemovePeer ==
  /\ watcher.pc = "add" /\ watcher.left = <<>>
  /\ LET gone == {i \in 1..Len(watcher.peers_addr) :
                    ~Contains(watcher.config_addr, watcher.peers_addr[i])}
     IN  IF gone = {}
         THEN watcher' = WatcherIdle /\ UNCHANGED peers_pair
         ELSE LET index == CHOOSE i \in gone : \A j \in gone : i <= j
              IN  /\ watcher' = [watcher EXCEPT !.peers_addr = RemoveAt(@, index)]
                  /\ peers_pair' = RemoveAt(peers_pair, index)
  /\ UNCHANGED <<config, notified, changes>>

ConnectionNext ==
  (\E c \in Configs : ChangeFile(c)) \/ connect \/ update \/ AddPeer \/ RemovePeer

-----------------------------------------------------------------------------
(* Properties.                                                             *)

\* Once every change of the file has been looked at, the table has the addresses
\* the file lists, each once.  Entries are removed by their place in the notes that
\* update took, so the notes and the table have to agree place by place, while the
\* other thread works on the table and further changes come.
PeersMatchConfig ==
  (watcher.pc = "recv" /\ ~notified) =>
    /\ AddressSet(peers_pair) = AddressSet(config)
    /\ Len(peers_pair) = Len(config)
=============================================================================
