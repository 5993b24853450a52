--------------------------- MODULE MCSynchronizer ---------------------------
(***************************************************************************)
(* Instances for TLC of two parts of the network service: Synchronizer,    *)
(* which fetches blocks, and Connection, which keeps the table of peers.   *)
(* All that the synchronizer reads of the table is whether it is empty,    *)
(* which its own no_peers says, so a behaviour is one of the part that is  *)
(* chosen at the start, with the other as it was.                          *)
(***************************************************************************)
EXTENDS Synchronizer, TLC

CONSTANTS p1, p2
MCPeers == {p1, p2}
PeerSymmetry == Permutations(MCPeers)   \* no peer is told from another, and no liveness is checked

VARIABLES
  part,
  peers_pair, config, notified, watcher, changes   \* Connection

connectionVars == <<peers_pair, config, notified, watcher, changes>>

\* Files without peers, with other peers, and with a known address under another id.
Listed(id_card, addr) == [id_card |-> id_card, addr |-> addr]

T == INSTANCE Connection
  WITH MaxChanges <- 3,
       Configs <- {<<>>, <<Listed(1, "a"), Listed(2, "b")>>, <<Listed(2, "b"), Listed(3, "c")>>,
                   <<Listed(3, "c"), Listed(1, "b"), Listed(4, "d")>>}

NetworkInit ==
  /\ part \in {"synchronizer", "table"}
  /\ Init /\ T!ConnectionInit
  /\ part = "synchronizer" => config = <<>>
  /\ part = "table" => no_peers

Synchronize == part = "synchronizer" /\ Next /\ UNCHANGED <<part, connectionVars>>
KeepTable == part = "table" /\ T!ConnectionNext /\ UNCHANGED <<part, vars>>

NetworkNext == Synchronize \/ KeepTable

NetworkSpec == NetworkInit /\ [][NetworkNext]_<<part, vars, connectionVars>>

-----------------------------------------------------------------------------
\* When every change of the file has been looked at, the table has the peers the file
\* lists (update, which removes entries by their place, beside connect).
PeersMatchConfig == part = "table" => T!PeersMatchConfig
=============================================================================
