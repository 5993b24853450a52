----------------------------- MODULE NodeManager -----------------------------
(***************************************************************************)
(* The system contract that keeps the list of consensus nodes.  A call is  *)
(* atomic, and a call whose modifiers fail changes nothing; the calls of   *)
(* one block run one after the other.                                      *)
(***************************************************************************)
EXTENDS Integers, Sequences, SequencesExt

CONSTANTS
  Addresses,    \* accounts and nodes
  InitNodes,    \* the list of nodes given to the constructor
  InitAdmins,   \* the admins given to the constructor
  MaxBlock      \* bound on block numbers

VARIABLES
  status,      \* NodeStatus of each address: "Close", "Ready" or "Start"
  admins,
  block_op,    \* block numbers marked by oneOperate
  nodes,       \* consensus node list
  number,      \* block.number
  operations   \* successful approveNode and deleteNode calls of this block

vars == <<status, admins, block_op, nodes, number, operations>>

Init ==
  /\ status = [a \in Addresses |-> IF a \in ToSet(InitNodes) THEN "Start" ELSE "Close"]
  /\ admins = InitAdmins
  /\ block_op = {}
  /\ nodes = InitNodes
  /\ number = 0
  /\ operations = <<>>

onlyAdmin(sender) == sender \in admins
oneOperate == number \notin block_op

addAdmin(sender, a) ==
  /\ onlyAdmin(sender)
  /\ admins' = admins \cup {a}
  /\ UNCHANGED <<status, block_op, nodes, number, operations>>

\* Mutant of newNode: a node that is in the list may be made ready again.
NewAnyNode(a) ==
  /\ status[a] # "Ready"
  /\ status' = [status EXCEPT ![a] = "Ready"]
  /\ UNCHANGED <<admins, block_op, nodes, number, operations>>

newNode(a) ==
  /\ status[a] = "Close"
  /\ status' = [status EXCEPT ![a] = "Ready"]
  /\ UNCHANGED <<admins, block_op, nodes, number, operations>>

\* Mutant of approveNode: the block is not marked.
ApproveUnmarked(sender, a) ==
  /\ onlyAdmin(sender) /\ oneOperate /\ status[a] = "Ready"
  /\ status' = [status EXCEPT ![a] = "Start"]
  /\ nodes' = Append(nodes, a)
  /\ operations' = Append(operations, "approve")
  /\ UNCHANGED <<admins, block_op, number>>

approveNode(sender, a) ==
  /\ onlyAdmin(sender) /\ oneOperate /\ status[a] = "Ready"
  /\ status' = [status EXCEPT ![a] = "Start"]
  /\ block_op' = block_op \cup {number}
  /\ nodes' = Append(nodes, a)
  /\ operations' = Append(operations, "approve")
  /\ UNCHANGED <<admins, number>>

\* deleteNode closes the gap in the list, and clears the mark of the block.
deleteNode(sender, a) ==
  /\ onlyAdmin(sender) /\ oneOperate /\ status[a] = "Start"
  /\ Contains(nodes, a)
  /\ status' = [status EXCEPT ![a] = "Close"]
  /\ nodes' = RemoveFirst(nodes, a)
  /\ block_op' = block_op \ {number}
  /\ operations' = Append(operations, "delete")
  /\ UNCHANGED <<admins, number>>

\* The next block.
NextBlock ==
  /\ number < MaxBlock
  /\ number' = number + 1
  /\ operations' = <<>>
  /\ UNCHANGED <<status, admins, block_op, nodes>>

Call ==
  \/ \E s, a \in Addresses : addAdmin(s, a) \/ approveNode(s, a) \/ deleteNode(s, a)
  \/ \E a \in Addresses : newNode(a)

-----------------------------------------------------------------------------
(* Properties.                                                             *)

\* The list that listNode returns holds the nodes in status Start, each once:
\* status and nodes are two records of the same fact, kept by four functions.
ListMatchesStatus ==
  /\ IsInjective(nodes)
  /\ ToSet(nodes) = {a \in Addresses : status[a] = "Start"}

\* In a block no change of the list follows an approval.  Deletions before it are not
\* limited: deleteNode clears the mark by which oneOperate would refuse the next one.
ApprovalIsLast ==
  \A i \in 1..Len(operations) : operations[i] = "approve" => i = Len(operations)
=============================================================================
