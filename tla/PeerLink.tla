------------------------------ MODULE PeerLink ------------------------------
(***************************************************************************)
(* One connection of the network service to a peer: the frames that        *)
(* `broadcast` and the heartbeats of `connect` write, the bytes on their   *)
(* way, the decoder of the peer's server and where the peer passes on what *)
(* it decodes.                                                             *)
(*                                                                         *)
(* Bytes are counted in units: HeaderUnits for a frame's header, BodyUnits *)
(* for the key and the body of a message.  A unit of a message carries the *)
(* key of the message and its place in the frame; a heartbeat is a header  *)
(* alone.  TCP brings the units of one connection in order, in portions of *)
(* any size.  A write to a connection the peer has closed is answered with *)
(* a reset, so that the first one still succeeds and only the next fails.  *)
(***************************************************************************)
EXTENDS Integers, Sequences, SequencesExt

CONSTANTS
  id_card,       \* of the peer
  Messages,      \* the messages to send, in order: [key, operate, origin]
  MaxStalls,     \* bound on rounds of heartbeats the peer reads nothing in
  MaxBreaks      \* bound on broken connections

HeaderUnits == 2
BodyUnits == 1

VARIABLES
  stream,    \* "None", "Up", "Reset" (closed by the peer), "Broken" (writes fail)
  wire,      \* units on their way
  buf,       \* units the decoder holds
  written,   \* messages `broadcast` has handled
  sent,      \* keys written to the present connection
  channels,  \* what came of the present connection to each channel of the peer
  stalls,    \* rounds the peer read nothing in
  breaks     \* connections broken

linkVars == <<stream, wire, buf, written, sent, channels, stalls, breaks>>

Outputs == {"sync", "net.sync", "net.tx", "net.msg", "dropped"}
NoOutput == [o \in Outputs |-> <<>>]
Heartbeat == "None"

LinkInit ==
  /\ stream = "None" /\ wire = <<>> /\ buf = <<>> /\ written = 0
  /\ sent = <<>> /\ channels = NoOutput
  /\ stalls = 0 /\ breaks = 0

-----------------------------------------------------------------------------
(* The codec.                                                              *)

pubsub_message_to_network_message(key) ==
  [i \in 1..(IF key = Heartbeat THEN HeaderUnits ELSE HeaderUnits + BodyUnits) |->
     [key |-> key, at |-> i]]

length_full(b) == IF b[1].key = Heartbeat THEN 0 ELSE BodyUnits

\* A header that is incomplete, is none, or promises more than there is: nothing,
\* and nothing is consumed.  A heartbeat is consumed, and the answer is nothing too.
network_message_to_pubsub_message(b) ==
  IF Len(b) < HeaderUnits THEN [key |-> "None", rest |-> b]
  ELSE IF b[1].at # 1 THEN [key |-> "None", rest |-> b]
  ELSE IF length_full(b) + HeaderUnits > Len(b) THEN [key |-> "None", rest |-> b]
  ELSE [key |-> b[1].key, rest |-> SubSeq(b, HeaderUnits + length_full(b) + 1, Len(b))]

\* The transport decodes until the decoder has nothing, and then waits for bytes.
RECURSIVE Decoded(_, _)
Decoded(b, keys) ==
  LET d == network_message_to_pubsub_message(b)
  IN  IF d.key = "None" THEN [keys |-> keys, rest |-> d.rest]
      ELSE Decoded(d.rest, Append(keys, d.key))

\* NetWork::receiver for what the peer's server passes on.
receiver(key) ==
  CASE key \in {"net.sync_status", "net.sync_resp"} -> "sync"
    [] key = "net.sync_req" -> "net.sync"
    [] key = "auth.tx" -> "net.tx"
    [] key = "consensus.msg" -> "net.msg"
    [] OTHER -> "dropped"

Routed(keys, o) == SelectSeq(keys, LAMBDA k : receiver(k) = o)

-----------------------------------------------------------------------------
(* Steps.                                                                  *)

\* What a write does to the connection, by the state the connection is in.
Write(key) ==
  CASE stream = "Up" ->
         /\ wire' = wire \o pubsub_message_to_network_message(key)
         /\ sent' = IF key = Heartbeat THEN sent ELSE Append(sent, key)
         /\ UNCHANGED stream
    [] stream = "Reset" -> stream' = "Broken" /\ UNCHANGED <<wire, sent>>
    [] OTHER -> UNCHANGED <<stream, wire, sent>>

is_send(m) ==
  \/ m.operate = "BROADCAST"
  \/ m.operate = "SINGLE" /\ id_card = m.origin
  \/ m.operate = "SUBTRACT" /\ id_card # m.origin

\* The next message, if it is for this peer.  The result of the write is ignored.
broadcast ==
  /\ written < Len(Messages)
  /\ written' = written + 1
  /\ IF is_send(Messages[written + 1]) THEN Write(Messages[written + 1].key)
     ELSE UNCHANGED <<stream, wire, sent>>
  /\ UNCHANGED <<buf, channels, stalls, breaks>>

\* Fifteen seconds after the last round: the peer has read the last heartbeat, or
\* this is a round it reads nothing in.
Round ==
  LET behind == \E i \in 1..Len(wire) : wire[i].key = Heartbeat
  IN  /\ behind => stalls < MaxStalls
      /\ stalls' = IF behind THEN stalls + 1 ELSE stalls

\* Mutant of connect: a heartbeat that fails leaves the connection as it is.
NoReconnect ==
  /\ Round
  /\ IF stream = "None"
     THEN stream' = "Up" /\ UNCHANGED <<wire, sent>>
     ELSE Write(Heartbeat)
  /\ UNCHANGED <<buf, written, channels, breaks>>

\* A round of connect: a heartbeat, or a new connection where there is none or the
\* heartbeat fails.  The peer listens.
connect ==
  /\ Round
  /\ IF stream \in {"None", "Broken"}
     THEN stream' = "Up" /\ UNCHANGED <<wire, sent>>
     ELSE Write(Heartbeat)
  /\ UNCHANGED <<buf, written, channels, breaks>>

\* The peer reads some units and passes on what it decodes.
Receive(n) ==
  /\ stream = "Up" /\ n \in 1..Len(wire)
  /\ LET d == Decoded(buf \o SubSeq(wire, 1, n), <<>>)
     IN  /\ buf' = d.rest
         /\ channels' = [o \in Outputs |-> channels[o] \o Routed(d.keys, o)]
  /\ wire' = SubSeq(wire, n + 1, Len(wire))
  /\ UNCHANGED <<stream, written, sent, stalls, breaks>>

\* The peer goes and comes back; what was on its way is lost.
Break ==
  /\ stream = "Up" /\ breaks < MaxBreaks
  /\ stream' = "Reset" /\ wire' = <<>> /\ buf' = <<>>
  /\ sent' = <<>> /\ channels' = NoOutput
  /\ breaks' = breaks + 1
  /\ UNCHANGED <<written, stalls>>

Read == \E n \in 1..Len(wire) : Receive(n)

LinkNext == broadcast \/ connect \/ Read \/ Break

-----------------------------------------------------------------------------
(* Properties.                                                             *)

\* A connection that broke comes back, and on one that stays every message
\* written ends at the channel its key names, whole, once and in order, however
\* the bytes arrive.  A message decoded after a heartbeat in the same portion
\* waits for the bytes of the next round.
Delivered ==
  <>[](stream = "Up" /\ \A o \in Outputs : channels[o] = Routed(sent, o))
=============================================================================
