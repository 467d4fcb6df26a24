----------------------------- MODULE UdpPattern -----------------------------
(***************************************************************************)
(* UDP_client.c and UDP_server.c: the client sends datagrams filled with   *)
(* the repeated pattern LEAK, the server counts the bytes that differ from *)
(* the pattern.  The letters are 0, 1, 2 and 3, a byte that the kernel     *)
(* under test zeroed too early is Zero.  Between the two programs          *)
(* datagrams are lost, duplicated and reordered.                           *)
(***************************************************************************)
EXTENDS Integers, FiniteSets

CONSTANTS
  ClientBufSize,   \* BUFSIZE of the client: bytes of a datagram
  ServerBufSize,   \* BUFSIZE of the server: bytes of a datagram it looks at
  packets,         \* argument of the client
  MaxReceived      \* bound on the datagrams the server receives

ASSUME SizeAssumption == ClientBufSize \in Nat \ {0} /\ ServerBufSize \in Nat \ {0}
ASSUME PacketsAssumption == packets \in Nat /\ MaxReceived \in Nat

VARIABLES
  i, msg_idx,          \* of the client: the next packet, position in msg
  client, server,      \* "running", "closed" or, after error(), "failed"
  net,                 \* datagrams on the way
  msg_index, errors,   \* of the server: position in expected_msg, error count
  received,            \* datagrams received
  zeroes,              \* zeroed bytes among those the server looked at
  blind                \* datagrams received with their first byte zeroed

cvars == <<i, msg_idx, client>>
svars == <<server, msg_index, errors, received, zeroes, blind>>
udpvars == <<cvars, net, svars>>

Zero == 4

(* A datagram: its number, the letter it starts with, the bytes zeroed.    *)
Datagram == [packet : 1 .. packets, first : 0 .. 3, zeroed : SUBSET (0 .. ClientBufSize - 1)]

Byte(d, k) == IF k \in d.zeroed THEN Zero ELSE (d.first + k) % 4

UdpInit ==
  /\ i = 1 /\ msg_idx = 0 /\ client = "running"
  /\ net = {}
  /\ server = "running" /\ msg_index = 0 /\ errors = 0
  /\ received = 0 /\ zeroes = 0 /\ blind = 0
-----------------------------------------------------------------------------
(* The client fills the buffer and sends it; if sendto fails it exits.     *)
SendPacket ==
  /\ client = "running" /\ i <= packets
  /\ msg_idx' = (msg_idx + ClientBufSize) % 4
  /\ \/ /\ net' = net \cup {[packet |-> i, first |-> msg_idx, zeroed |-> {}]}
        /\ i' = i + 1
        /\ UNCHANGED client
     \/ /\ client' = "failed"
        /\ UNCHANGED <<net, i>>
  /\ UNCHANGED svars

Close ==
  /\ client = "running" /\ i > packets
  /\ client' = "closed"
  /\ UNCHANGED <<i, msg_idx, net, svars>>

(* The network and the kernels on both sides.                              *)
Lose(d) ==
  /\ net' = net \ {d}
  /\ UNCHANGED <<cvars, svars>>

ZeroByte(d, k) ==
  /\ net' = (net \ {d}) \cup {[d EXCEPT !.zeroed = @ \cup {k}]}
  /\ UNCHANGED <<cvars, svars>>
-----------------------------------------------------------------------------
(* recvfrom returns at most BUFSIZE bytes; the rest of the datagram is     *)
(* dropped.                                                                *)
n == IF ClientBufSize <= ServerBufSize THEN ClientBufSize ELSE ServerBufSize

(* Mutant: the position is not taken from the first byte.                  *)
Start_Kept(d) == msg_index

(* The search of the first byte in expected_msg.                           *)
Start(d) == IF Byte(d, 0) \in 0 .. 3 THEN Byte(d, 0) ELSE msg_index

(* Mutant: the first byte, having set the position, is not compared.       *)
Wrong_SkipFirst(d) == {k \in 1 .. n - 1 : Byte(d, k) # (Start(d) + k) % 4}

(* The bytes that differ from what is expected of them.                    *)
Wrong(d) == {k \in 0 .. n - 1 : Byte(d, k) # (Start(d) + k) % 4}

NextIndex(d) == (Start(d) + n) % 4

(* One iteration of the server's loop.  The datagram may stay on the way   *)
(* and arrive again.                                                       *)
Receive(d) ==
  /\ server = "running" /\ received < MaxReceived
  /\ net' \in {net, net \ {d}}
  /\ errors' = errors + Cardinality(Wrong(d))
  /\ msg_index' = NextIndex(d)
  /\ received' = received + 1
  /\ zeroes' = zeroes + Cardinality(d.zeroed \cap (0 .. n - 1))
  /\ blind' = IF 0 \in d.zeroed THEN blind + 1 ELSE blind
  /\ UNCHANGED <<cvars, server>>

RecvError ==
  /\ server = "running"
  /\ server' = "failed"
  /\ UNCHANGED <<cvars, net, msg_index, errors, received, zeroes, blind>>

UdpNext ==
  \/ SendPacket \/ Close \/ RecvError
  \/ \E d \in net : Lose(d) \/ Receive(d) \/ \E k \in 0 .. ClientBufSize - 1 : ZeroByte(d, k)

UdpSpec == UdpInit /\ [][UdpNext]_udpvars
-----------------------------------------------------------------------------
UdpTypeOK ==
  /\ i \in 1 .. packets + 1 /\ msg_idx \in 0 .. 3
  /\ client \in {"running", "closed", "failed"} /\ server \in {"running", "failed"}
  /\ net \subseteq Datagram
  /\ msg_index \in 0 .. 3
  /\ errors \in Nat /\ received \in Nat /\ zeroes \in Nat /\ blind \in Nat

(* Every zeroed byte the server looks at is counted as an error, whatever  *)
(* was lost, duplicated or reordered before.                               *)
NeverUndercounts == zeroes <= errors

(* As long as first bytes arrive intact nothing else is counted: the       *)
(* resynchronisation on the first byte hides losses, duplicates, changes   *)
(* of order and the truncation of datagrams.                               *)
ExactAfterResync == blind = 0 => errors = zeroes
=============================================================================
