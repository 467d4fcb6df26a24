----------------------------- MODULE TcpPattern -----------------------------
(***************************************************************************)
(* TCP_client.c and TCP_server.c: clients send the repeated pattern LEAK   *)
(* over a connection each, in writes of random size; the server takes one  *)
(* connection after the other and counts the bytes that differ from the    *)
(* pattern.  The letters are 0, 1, 2 and 3, a byte that the kernel under   *)
(* test zeroed too early is Zero.                                          *)
(***************************************************************************)
EXTENDS Integers, Sequences, FiniteSets

CONSTANTS
  Client,          \* runs of the client program
  ClientBufSize,   \* BUFSIZE of the client: a write is shorter than this
  ServerBufSize,   \* BUFSIZE of the server: the most a read returns
  packets,         \* argument of the client
  MaxZeroed,       \* bound on the bytes that get zeroed
  None

ASSUME SizeAssumption == ClientBufSize \in Nat \ {0} /\ ServerBufSize \in Nat \ {0}
ASSUME PacketsAssumption == packets \in Nat /\ MaxZeroed \in Nat
ASSUME NoneAssumption == None \notin Client /\ None \notin Nat

VARIABLES
  i, msg_idx,          \* of each client: the next packet, position in msg
  client,              \* "new", "connected", or the process has ended: "closed"
  sent,                \* the bytes each connection has accepted so far
  queue,               \* connections waiting for accept
  server,              \* "accept", "reading" or, after error(), "failed"
  conn,                \* the client behind newsockfd
  seen,                \* bytes of each connection read so far
  msg_index, errors,   \* of the server
  reported,            \* "Socket closed, errors = ..." of each connection
  zeroes,              \* zeroed bytes read from each connection
  cut                  \* clients that had a write cut short

cvars == <<i, msg_idx, client, cut>>
svars == <<server, conn, seen, msg_index, errors, reported, zeroes>>
vars == <<cvars, sent, queue, svars>>

Zero == 4

Init ==
  /\ i = [c \in Client |-> 1]
  /\ msg_idx = [c \in Client |-> 0]
  /\ client = [c \in Client |-> "new"]
  /\ sent = [c \in Client |-> << >>]
  /\ queue = << >>
  /\ server = "accept" /\ conn = None
  /\ seen = [c \in Client |-> 0]
  /\ msg_index = 0 /\ errors = 0
  /\ reported = [c \in Client |-> None]
  /\ zeroes = [c \in Client |-> 0]
  /\ cut = {}
-----------------------------------------------------------------------------
(* The clients.                                                            *)

(* connect fails once the server is gone.                                  *)
Connect(c) ==
  /\ client[c] = "new"
  /\ \/ /\ server = "failed"
        /\ client' = [client EXCEPT ![c] = "closed"]
        /\ queue' = queue
     \/ /\ server # "failed"
        /\ client' = [client EXCEPT ![c] = "connected"]
        /\ queue' = Append(queue, c)
  /\ UNCHANGED <<i, msg_idx, cut, sent, svars>>

NextIdx(c, size) == (msg_idx[c] + size) % 4

(* One packet.  The client takes any result of write that is not negative  *)
(* for success; accepted is what the kernel took of the packet.            *)
WritePacket(c, size, accepted) ==
  /\ client[c] = "connected" /\ i[c] <= packets /\ server # "failed"
  /\ sent' = [sent EXCEPT ![c] = @ \o [k \in 1 .. accepted |-> (msg_idx[c] + k - 1) % 4]]
  /\ msg_idx' = [msg_idx EXCEPT ![c] = NextIdx(c, size)]
  /\ i' = [i EXCEPT ![c] = @ + 1]
  /\ cut' = IF accepted < size THEN cut \cup {c} ELSE cut
  /\ UNCHANGED <<client, queue, svars>>

(* After the last packet, or when write fails because the server is gone.  *)
Close(c) ==
  /\ client[c] = "connected" /\ (i[c] > packets \/ server = "failed")
  /\ client' = [client EXCEPT ![c] = "closed"]
  /\ UNCHANGED <<i, msg_idx, cut, sent, queue, svars>>

(* The client is killed; the kernel closes its socket.                     *)
Kill(c) ==
  /\ client[c] = "connected"
  /\ client' = [client EXCEPT ![c] = "closed"]
  /\ UNCHANGED <<i, msg_idx, cut, sent, queue, svars>>

(* The kernel under test zeroes a byte on the way.                         *)
Zeroed == UNION {{<<c, k>> : k \in {j \in DOMAIN sent[c] : sent[c][j] = Zero}} : c \in Client}

ZeroByte(c, k) ==
  /\ k \in seen[c] + 1 .. Len(sent[c])
  /\ Cardinality(Zeroed) < MaxZeroed
  /\ sent' = [sent EXCEPT ![c][k] = Zero]
  /\ UNCHANGED <<cvars, queue, svars>>
-----------------------------------------------------------------------------
(* The server.                                                             *)

(* Mutant: the position of the last connection is carried over.            *)
FirstIndex_Kept(c) == msg_index

FirstIndex(c) == 0
FirstErrors(c) == 0

Accept ==
  /\ server = "accept" /\ queue # << >>
  /\ conn' = Head(queue)
  /\ queue' = Tail(queue)
  /\ server' = "reading"
  /\ msg_index' = FirstIndex(conn')
  /\ errors' = FirstErrors(conn')
  /\ UNCHANGED <<cvars, sent, seen, reported, zeroes>>

(* The bytes of the next m that differ from what is expected of them.      *)
Wrong(m) ==
  {k \in seen[conn] + 1 .. seen[conn] + m :
     sent[conn][k] # (msg_index + (k - seen[conn] - 1)) % 4}

(* Mutant: the position is not reduced.                                    *)
NextIndex_Unreduced(m) == msg_index + m

NextIndex(m) == (msg_index + m) % 4

Read(m) ==
  /\ server = "reading"
  /\ m \in 1 .. ServerBufSize /\ seen[conn] + m <= Len(sent[conn])
  /\ errors' = errors + Cardinality(Wrong(m))
  /\ msg_index' = NextIndex(m)
  /\ seen' = [seen EXCEPT ![conn] = @ + m]
  /\ zeroes' = [zeroes EXCEPT ![conn] = @ +
       Cardinality({k \in seen[conn] + 1 .. seen[conn] + m : sent[conn][k] = Zero})]
  /\ UNCHANGED <<cvars, sent, queue, server, conn, reported>>

(* Mutants: the end of the connection is taken for granted once all bytes  *)
(* there are have been read, or noticed only after full buffers.           *)
AtEof_Full == seen[conn] = Len(sent[conn]) /\ client[conn] = "closed" /\ seen[conn] % ServerBufSize = 0
AtEof_NoData == seen[conn] = Len(sent[conn])

(* read returns 0: all bytes read and the other end closed.                *)
AtEof == seen[conn] = Len(sent[conn]) /\ client[conn] = "closed"

Eof ==
  /\ server = "reading" /\ AtEof
  /\ reported' = [reported EXCEPT ![conn] = errors]
  /\ server' = "accept" /\ conn' = None
  /\ UNCHANGED <<cvars, sent, queue, seen, msg_index, errors, zeroes>>

(* accept or read fails.                                                   *)
ServerError ==
  /\ server # "failed"
  /\ server' = "failed"
  /\ UNCHANGED <<cvars, sent, queue, conn, seen, msg_index, errors, reported, zeroes>>

ServerStep == Accept \/ Eof \/ \E m \in 1 .. ServerBufSize : Read(m)

ClientStep(c) ==
  \/ Connect(c) \/ Close(c)
  \/ \E size \in 0 .. ClientBufSize - 1 : \E accepted \in 0 .. size : WritePacket(c, size, accepted)

Next ==
  \/ ServerStep \/ ServerError
  \/ \E c \in Client : ClientStep(c) \/ Kill(c) \/ \E k \in 1 .. Len(sent[c]) : ZeroByte(c, k)

(* Client and server are single threads that go on whenever the system     *)
(* call they are in returns.                                               *)
Fairness == WF_vars(ServerStep) /\ \A c \in Client : WF_vars(ClientStep(c))

Spec == Init /\ [][Next]_vars /\ Fairness
-----------------------------------------------------------------------------
TypeOK ==
  /\ i \in [Client -> 1 .. packets + 1]
  /\ msg_idx \in [Client -> 0 .. 3]
  /\ client \in [Client -> {"new", "connected", "closed"}]
  /\ sent \in [Client -> Seq(0 .. 4)]
  /\ queue \in Seq(Client)
  /\ server \in {"accept", "reading", "failed"}
  /\ conn \in Client \cup {None} /\ (server = "reading" => conn # None)
  /\ seen \in [Client -> Nat]
  /\ msg_index \in 0 .. 3 /\ errors \in Nat
  /\ reported \in [Client -> Nat \cup {None}]
  /\ zeroes \in [Client -> Nat]
  /\ cut \subseteq Client

(* The count printed for a connection is the number of its bytes that were *)
(* zeroed on the way, however writes and reads split the stream and        *)
(* whatever connections came before, unless a write was cut short.         *)
ReportsExact ==
  \A c \in Client : reported[c] # None /\ c \notin cut => reported[c] = zeroes[c]

(* A connection is reported only after all bytes it accepted were read.    *)
NothingUnread ==
  \A c \in Client : reported[c] # None => seen[c] = Len(sent[c])

(* Every client that connects is served to its end, unless the server      *)
(* exits because accept or read failed.                                    *)
EveryoneServed ==
  \A c \in Client : client[c] = "connected" ~> reported[c] # None \/ server = "failed"
=============================================================================
