------------------------------ MODULE SslEcho ------------------------------
(***************************************************************************)
(* sslecho.c: clients send packets over a TLS connection each to a server  *)
(* that takes one connection after the other and echoes every record it    *)
(* reads.  A client reads only one record for each packet it writes and    *)
(* the rest at the end, while a packet may need several records, so echoes *)
(* pile up in the socket buffers.  A record is its length: the contents of *)
(* rxbuf are never looked at, the client compares its own txbuf.           *)
(***************************************************************************)
EXTENDS Integers, FiniteSets, Sequences

CONSTANTS
  Client,       \* runs of sslecho c
  Random,       \* values random() returns
  MaxBufSize,   \* MAX_BUF_SIZE
  RecordMax,    \* most bytes of a TLS record
  SockBuf,      \* bytes that fit into one direction of a connection
  packets,      \* packets a client sends, 100 in the code
  None

ASSUME RandomAssumption == Random \subseteq Nat
ASSUME SizeAssumption ==
  /\ MaxBufSize \in Nat /\ MaxBufSize > 0 /\ MaxBufSize % 32 = 0
  /\ RecordMax \in Nat /\ RecordMax > 0 /\ RecordMax % 4 = 0
  /\ SockBuf \in Nat /\ SockBuf >= RecordMax
  /\ packets \in Nat /\ packets > 0
ASSUME NoneAssumption == None \notin Client

VARIABLES
  server,     \* "accept", "handshake", "read", "write"; "exited" after the
              \* loop, "failed" after exit() in it
  conn,       \* the client behind client_skt
  rxlen,      \* bytes the server read and has not echoed
  queue,      \* connections waiting for accept
  finished,   \* clients whose connection the server has closed
  client,     \* "new", "handshake", "packet", "write", "read", "drain", "closed"
  i,          \* of each client, as the next four: packets done
  todo,       \* bytes of the packet SSL_write has not passed on
  total_bytes_sent, total_bytes_received,
  msg_idx, errors,   \* position in the pattern, ERROR lines printed
  up, down,   \* records on the way to the server and back
  lost        \* clients whose connection broke

svars == <<server, conn, rxlen, queue, finished>>
totals == <<total_bytes_sent, total_bytes_received>>
cvars == <<client, i, todo, totals, msg_idx, errors>>
vars == <<svars, cvars, up, down, lost>>

Bytes(records) ==
  LET sum[n \in 0 .. Len(records)] == IF n = 0 THEN 0 ELSE sum[n - 1] + records[n]
  IN  sum[Len(records)]

Room(records, len) == Bytes(records) + len <= SockBuf

(* The other end of the connection of client c has been closed.            *)
Gone(c) == server \in {"exited", "failed"} \/ c \in finished

Init ==
  /\ server = "accept" /\ conn = None /\ rxlen = 0 /\ queue = << >> /\ finished = {}
  /\ client = [c \in Client |-> "new"]
  /\ i = [c \in Client |-> 0]
  /\ todo = [c \in Client |-> 0]
  /\ total_bytes_sent = [c \in Client |-> 0]
  /\ total_bytes_received = [c \in Client |-> 0]
  /\ msg_idx = [c \in Client |-> 0]
  /\ errors = [c \in Client |-> 0]
  /\ up = [c \in Client |-> << >>]
  /\ down = [c \in Client |-> << >>]
  /\ lost = {}

Goes(c, at) == client' = [client EXCEPT ![c] = at]
-----------------------------------------------------------------------------
(* The client.                                                             *)

(* connect fails once the server is gone.                                  *)
Connect(c) ==
  /\ client[c] = "new"
  /\ \/ Gone(c) /\ Goes(c, "closed") /\ UNCHANGED queue
     \/ ~ Gone(c) /\ Goes(c, "handshake") /\ queue' = Append(queue, c)
  /\ UNCHANGED <<server, conn, rxlen, finished, i, todo, totals, msg_idx, errors, up, down, lost>>

(* SSL_connect fails, because the server went away ...                     *)
ConnectFails(c) ==
  /\ client[c] = "handshake" /\ Gone(c)
  /\ Goes(c, "closed")
  /\ UNCHANGED <<svars, i, todo, totals, msg_idx, errors, up, down, lost>>

(* ... or because the client does not accept the certificate.              *)
Refuse(c) ==
  /\ client[c] = "handshake" /\ server = "handshake" /\ conn = c
  /\ Goes(c, "closed")
  /\ lost' = lost \cup {c}
  /\ UNCHANGED <<svars, i, todo, totals, msg_idx, errors, up, down>>

(* Mutant: the low bits are not masked.                                    *)
TxLen_Unmasked(random) == random % (MaxBufSize \div 2)

(* (random() & ~0xf) % (MAX_BUF_SIZE/2)                                    *)
TxLen(random) == (random - (random % 16)) % (MaxBufSize \div 2)

(* SSL_write of no bytes returns 0, which the client takes for a closed    *)
(* connection: it sends no more packets.                                   *)
StartPacket(c, random) ==
  /\ client[c] = "packet"
  /\ total_bytes_sent' = [total_bytes_sent EXCEPT ![c] = @ + TxLen(random)]
  /\ todo' = [todo EXCEPT ![c] = TxLen(random)]
  /\ Goes(c, IF TxLen(random) = 0 THEN "drain" ELSE "write")
  /\ UNCHANGED <<svars, i, total_bytes_received, msg_idx, errors, up, down, lost>>

(* SSL_write passes on one record; it returns after the last.              *)
WriteRecord(c) ==
  LET len == IF todo[c] < RecordMax THEN todo[c] ELSE RecordMax
  IN  /\ client[c] = "write" /\ ~ Gone(c) /\ Room(up[c], len)
      /\ up' = [up EXCEPT ![c] = Append(@, len)]
      /\ todo' = [todo EXCEPT ![c] = @ - len]
      /\ Goes(c, IF len = todo[c] THEN "read" ELSE "write")
      /\ UNCHANGED <<svars, i, totals, msg_idx, errors, down, lost>>

WriteFails(c) ==
  /\ client[c] = "write" /\ Gone(c)
  /\ Goes(c, "drain")
  /\ UNCHANGED <<svars, i, todo, totals, msg_idx, errors, up, down, lost>>

(* Mutants: the client waits for one byte more than it sent, or does not   *)
(* wait for the rest at all.                                               *)
MoreToCome_OffByOne(c) == total_bytes_sent[c] >= total_bytes_received[c]
MoreToCome_Never(c) == FALSE

MoreToCome(c) == total_bytes_sent[c] > total_bytes_received[c]

(* In the packet loop, or in the loop that collects the rest.              *)
Reading(c) == client[c] = "read" \/ (client[c] = "drain" /\ MoreToCome(c))

(* Mutant: only the last record is counted.                                *)
Received_Last(c, len) == len

Received(c, len) == total_bytes_received[c] + len

(* Bytes of txbuf that differ from the pattern.                            *)
Wrong(c, len) == {j \in 0 .. len - 1 : (msg_idx[c] + j) % 4 # j % 4}

(* Mutant: the position is not reduced.                                    *)
NextIdx_Unreduced(c, len) == msg_idx[c] + len

NextIdx(c, len) == (msg_idx[c] + len) % 4

ReadEcho(c) ==
  LET len == Head(down[c])
  IN  /\ Reading(c) /\ down[c] # << >>
      /\ down' = [down EXCEPT ![c] = Tail(@)]
      /\ total_bytes_received' = [total_bytes_received EXCEPT ![c] = Received(c, len)]
      /\ errors' = [errors EXCEPT ![c] = @ + Cardinality(Wrong(c, len))]
      /\ msg_idx' = [msg_idx EXCEPT ![c] = NextIdx(c, len)]
      /\ \/ /\ client[c] = "read"
            /\ i' = [i EXCEPT ![c] = @ + 1]
            /\ Goes(c, IF i[c] + 1 < packets THEN "packet" ELSE "drain")
         \/ client[c] = "drain" /\ UNCHANGED <<i, client>>
      /\ UNCHANGED <<svars, todo, total_bytes_sent, up, lost>>

(* SSL_read fails: the server is gone, or the record was damaged on the    *)
(* way.  So does the read in the second loop, and the client exits.        *)
ReadFails(c) ==
  /\ Reading(c) /\ (Gone(c) \/ down[c] # << >>)
  /\ Goes(c, "closed")
  /\ lost' = lost \cup {c}
  /\ UNCHANGED <<svars, i, todo, totals, msg_idx, errors, up, down>>

Close(c) ==
  /\ client[c] = "drain" /\ ~ MoreToCome(c)
  /\ Goes(c, "closed")
  /\ UNCHANGED <<svars, i, todo, totals, msg_idx, errors, up, down, lost>>

(* The client is killed.                                                   *)
Kill(c) ==
  /\ client[c] \notin {"new", "closed"}
  /\ Goes(c, "closed")
  /\ lost' = lost \cup {c}
  /\ UNCHANGED <<svars, i, todo, totals, msg_idx, errors, up, down>>
-----------------------------------------------------------------------------
(* The server.                                                             *)

Accept ==
  /\ server = "accept" /\ queue # << >>
  /\ conn' = Head(queue)
  /\ queue' = Tail(queue)
  /\ server' = "handshake"
  /\ UNCHANGED <<rxlen, finished, cvars, up, down, lost>>

AcceptError ==
  /\ server = "accept"
  /\ server' = "failed"
  /\ UNCHANGED <<conn, rxlen, queue, finished, cvars, up, down, lost>>

(* SSL_accept and SSL_connect succeed.                                     *)
Handshake ==
  /\ server = "handshake" /\ client[conn] = "handshake"
  /\ Goes(conn, "packet")
  /\ server' = "read"
  /\ UNCHANGED <<conn, rxlen, queue, finished, i, todo, totals, msg_idx, errors, up, down, lost>>

(* SSL_accept fails: server_running is set to false and the server exits.  *)
HandshakeFails ==
  /\ server = "handshake" /\ client[conn] = "closed"
  /\ server' = "exited"
  /\ UNCHANGED <<conn, rxlen, queue, finished, cvars, up, down, lost>>

ServerRead ==
  /\ server = "read" /\ up[conn] # << >>
  /\ rxlen' = Head(up[conn])
  /\ up' = [up EXCEPT ![conn] = Tail(@)]
  /\ server' = "write"
  /\ UNCHANGED <<conn, queue, finished, cvars, down, lost>>

(* SSL_read fails: the client has closed the connection, or the record was *)
(* damaged on the way.  Cleanup for the next client.                       *)
ServerReadEnds ==
  /\ server = "read" /\ (client[conn] = "closed" \/ up[conn] # << >>)
  /\ lost' = IF up[conn] # << >> THEN lost \cup {conn} ELSE lost
  /\ finished' = finished \cup {conn}
  /\ server' = "accept" /\ conn' = None
  /\ UNCHANGED <<rxlen, queue, cvars, up, down>>

(* Echo it back; after a failure the loop goes on as well.                 *)
ServerWrite ==
  /\ server = "write"
  /\ \/ /\ client[conn] # "closed" /\ Room(down[conn], rxlen)
        /\ down' = [down EXCEPT ![conn] = Append(@, rxlen)]
     \/ client[conn] = "closed" /\ UNCHANGED down
  /\ rxlen' = 0
  /\ server' = "read"
  /\ UNCHANGED <<conn, queue, finished, cvars, up, lost>>

ServerStep == Accept \/ Handshake \/ HandshakeFails \/ ServerRead \/ ServerReadEnds \/ ServerWrite

ClientStep(c) ==
  \/ ConnectFails(c) \/ WriteRecord(c) \/ WriteFails(c) \/ ReadEcho(c) \/ ReadFails(c) \/ Close(c)
  \/ \E random \in Random : StartPacket(c, random)

Next ==
  \/ ServerStep \/ AcceptError
  \/ \E c \in Client : ClientStep(c) \/ Connect(c) \/ Refuse(c) \/ Kill(c)

(* Client and server are single threads that go on whenever the call they  *)
(* are in returns.                                                         *)
Fairness == WF_vars(ServerStep) /\ \A c \in Client : WF_vars(ClientStep(c))

Spec == Init /\ [][Next]_vars /\ Fairness
-----------------------------------------------------------------------------
TypeOK ==
  /\ server \in {"accept", "handshake", "read", "write", "exited", "failed"}
  /\ conn \in Client \cup {None}
  /\ rxlen \in 0 .. RecordMax
  /\ queue \in Seq(Client) /\ finished \subseteq Client /\ lost \subseteq Client
  /\ client \in [Client -> {"new", "handshake", "packet", "write", "read", "drain", "closed"}]
  /\ i \in [Client -> 0 .. packets]
  /\ todo \in [Client -> 0 .. MaxBufSize]
  /\ total_bytes_sent \in [Client -> Nat] /\ total_bytes_received \in [Client -> Nat]
  /\ msg_idx \in [Client -> 0 .. 3] /\ errors \in [Client -> Nat]
  /\ up \in [Client -> Seq(1 .. RecordMax)] /\ down \in [Client -> Seq(1 .. RecordMax)]

(* As long as the connection is intact every byte of the packets is either *)
(* still in SSL_write, on the way there or back, in the server's rxbuf, or *)
(* has been received: total_bytes_sent and total_bytes_received differ by  *)
(* what is really outstanding.                                             *)
NothingVanishes ==
  \A c \in Client \ lost :
    total_bytes_sent[c] = todo[c] + Bytes(up[c]) + (IF c = conn THEN rxlen ELSE 0)
                            + Bytes(down[c]) + total_bytes_received[c]

(* A client whose connection did not break exits only when it has received *)
(* all it sent, also when it stopped early at a packet of length 0.        *)
EchoComplete ==
  \A c \in Client \ lost :
    client[c] = "closed" => total_bytes_received[c] = total_bytes_sent[c]

(* The ERROR line is never printed: whatever records the packets and their *)
(* echoes are cut into, every read starts at the first letter.             *)
NoFalseErrors == \A c \in Client : errors[c] = 0

(* Every client that has connected exits, whatever happens to the server   *)
(* or to the clients before it in the queue.                               *)
ClientEnds == \A c \in Client : client[c] = "handshake" ~> client[c] = "closed"

(* "ignore SIGPIPE so that server can continue running when client pipe    *)
(* closes abruptly" (line 157): the server's loop does not end.            *)
ServerKeepsRunning == server # "exited"
=============================================================================
