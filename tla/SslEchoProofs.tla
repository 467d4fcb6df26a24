--------------------------- MODULE SslEchoProofs ---------------------------
(***************************************************************************)
(* Proofs about the TLS echo.  Every record on the way, in either          *)
(* direction, is a positive multiple of four bytes long, because packets   *)
(* and the largest record are; so the client always reads from the start   *)
(* of the pattern.  The bytes of a connection that is not lost are all     *)
(* accounted for, so its client leaves only when all echoes are in.        *)
(***************************************************************************)
EXTENDS SslEcho, FiniteSetTheorems, WellFoundedInduction, TLAPS

Multiple == {n \in Nat : n % 4 = 0}
Record == {n \in 1 .. RecordMax : n % 4 = 0}

RecordInv ==
  /\ up \in [Client -> Seq(Record)] /\ down \in [Client -> Seq(Record)]
  /\ rxlen \in Record \cup {0} /\ (server = "write" => rxlen \in Record)
  /\ \A c \in Client : todo[c] \in Multiple /\ (client[c] = "write" => todo[c] # 0)

PlaceInv ==
  /\ server \in {"handshake", "read", "write"} => conn \in Client
  /\ \A c \in Client : client[c] \in {"packet", "write", "read", "handshake", "new"} => i[c] < packets

CheckInv == \A c \in Client : msg_idx[c] = 0 /\ errors[c] = 0

IInv == TypeOK /\ RecordInv /\ PlaceInv /\ CheckInv

(* A packet is a multiple of four bytes long and fits into the buffer.     *)
LEMMA TxLenMultiple ==
  ASSUME NEW random \in Random
  PROVE  TxLen(random) \in Multiple /\ TxLen(random) \in 0 .. MaxBufSize
<1> DEFINE m == MaxBufSize \div 2
           x == random - (random % 16)
<1>1. random \in Nat
  BY RandomAssumption
<1>2. PICK a \in Nat : x = 16 * a
  <2>1. random = 16 * (random \div 16) + (random % 16) /\ random \div 16 \in Nat
    BY <1>1
  <2> QED
    BY <1>1, <2>1
<1>3. PICK b \in Nat : m = 16 * b /\ b > 0 /\ m <= MaxBufSize
  <2>1. MaxBufSize = 32 * (MaxBufSize \div 32) /\ MaxBufSize \div 32 \in Nat
    BY SizeAssumption
  <2>2. MaxBufSize \div 32 > 0
    BY <2>1, SizeAssumption
  <2>3. MaxBufSize \div 2 = 16 * (MaxBufSize \div 32)
    BY <2>1, SizeAssumption
  <2> QED
    BY <2>1, <2>2, <2>3
<1> HIDE DEF m, x
<1>4. /\ x \in Nat /\ m \in Nat /\ m > 0
      /\ x % m \in 0 .. m - 1 /\ x \div m \in Nat /\ x = m * (x \div m) + (x % m)
  <2>1. x \in Nat /\ m \in Nat /\ m > 0
    BY <1>2, <1>3
  <2> QED
    BY <2>1
<1> DEFINE q == x \div m
           r == x % m
<1>5. q \in Nat /\ r \in 0 .. m - 1 /\ x = m * q + r
  BY <1>4
<1> HIDE DEF q, r
<1>6. r = 16 * (a - b * q)
  <2>1. m * q = 16 * (b * q) /\ b * q \in Nat
    BY <1>3, <1>5
  <2> QED
    BY <1>2, <1>4, <1>5, <2>1
<1>7. a - b * q \in Int
  BY <1>5
<1>8. r \in Nat /\ r % 4 = 0
  BY <1>4, <1>5, <1>6, <1>7
<1>9. TxLen(random) = r
  BY DEF TxLen, x, m, r
<1> QED
  BY <1>3, <1>4, <1>5, <1>8, <1>9, SizeAssumption DEF Multiple

(* What one record leaves of a packet is again a multiple of four bytes.   *)
LEMMA RecordCut ==
  ASSUME NEW n \in Multiple, n # 0
  PROVE  LET len == IF n < RecordMax THEN n ELSE RecordMax
         IN  len \in Record /\ n - len \in Multiple /\ (n - len = 0 <=> len = n)
BY SizeAssumption DEF Multiple, Record

(* No byte of a record read from the start of the pattern is wrong.        *)
LEMMA NoneWrong ==
  ASSUME NEW c \in Client, msg_idx[c] = 0, NEW len \in Nat
  PROVE  Cardinality(Wrong(c, len)) = 0
<1>1. Wrong(c, len) = {}
  BY DEF Wrong
<1> QED
  BY <1>1, FS_EmptySet

(* What is taken from a queue, and what is left, is of the queue's type.   *)
LEMMA HeadTail ==
  ASSUME NEW S, NEW s \in Seq(S), s # << >>
  PROVE  Head(s) \in S /\ Tail(s) \in Seq(S)
OBVIOUS

(* The invariant holds when the server starts.                             *)
LEMMA InitIInv == Init => IInv
<1> SUFFICES ASSUME Init PROVE IInv
  OBVIOUS
<1>1. << >> \in Seq(Record) /\ << >> \in Seq(1 .. RecordMax) /\ << >> \in Seq(Client)
  OBVIOUS
<1>2. 0 \in Multiple
  BY DEF Multiple
<1>3. TypeOK
  BY <1>1, SizeAssumption DEF Init, TypeOK
<1> QED
  BY <1>1, <1>2, <1>3, SizeAssumption DEF Init, IInv, RecordInv, PlaceInv, CheckInv

(* A client changes its place, in a way that keeps what is known of it.    *)
LEMMA Moves ==
  ASSUME IInv, NEW c \in Client,
         NEW at \in {"new", "handshake", "packet", "write", "read", "drain", "closed"},
         client' = [client EXCEPT ![c] = at],
         at = "write" => todo[c] # 0,
         at \in {"packet", "write", "read", "handshake", "new"} => i[c] < packets,
         UNCHANGED <<conn, rxlen, i, todo, totals, msg_idx, errors, up, down>>,
         server' \in {"accept", "handshake", "read", "write", "exited", "failed"},
         server' \in {"handshake", "read"} => conn \in Client,
         server' = "write" => server = "write",
         queue' \in Seq(Client), finished' \subseteq Client, lost' \subseteq Client
  PROVE  IInv'
<1>1. client \in [Client -> {"new", "handshake", "packet", "write", "read", "drain", "closed"}]
  BY DEF IInv, TypeOK
<1>2. \A d \in Client : client'[d] = IF d = c THEN at ELSE client[d]
  BY <1>1
<1>3. TypeOK'
  BY Zenon DEF IInv, TypeOK, totals
<1>4. RecordInv'
  BY <1>2 DEF IInv, RecordInv
<1>5. PlaceInv'
  BY <1>2 DEF IInv, PlaceInv
<1>6. CheckInv'
  BY DEF IInv, CheckInv
<1> QED
  BY <1>3, <1>4, <1>5, <1>6 DEF IInv

(* The steps of a client that only change its place.                       *)
LEMMA StepPlace ==
  ASSUME IInv, NEW c \in Client,
         Connect(c) \/ ConnectFails(c) \/ Refuse(c) \/ WriteFails(c) \/ ReadFails(c) \/ Close(c) \/ Kill(c)
  PROVE  IInv'
<1>0. queue \in Seq(Client) /\ Append(queue, c) \in Seq(Client) /\ finished \subseteq Client /\ lost \subseteq Client
  <2>1. queue \in Seq(Client) /\ finished \subseteq Client /\ lost \subseteq Client
    BY SMTT(30) DEF IInv, TypeOK
  <2> QED
    BY <2>1
<1>1. /\ server \in {"accept", "handshake", "read", "write", "exited", "failed"}
      /\ server \in {"handshake", "read"} => conn \in Client
  BY DEF IInv, TypeOK, PlaceInv
<1>2. CASE Connect(c)
  <2>1. client[c] = "new" /\ i[c] < packets
    BY <1>2 DEF Connect, IInv, PlaceInv
  <2>2. CASE client' = [client EXCEPT ![c] = "closed"] /\ UNCHANGED queue
    BY <1>0, <1>1, <1>2, <2>2, Moves, Zenon DEF Connect
  <2>3. CASE client' = [client EXCEPT ![c] = "handshake"] /\ queue' = Append(queue, c)
    BY <1>0, <1>1, <1>2, <2>1, <2>3, Moves, Zenon DEF Connect
  <2> QED
    BY <1>2, <2>2, <2>3 DEF Connect, Goes
<1>3. CASE ConnectFails(c) \/ Refuse(c) \/ ReadFails(c) \/ Close(c) \/ Kill(c)
  <2>1. /\ client' = [client EXCEPT ![c] = "closed"]
        /\ UNCHANGED <<server, conn, rxlen, queue, finished, i, todo, totals, msg_idx, errors, up, down>>
        /\ lost' \in {lost, lost \cup {c}}
    BY <1>3 DEF ConnectFails, Refuse, ReadFails, Close, Kill, Goes, svars
  <2> QED
    BY <1>0, <1>1, <2>1, Moves, Zenon
<1>4. CASE WriteFails(c)
  BY <1>0, <1>1, <1>4, Moves, Zenon DEF WriteFails, Goes, svars
<1> QED
  BY <1>2, <1>3, <1>4

(* Starting a packet preserves the invariant.                              *)
LEMMA StepStartPacket ==
  ASSUME IInv, NEW c \in Client, NEW random \in Random, StartPacket(c, random) PROVE IInv'
<1> DEFINE len == TxLen(random)
           at == IF len = 0 THEN "drain" ELSE "write"
<1>1. /\ client[c] = "packet" /\ client' = [client EXCEPT ![c] = at]
      /\ total_bytes_sent' = [total_bytes_sent EXCEPT ![c] = total_bytes_sent[c] + len]
      /\ todo' = [todo EXCEPT ![c] = len]
      /\ UNCHANGED <<server, conn, rxlen, queue, finished, i, total_bytes_received, msg_idx, errors, up, down, lost>>
  BY DEF StartPacket, Goes, svars
<1>2. len \in Multiple /\ len \in 0 .. MaxBufSize /\ len \in Nat
  BY TxLenMultiple DEF Multiple
<1>3. at \in {"drain", "write"} /\ (at = "write" => len # 0)
  OBVIOUS
<1> HIDE DEF len, at
<1>4. /\ \A d \in Client : client'[d] = IF d = c THEN at ELSE client[d]
      /\ \A d \in Client : todo'[d] = IF d = c THEN len ELSE todo[d]
  BY <1>1 DEF IInv, TypeOK
<1>5. TypeOK'
  <2>0. total_bytes_sent[c] + len \in Nat
    <3>1. total_bytes_sent[c] \in Nat
      BY DEF IInv, TypeOK
    <3> QED
      BY <1>2, <3>1
  <2>1. total_bytes_sent' \in [Client -> Nat] /\ todo' \in [Client -> 0 .. MaxBufSize]
    BY <1>1, <1>2, <2>0, SMTT(30) DEF IInv, TypeOK
  <2>2. client' \in [Client -> {"new", "handshake", "packet", "write", "read", "drain", "closed"}]
    BY <1>1, <1>3, SMTT(30) DEF IInv, TypeOK
  <2> QED
    BY <1>1, <2>1, <2>2, Zenon DEF IInv, TypeOK
<1>6. RecordInv'
  BY <1>1, <1>2, <1>3, <1>4 DEF IInv, RecordInv
<1>7. PlaceInv' /\ CheckInv'
  BY <1>1, <1>3, <1>4 DEF IInv, PlaceInv, CheckInv
<1> QED
  BY <1>5, <1>6, <1>7 DEF IInv

(* Passing on a record of a packet preserves the invariant.                *)
LEMMA StepWriteRecord == ASSUME IInv, NEW c \in Client, WriteRecord(c) PROVE IInv'
<1> DEFINE len == IF todo[c] < RecordMax THEN todo[c] ELSE RecordMax
           at == IF len = todo[c] THEN "read" ELSE "write"
<1>1. /\ client[c] = "write" /\ client' = [client EXCEPT ![c] = at]
      /\ up' = [up EXCEPT ![c] = Append(up[c], len)]
      /\ todo' = [todo EXCEPT ![c] = todo[c] - len]
      /\ UNCHANGED <<server, conn, rxlen, queue, finished, i, totals, msg_idx, errors, down, lost>>
  BY DEF WriteRecord, Goes, svars
<1>2. todo[c] \in Multiple /\ todo[c] # 0 /\ todo[c] \in 0 .. MaxBufSize
  BY <1>1 DEF IInv, TypeOK, RecordInv
<1>3. len \in Record /\ todo[c] - len \in Multiple /\ (todo[c] - len = 0 <=> len = todo[c])
  BY <1>2, RecordCut
<1>4. at \in {"read", "write"} /\ (at = "write" => len # todo[c])
  OBVIOUS
<1> HIDE DEF len, at
<1>5. /\ \A d \in Client : client'[d] = IF d = c THEN at ELSE client[d]
      /\ \A d \in Client : todo'[d] = IF d = c THEN todo[c] - len ELSE todo[d]
  BY <1>1 DEF IInv, TypeOK
<1>6. up' \in [Client -> Seq(Record)] /\ up' \in [Client -> Seq(1 .. RecordMax)]
  <2>1. up[c] \in Seq(Record) /\ up[c] \in Seq(1 .. RecordMax) /\ len \in 1 .. RecordMax
    BY <1>3 DEF IInv, TypeOK, RecordInv, Record
  <2>2. Append(up[c], len) \in Seq(Record) /\ Append(up[c], len) \in Seq(1 .. RecordMax)
    BY <1>3, <2>1
  <2> QED
    BY <1>1, <2>2, SMTT(30) DEF IInv, TypeOK, RecordInv
<1>7. TypeOK'
  <2>1. todo[c] - len \in 0 .. MaxBufSize
    BY <1>2, <1>3, SizeAssumption DEF Multiple, Record
  <2>2. todo' \in [Client -> 0 .. MaxBufSize]
    BY <1>1, <2>1 DEF IInv, TypeOK
  <2>3. client' \in [Client -> {"new", "handshake", "packet", "write", "read", "drain", "closed"}]
    BY <1>1, <1>4, SMTT(30) DEF IInv, TypeOK
  <2> QED
    BY <1>1, <1>6, <2>2, <2>3, Zenon DEF IInv, TypeOK, totals
<1>8. RecordInv'
  BY <1>1, <1>3, <1>4, <1>5, <1>6 DEF IInv, RecordInv
<1>9. PlaceInv' /\ CheckInv'
  BY <1>1, <1>4, <1>5 DEF IInv, PlaceInv, CheckInv
<1> QED
  BY <1>7, <1>8, <1>9 DEF IInv

(* Reading an echoed record, with the comparison, preserves the invariant. *)
LEMMA StepReadEcho == ASSUME IInv, NEW c \in Client, ReadEcho(c) PROVE IInv'
<1> DEFINE len == Head(down[c])
           wrong == Cardinality(Wrong(c, len))
<1>1. /\ down[c] # << >> /\ down' = [down EXCEPT ![c] = Tail(down[c])]
      /\ total_bytes_received' = [total_bytes_received EXCEPT ![c] = total_bytes_received[c] + len]
      /\ errors' = [errors EXCEPT ![c] = errors[c] + wrong]
      /\ msg_idx' = [msg_idx EXCEPT ![c] = (msg_idx[c] + len) % 4]
      /\ UNCHANGED <<server, conn, rxlen, queue, finished, todo, total_bytes_sent, up, lost>>
  BY DEF ReadEcho, Received, NextIdx, svars
<1>2. \/ /\ client[c] = "read" /\ i' = [i EXCEPT ![c] = i[c] + 1]
         /\ client' = [client EXCEPT ![c] = IF i[c] + 1 < packets THEN "packet" ELSE "drain"]
      \/ UNCHANGED <<i, client>>
  BY DEF ReadEcho, Goes
<1>3. down[c] \in Seq(Record) /\ down[c] \in Seq(1 .. RecordMax)
  BY DEF IInv, TypeOK, RecordInv
<1>4. len \in Record /\ Tail(down[c]) \in Seq(Record) /\ Tail(down[c]) \in Seq(1 .. RecordMax)
  BY <1>1, <1>3, HeadTail, Zenon
<1>5. len \in Nat /\ len % 4 = 0
  BY <1>4, SizeAssumption DEF Record
<1>6. wrong = 0
  BY <1>5, NoneWrong DEF IInv, CheckInv
<1> HIDE DEF len, wrong
<1>7. (msg_idx[c] + len) % 4 = 0 /\ errors[c] + wrong = 0
  <2>1. msg_idx[c] = 0 /\ errors[c] = 0
    BY DEF IInv, CheckInv
  <2> QED
    BY <1>5, <1>6, <2>1
<1>8. /\ i' \in [Client -> 0 .. packets]
      /\ client' \in [Client -> {"new", "handshake", "packet", "write", "read", "drain", "closed"}]
      /\ \A d \in Client : client'[d] \in {"packet", "write", "read", "handshake", "new"} => i'[d] < packets
      /\ \A d \in Client : client'[d] = "write" => client[d] = "write"
  <2>0. /\ i \in [Client -> 0 .. packets]
        /\ client \in [Client -> {"new", "handshake", "packet", "write", "read", "drain", "closed"}]
        /\ \A d \in Client : client[d] \in {"packet", "write", "read", "handshake", "new"} => i[d] < packets
    BY SMTT(30) DEF IInv, TypeOK, PlaceInv
  <2>1. CASE UNCHANGED <<i, client>>
    BY <2>0, <2>1
  <2>2. CASE /\ client[c] = "read" /\ i' = [i EXCEPT ![c] = i[c] + 1]
             /\ client' = [client EXCEPT ![c] = IF i[c] + 1 < packets THEN "packet" ELSE "drain"]
    <3>1. i[c] \in Nat /\ i[c] < packets
      BY <2>0, <2>2
    <3>2. \A d \in Client : i'[d] = IF d = c THEN i[c] + 1 ELSE i[d]
      BY <2>0, <2>2
    <3>3. i' \in [Client -> 0 .. packets]
      BY <2>0, <2>2, <3>1, SizeAssumption
    <3>4. /\ client' \in [Client -> {"new", "handshake", "packet", "write", "read", "drain", "closed"}]
          /\ \A d \in Client \ {c} : client'[d] = client[d]
          /\ client'[c] \in {"packet", "drain"} /\ (client'[c] = "packet" => i[c] + 1 < packets)
      BY <2>0, <2>2
    <3> QED
      BY <2>0, <3>2, <3>3, <3>4
  <2> QED
    BY <1>2, <2>1, <2>2
<1>9. down' \in [Client -> Seq(Record)] /\ down' \in [Client -> Seq(1 .. RecordMax)]
  BY <1>1, <1>4, Zenon DEF IInv, TypeOK, RecordInv
<1>10. TypeOK'
  <2>0. total_bytes_received[c] + len \in Nat
    <3>1. total_bytes_received[c] \in Nat
      BY DEF IInv, TypeOK
    <3> QED
      BY <1>5, <3>1
  <2>1. total_bytes_received' \in [Client -> Nat]
    BY <1>1, <2>0 DEF IInv, TypeOK
  <2>2. msg_idx' = [msg_idx EXCEPT ![c] = 0] /\ errors' = [errors EXCEPT ![c] = 0]
    BY <1>1, <1>7, Zenon
  <2>3. msg_idx' \in [Client -> 0 .. 3] /\ errors' \in [Client -> Nat]
    <3>1. msg_idx \in [Client -> 0 .. 3] /\ errors \in [Client -> Nat]
      BY SMTT(30) DEF IInv, TypeOK
    <3>2. 0 \in 0 .. 3 /\ 0 \in Nat
      OBVIOUS
    <3> QED
      BY <2>2, <3>1, <3>2
  <2> QED
    BY <1>1, <1>8, <1>9, <2>1, <2>3, Zenon DEF IInv, TypeOK
<1>11. RecordInv'
  BY <1>1, <1>8, <1>9 DEF IInv, RecordInv
<1>12. PlaceInv'
  BY <1>1, <1>8 DEF IInv, PlaceInv
<1>13. CheckInv'
  BY <1>1, <1>7 DEF IInv, TypeOK, CheckInv
<1> QED
  BY <1>10, <1>11, <1>12, <1>13 DEF IInv

(* The steps of the server that move it, but no data.                      *)
LEMMA StepServer ==
  ASSUME IInv, Accept \/ AcceptError \/ HandshakeFails \/ ServerReadEnds PROVE IInv'
<1>1. queue \in Seq(Client) /\ (queue # << >> => Head(queue) \in Client /\ Tail(queue) \in Seq(Client))
  BY DEF IInv, TypeOK
<1>2. /\ server' \in {"accept", "handshake", "exited", "failed"}
      /\ conn' \in Client \cup {None}
      /\ server' = "handshake" => conn' \in Client
      /\ queue' \in Seq(Client) /\ finished' \subseteq Client /\ lost' \subseteq Client
      /\ UNCHANGED <<rxlen, cvars, up, down>>
  <2>1. CASE Accept
    BY <1>1, <2>1, Zenon DEF Accept, IInv, TypeOK
  <2>2. CASE AcceptError \/ HandshakeFails
    BY <1>1, <2>2 DEF AcceptError, HandshakeFails, IInv, TypeOK
  <2>3. CASE ServerReadEnds
    BY <1>1, <2>3 DEF ServerReadEnds, IInv, TypeOK, PlaceInv
  <2> QED
    BY <2>1, <2>2, <2>3
<1>3. TypeOK'
  BY <1>2, Zenon DEF IInv, TypeOK, cvars, totals
<1>4. RecordInv' /\ PlaceInv' /\ CheckInv'
  BY <1>2 DEF IInv, RecordInv, PlaceInv, CheckInv, cvars
<1> QED
  BY <1>3, <1>4 DEF IInv

(* A completed handshake preserves the invariant.                          *)
LEMMA StepHandshake == ASSUME IInv, Handshake PROVE IInv'
<1>1. conn \in Client /\ i[conn] < packets
  BY DEF Handshake, IInv, PlaceInv
<1>2. queue \in Seq(Client) /\ finished \subseteq Client /\ lost \subseteq Client
  BY DEF IInv, TypeOK
<1> QED
  BY <1>1, <1>2, Moves, Zenon DEF Handshake, Goes

(* Reading a record on the server preserves the invariant.                 *)
LEMMA StepServerRead == ASSUME IInv, ServerRead PROVE IInv'
<1>1. conn \in Client /\ up[conn] # << >>
  BY DEF ServerRead, IInv, PlaceInv
<1>2. up[conn] \in Seq(Record) /\ up[conn] \in Seq(1 .. RecordMax)
  BY <1>1 DEF IInv, TypeOK, RecordInv
<1>3. /\ Head(up[conn]) \in Record /\ Head(up[conn]) \in 0 .. RecordMax
      /\ Tail(up[conn]) \in Seq(Record) /\ Tail(up[conn]) \in Seq(1 .. RecordMax)
  <2>1. /\ Head(up[conn]) \in Record
        /\ Tail(up[conn]) \in Seq(Record) /\ Tail(up[conn]) \in Seq(1 .. RecordMax)
    BY <1>1, <1>2, HeadTail, Zenon
  <2>2. \A n \in Record : n \in 0 .. RecordMax
    BY SizeAssumption DEF Record
  <2> QED
    BY <2>1, <2>2
<1>4. /\ rxlen' = Head(up[conn]) /\ up' = [up EXCEPT ![conn] = Tail(up[conn])] /\ server' = "write"
      /\ UNCHANGED <<conn, queue, finished, cvars, down, lost>>
  BY DEF ServerRead
<1>5. up' \in [Client -> Seq(Record)] /\ up' \in [Client -> Seq(1 .. RecordMax)]
  BY <1>3, <1>4, Zenon DEF IInv, TypeOK, RecordInv
<1>6. TypeOK'
  BY <1>3, <1>4, <1>5, Zenon DEF IInv, TypeOK, cvars, totals
<1>7. RecordInv'
  BY <1>3, <1>4, <1>5 DEF IInv, RecordInv, cvars
<1>8. PlaceInv' /\ CheckInv'
  BY <1>1, <1>4 DEF IInv, PlaceInv, CheckInv, cvars
<1> QED
  BY <1>6, <1>7, <1>8 DEF IInv

(* Echoing a record preserves the invariant.                               *)
LEMMA StepServerWrite == ASSUME IInv, ServerWrite PROVE IInv'
<1>1. conn \in Client /\ rxlen \in Record /\ rxlen \in 1 .. RecordMax
  BY DEF ServerWrite, IInv, PlaceInv, RecordInv, Record
<1>2. down[conn] \in Seq(Record) /\ down[conn] \in Seq(1 .. RecordMax)
  BY <1>1 DEF IInv, TypeOK, RecordInv
<1>3. Append(down[conn], rxlen) \in Seq(Record) /\ Append(down[conn], rxlen) \in Seq(1 .. RecordMax)
  BY <1>1, <1>2
<1>4. /\ down' \in {down, [down EXCEPT ![conn] = Append(down[conn], rxlen)]}
      /\ rxlen' = 0 /\ server' = "read" /\ UNCHANGED <<conn, queue, finished, cvars, up, lost>>
  BY DEF ServerWrite
<1>5. down' \in [Client -> Seq(Record)] /\ down' \in [Client -> Seq(1 .. RecordMax)]
  BY <1>3, <1>4, Zenon DEF IInv, TypeOK, RecordInv
<1>6. TypeOK'
  <2>1. 0 \in 0 .. RecordMax
    BY SizeAssumption
  <2>2. rxlen' \in 0 .. RecordMax
    BY <1>4, <2>1
  <2> QED
    BY <1>4, <1>5, <2>2, SMTT(30) DEF IInv, TypeOK, cvars, totals
<1>7. RecordInv'
  BY <1>4, <1>5 DEF IInv, RecordInv, cvars
<1>8. PlaceInv' /\ CheckInv'
  BY <1>1, <1>4 DEF IInv, PlaceInv, CheckInv, cvars
<1> QED
  BY <1>6, <1>7, <1>8 DEF IInv

(* Every step preserves the invariant.                                     *)
LEMMA NextIInv == IInv /\ [Next]_vars => IInv'
<1> SUFFICES ASSUME IInv, [Next]_vars PROVE IInv'
  OBVIOUS
<1>1. CASE UNCHANGED vars
  BY <1>1 DEF vars, cvars, svars, totals, IInv, TypeOK, RecordInv, PlaceInv, CheckInv
<1>2. CASE Next
  BY <1>2, StepPlace, StepStartPacket, StepWriteRecord, StepReadEcho, StepServer, StepHandshake,
     StepServerRead, StepServerWrite DEF Next, ServerStep, ClientStep
<1> QED
  BY <1>1, <1>2

(* The invariant holds in every state of every run of clients and server.  *)
THEOREM Invariance == Spec => []IInv
BY InitIInv, NextIInv, PTL DEF Spec

-----------------------------------------------------------------------------
(* Where the bytes are.  What a buffer holds is the last of the sums of    *)
(* its first records.  That these sums exist and are unique is shown by    *)
(* looking at the least number of records for which it fails.              *)

(* A non-empty set of natural numbers has a least element.                 *)
LEMMA Least ==
  ASSUME NEW S \in SUBSET Nat, S # {}
  PROVE  \E n \in S : \A m \in S : n <= m
<1> DEFINE R == OpToRel(<, Nat)
<1>1. IsWellFoundedOn(R, Nat)
  BY NatLessThanWellFounded, Zenon
<1>2. \A x, y \in Nat : <<x, y>> \in R <=> x < y
  BY DEF OpToRel
<1> HIDE DEF R
<1>3. PICK n \in S : \A m \in S : ~ (<<m, n>> \in R)
  BY <1>1, WFMin, Zenon
<1>4. ASSUME NEW m \in S PROVE n <= m
  <2>1. ~ (m < n)
    BY <1>2, <1>3, Zenon
  <2> QED
    BY <2>1
<1> QED
  BY <1>4

(* The sums of the first records, up to n of them.                         *)
Sums(s, n, g) == g = [k \in 0 .. n |-> IF k = 0 THEN 0 ELSE g[k - 1] + s[k]]

(* Sums exist: if not, take the least number of records that has none.     *)
LEMMA SumsExist ==
  ASSUME NEW s \in Seq(Nat)
  PROVE  \E g \in [0 .. Len(s) -> Nat] : Sums(s, Len(s), g)
<1> DEFINE Has(n) == \E g \in [0 .. n -> Nat] : Sums(s, n, g)
           Without == {n \in 0 .. Len(s) : ~ Has(n)}
<1> SUFFICES ASSUME Without # {} PROVE FALSE
  OBVIOUS
<1>1. Without \subseteq Nat
  OBVIOUS
<1> HIDE DEF Without
<1>2. PICK n \in Without : \A m \in Without : n <= m
  BY <1>1, Least, SMTT(30)
<1>3. n \in 0 .. Len(s) /\ ~ Has(n)
  BY DEF Without
<1>4. CASE n = 0
  <2>1. [k \in 0 .. 0 |-> 0] \in [0 .. n -> Nat] /\ Sums(s, n, [k \in 0 .. 0 |-> 0])
    BY <1>4 DEF Sums
  <2> QED
    BY <1>3, <2>1, Zenon
<1>5. CASE n # 0
  <2>1. n - 1 \in 0 .. Len(s) /\ n - 1 \notin Without
    BY <1>2, <1>3, <1>5
  <2>2. PICK g \in [0 .. n - 1 -> Nat] : Sums(s, n - 1, g)
    BY <2>1 DEF Without
  <2> DEFINE h == [k \in 0 .. n |-> IF k = n THEN g[n - 1] + s[n] ELSE g[k]]
  <2>3. s[n] \in Nat /\ g[n - 1] \in Nat
    BY <1>3, <1>5
  <2>4. h \in [0 .. n -> Nat]
    BY <1>3, <1>5, <2>3
  <2>5. ASSUME NEW k \in 0 .. n PROVE h[k] = IF k = 0 THEN 0 ELSE h[k - 1] + s[k]
    <3>1. CASE k = n
      BY <1>3, <1>5, <3>1
    <3>2. CASE k # n
      <4>1. k \in 0 .. n - 1 /\ g[k] = IF k = 0 THEN 0 ELSE g[k - 1] + s[k]
        BY <1>3, <2>2, <3>2, SMTT(30) DEF Sums
      <4> QED
        BY <1>3, <3>2, <4>1
    <3> QED
      BY <3>1, <3>2
  <2>6. Sums(s, n, h)
    BY <2>5, SMTT(30) DEF Sums
  <2> HIDE DEF h
  <2> QED
    BY <1>3, <2>4, <2>6, Zenon
<1> QED
  BY <1>4, <1>5

(* There is only one: two differ first at some number of records.          *)
LEMMA SumsUnique ==
  ASSUME NEW s, NEW n \in Nat, NEW g, NEW h, Sums(s, n, g), Sums(s, n, h)
  PROVE  g = h
<1> DEFINE Differ == {k \in 0 .. n : g[k] # h[k]}
<1>1. /\ g = [k \in 0 .. n |-> g[k]] /\ h = [k \in 0 .. n |-> h[k]]
      /\ \A k \in 0 .. n : g[k] = IF k = 0 THEN 0 ELSE g[k - 1] + s[k]
      /\ \A k \in 0 .. n : h[k] = IF k = 0 THEN 0 ELSE h[k - 1] + s[k]
  BY SMTT(30) DEF Sums
<1>2. ASSUME Differ # {} PROVE FALSE
  <2>1. Differ \subseteq Nat
    OBVIOUS
  <2>2. PICK k \in Differ : \A j \in Differ : k <= j
    <3> HIDE DEF Differ
    <3> QED
      BY <1>2, <2>1, Least
  <2>3. k # 0
    BY <1>1, Zenon
  <2>4. k - 1 \in 0 .. n /\ k - 1 \notin Differ
    <3>1. k \in 1 .. n /\ ~ (k <= k - 1)
      BY <2>3
    <3> HIDE DEF Differ
    <3> QED
      BY <2>2, <3>1
  <2>5. g[k - 1] = h[k - 1]
    BY <2>4
  <2> QED
    BY <1>1, <2>3, <2>5, Zenon
<1>3. \A k \in 0 .. n : g[k] = h[k]
  BY <1>2
<1> QED
  BY <1>1, <1>3

(* So Bytes is the last of the sums.                                       *)
LEMMA BytesIs ==
  ASSUME NEW s \in Seq(Nat), NEW g, Sums(s, Len(s), g)
  PROVE  Bytes(s) = g[Len(s)]
<1> DEFINE f == CHOOSE sum : sum = [n \in 0 .. Len(s) |-> IF n = 0 THEN 0 ELSE sum[n - 1] + s[n]]
<1>1. Bytes(s) = f[Len(s)]
  BY Zenon DEF Bytes
<1>2. Sums(s, Len(s), f)
  BY Zenon DEF Sums
<1> HIDE DEF f
<1>3. f = g
  BY <1>2, SumsUnique
<1> QED
  BY <1>1, <1>3

(* An empty buffer holds no bytes.                                         *)
LEMMA BytesEmpty == Bytes(<< >>) = 0
<1>1. << >> \in Seq(Nat) /\ Len(<< >>) = 0
  OBVIOUS
<1>2. Sums(<< >>, 0, [k \in 0 .. 0 |-> 0])
  BY DEF Sums
<1> QED
  BY <1>1, <1>2, BytesIs

(* The bytes are a natural number.                                         *)
LEMMA BytesNat ==
  ASSUME NEW s \in Seq(Nat)
  PROVE  Bytes(s) \in Nat
<1>1. PICK g \in [0 .. Len(s) -> Nat] : Sums(s, Len(s), g)
  BY SumsExist
<1> QED
  BY <1>1, BytesIs

(* A record that enters adds its length.                                   *)
LEMMA BytesAppend ==
  ASSUME NEW s \in Seq(Nat), NEW len \in Nat
  PROVE  Bytes(Append(s, len)) = Bytes(s) + len
<1> DEFINE t == Append(s, len)
           n == Len(s)
<1>1. PICK g \in [0 .. n -> Nat] : Sums(s, n, g)
  BY SumsExist
<1>2. /\ t \in Seq(Nat) /\ Len(t) = n + 1 /\ n \in Nat /\ t[n + 1] = len
      /\ \A k \in 1 .. n : t[k] = s[k]
  OBVIOUS
<1> HIDE DEF t, n
<1> DEFINE h == [k \in 0 .. n + 1 |-> IF k = n + 1 THEN g[n] + len ELSE g[k]]
<1>3. ASSUME NEW k \in 0 .. n + 1 PROVE h[k] = IF k = 0 THEN 0 ELSE h[k - 1] + t[k]
  <2>1. CASE k = n + 1
    BY <1>2, <2>1
  <2>2. CASE k # n + 1
    <3>1. k \in 0 .. n /\ g[k] = IF k = 0 THEN 0 ELSE g[k - 1] + s[k]
      <4>1. k \in 0 .. n
        BY <1>2, <2>2
      <4> QED
        BY <1>1, <4>1, Zenon DEF Sums
    <3>2. h[k] = g[k]
      BY <2>2, Zenon
    <3>3. CASE k = 0
      BY <3>1, <3>2, <3>3, Zenon
    <3>4. CASE k # 0
      <4>1. k - 1 \in 0 .. n + 1 /\ k - 1 # n + 1 /\ k \in 1 .. n
        BY <1>2, <2>2, <3>4
      <4>2. h[k - 1] = g[k - 1] /\ t[k] = s[k]
        BY <1>2, <4>1, Zenon
      <4> QED
        BY <3>1, <3>2, <3>4, <4>2, Zenon
    <3> QED
      BY <3>3, <3>4, Zenon
  <2> QED
    BY <2>1, <2>2
<1>4. Sums(t, n + 1, h)
  BY <1>3 DEF Sums
<1>5. h[n + 1] = g[n] + len
  BY <1>2
<1> HIDE DEF h
<1>6. Bytes(t) = h[n + 1]
  BY <1>2, <1>4, BytesIs
<1>7. Bytes(s) = g[n]
  BY <1>1, BytesIs DEF n
<1> QED
  BY <1>5, <1>6, <1>7 DEF t

(* A record that leaves takes its length away.                             *)
LEMMA BytesTail ==
  ASSUME NEW s \in Seq(Nat), s # << >>
  PROVE  Bytes(s) = Head(s) + Bytes(Tail(s))
<1> DEFINE t == Tail(s)
           n == Len(t)
           x == Head(s)
<1>1. /\ t \in Seq(Nat) /\ Len(s) = n + 1 /\ n \in Nat /\ x \in Nat /\ s[1] = x
      /\ \A k \in 1 .. n : t[k] = s[k + 1]
  OBVIOUS
<1>2. PICK g \in [0 .. n -> Nat] : Sums(t, n, g)
  BY <1>1, SumsExist
<1> HIDE DEF t, n, x
<1>3. g[0] = 0 /\ \A k \in 1 .. n : g[k] = g[k - 1] + t[k]
  <2>1. g = [k \in 0 .. n |-> IF k = 0 THEN 0 ELSE g[k - 1] + t[k]]
    BY <1>2, Zenon DEF Sums
  <2>2. \A k \in 0 .. n : g[k] = IF k = 0 THEN 0 ELSE g[k - 1] + t[k]
    BY <2>1, Zenon
  <2>3. n \in Nat
    BY <1>1
  <2>4. 0 \in 0 .. n /\ \A k \in 1 .. n : k \in 0 .. n /\ k # 0
    BY <2>3
  <2> QED
    BY <2>2, <2>4, Zenon
<1> DEFINE h == [k \in 0 .. n + 1 |-> IF k = 0 THEN 0 ELSE x + g[k - 1]]
<1>4. ASSUME NEW k \in 0 .. n + 1 PROVE h[k] = IF k = 0 THEN 0 ELSE h[k - 1] + s[k]
  <2>1. CASE k = 0
    BY <2>1
  <2>2. CASE k = 1
    BY <1>1, <1>3, <2>2
  <2>3. CASE k \in 2 .. n + 1
    <3> DEFINE j == k - 1
    <3>1. j \in 1 .. n /\ k = j + 1 /\ k # 0 /\ j # 0 /\ j \in 0 .. n + 1 /\ j - 1 \in 0 .. n
      BY <1>1, <2>3
    <3> HIDE DEF j
    <3>2. g[j] = g[j - 1] + t[j] /\ t[j] = s[k]
      BY <1>1, <1>3, <3>1, SMTT(30)
    <3>3. g[j - 1] \in Nat /\ s[k] \in Nat
      BY <1>1, <3>1, SMTT(30)
    <3>4. h[k] = x + g[j] /\ h[j] = x + g[j - 1] /\ k - 1 = j
      BY <1>1, <3>1
    <3> HIDE DEF h
    <3> QED
      BY <1>1, <3>1, <3>2, <3>3, <3>4
  <2> QED
    BY <1>1, <2>1, <2>2, <2>3
<1>5. Sums(s, n + 1, h)
  BY <1>4, SMTT(30) DEF Sums
<1>6. h[n + 1] = x + g[n]
  BY <1>1
<1> HIDE DEF h
<1>7. Bytes(s) = h[n + 1]
  BY <1>1, <1>5, BytesIs
<1>8. Bytes(t) = g[n]
  BY <1>1, <1>2, BytesIs DEF n
<1> QED
  BY <1>6, <1>7, <1>8 DEF t, x

-----------------------------------------------------------------------------
(* The bytes a client sent and has not received.                           *)
Owed(c) == todo[c] + Bytes(up[c]) + (IF c = conn THEN rxlen ELSE 0) + Bytes(down[c])

(* rxbuf is in use only between SSL_read and SSL_write, a packet is        *)
(* started only when the one before has been passed on, and a connection   *)
(* that is not lost owes its client what the totals say.                   *)
FlowInv ==
  /\ server # "write" => rxlen = 0
  /\ \A c \in Client : client[c] \in {"new", "handshake", "packet", "read"} => todo[c] = 0
  /\ \A c \in Client : client[c] \in {"new", "handshake"} =>
                         total_bytes_sent[c] = 0 /\ total_bytes_received[c] = 0
  /\ \A c \in Client \ lost : total_bytes_sent[c] = Owed(c) + total_bytes_received[c]
  /\ \A c \in Client \ lost : client[c] = "closed" => total_bytes_received[c] = total_bytes_sent[c]

(* A sequence over a set is a sequence over any larger one.                *)
LEMMA Wider == ASSUME NEW S, NEW T, S \subseteq T, NEW s \in Seq(S) PROVE s \in Seq(T)
<1>1. s \in [1 .. Len(s) -> T] /\ Len(s) \in Nat
  OBVIOUS
<1> QED
  BY <1>1

(* All the quantities are natural numbers.                                 *)
LEMMA OwedNat ==
  ASSUME IInv, NEW c \in Client
  PROVE  /\ todo[c] \in Nat /\ rxlen \in Nat /\ Bytes(up[c]) \in Nat /\ Bytes(down[c]) \in Nat
         /\ total_bytes_sent[c] \in Nat /\ total_bytes_received[c] \in Nat
         /\ up[c] \in Seq(Nat) /\ down[c] \in Seq(Nat)
<1>1. todo[c] \in Nat /\ rxlen \in Nat /\ total_bytes_sent[c] \in Nat /\ total_bytes_received[c] \in Nat
  BY SizeAssumption DEF IInv, TypeOK
<1>2. up[c] \in Seq(1 .. RecordMax) /\ down[c] \in Seq(1 .. RecordMax)
  BY DEF IInv, TypeOK
<1>3. 1 .. RecordMax \subseteq Nat
  BY SizeAssumption
<1>4. up[c] \in Seq(Nat) /\ down[c] \in Seq(Nat)
  BY <1>2, <1>3, Wider, Zenon
<1> QED
  BY <1>1, <1>4, BytesNat

(* Nothing has been sent at the start.                                     *)
LEMMA InitFlow == Init => FlowInv
<1> SUFFICES ASSUME Init PROVE FlowInv
  OBVIOUS
<1>1. \A c \in Client : Owed(c) = 0
  BY BytesEmpty, SMTT(30) DEF Init, Owed
<1> QED
  BY <1>1 DEF Init, FlowInv

(* The steps of a client that only change its place.                       *)
LEMMA FlowPlace ==
  ASSUME IInv, FlowInv, NEW c \in Client,
         Connect(c) \/ ConnectFails(c) \/ Refuse(c) \/ WriteFails(c) \/ ReadFails(c) \/ Close(c) \/ Kill(c)
  PROVE  FlowInv'
<1>1. /\ UNCHANGED <<server, conn, rxlen, todo, total_bytes_sent, total_bytes_received, up, down>>
      /\ \A d \in Client \ {c} : client'[d] = client[d]
      /\ client'[c] \in {"handshake", "drain", "closed"}
      /\ client'[c] = "handshake" => client[c] = "new"
      /\ lost' \in {lost, lost \cup {c}}
  BY SMTT(30) DEF IInv, TypeOK, Connect, ConnectFails, Refuse, WriteFails, ReadFails, Close, Kill,
     Goes, svars, totals
<1>2. client'[c] = "closed" =>
        \/ c \in lost' \/ client[c] \in {"new", "handshake"}
        \/ ~ (total_bytes_sent[c] > total_bytes_received[c])
  BY DEF IInv, TypeOK, Connect, ConnectFails, Refuse, WriteFails, ReadFails, Close, Kill, Goes, MoreToCome
<1>3. \A d \in Client : Owed(d)' = Owed(d)
  BY <1>1 DEF Owed
<1>4. c \notin lost => total_bytes_sent[c] >= total_bytes_received[c]
  BY OwedNat, SMTT(30) DEF FlowInv, Owed
<1>5. client'[c] = "closed" /\ c \notin lost' => total_bytes_received[c] = total_bytes_sent[c]
  <2>1. total_bytes_sent[c] \in Nat /\ total_bytes_received[c] \in Nat
    BY OwedNat
  <2> QED
    BY <1>1, <1>2, <1>4, <2>1 DEF FlowInv
<1> QED
  BY <1>1, <1>3, <1>5, SMTT(30) DEF FlowInv

(* Starting a packet: the one before has been passed on.                   *)
LEMMA FlowStartPacket ==
  ASSUME IInv, FlowInv, NEW c \in Client, NEW random \in Random, StartPacket(c, random)
  PROVE  FlowInv'
<1> DEFINE len == TxLen(random)
<1>1. /\ client[c] = "packet"
      /\ client' = [client EXCEPT ![c] = IF len = 0 THEN "drain" ELSE "write"]
      /\ total_bytes_sent' = [total_bytes_sent EXCEPT ![c] = total_bytes_sent[c] + len]
      /\ todo' = [todo EXCEPT ![c] = len]
      /\ UNCHANGED <<server, conn, rxlen, total_bytes_received, up, down, lost>>
  BY DEF StartPacket, Goes, svars
<1>2. len \in Nat
  BY TxLenMultiple DEF Multiple
<1> HIDE DEF len
<1>3. /\ \A d \in Client \ {c} : /\ client'[d] = client[d] /\ todo'[d] = todo[d]
                                 /\ total_bytes_sent'[d] = total_bytes_sent[d]
      /\ client'[c] \in {"drain", "write"} /\ todo'[c] = len
      /\ total_bytes_sent'[c] = total_bytes_sent[c] + len
  BY <1>1 DEF IInv, TypeOK
<1>4. \A d \in Client \ {c} : Owed(d)' = Owed(d)
  BY <1>1, <1>3 DEF Owed
<1>5. Owed(c)' = Owed(c) + len
  <2>1. todo[c] = 0
    BY <1>1 DEF FlowInv
  <2>2. rxlen \in Nat /\ Bytes(up[c]) \in Nat /\ Bytes(down[c]) \in Nat
    BY OwedNat
  <2>3. Owed(c)' = len + Bytes(up[c]) + (IF c = conn THEN rxlen ELSE 0) + Bytes(down[c])
    BY <1>1, <1>3 DEF Owed
  <2> QED
    BY <1>2, <2>1, <2>2, <2>3 DEF Owed
<1>6. c \notin lost => total_bytes_sent'[c] = Owed(c)' + total_bytes_received'[c]
  <2>1. Owed(c) \in Nat /\ total_bytes_sent[c] \in Nat /\ total_bytes_received[c] \in Nat
    BY OwedNat DEF Owed
  <2> QED
    BY <1>1, <1>2, <1>3, <1>5, <2>1 DEF FlowInv
<1> QED
  BY <1>1, <1>3, <1>4, <1>6 DEF FlowInv

(* Passing on a record moves bytes from the packet to the buffer.          *)
LEMMA FlowWriteRecord == ASSUME IInv, FlowInv, NEW c \in Client, WriteRecord(c) PROVE FlowInv'
<1> DEFINE len == IF todo[c] < RecordMax THEN todo[c] ELSE RecordMax
<1>1. /\ client' = [client EXCEPT ![c] = IF len = todo[c] THEN "read" ELSE "write"]
      /\ up' = [up EXCEPT ![c] = Append(up[c], len)]
      /\ todo' = [todo EXCEPT ![c] = todo[c] - len]
      /\ UNCHANGED <<server, conn, rxlen, total_bytes_sent, total_bytes_received, down, lost>>
  BY DEF WriteRecord, Goes, svars, totals
<1>2. len \in Nat
  BY OwedNat, SizeAssumption
<1> HIDE DEF len
<1>3. /\ \A d \in Client \ {c} : client'[d] = client[d] /\ todo'[d] = todo[d] /\ up'[d] = up[d]
      /\ client'[c] = (IF len = todo[c] THEN "read" ELSE "write")
      /\ todo'[c] = todo[c] - len /\ up'[c] = Append(up[c], len)
  BY <1>1 DEF IInv, TypeOK
<1>4. \A d \in Client \ {c} : Owed(d)' = Owed(d)
  BY <1>1, <1>3 DEF Owed
<1>5. Owed(c)' = Owed(c)
  <2>1. Bytes(up'[c]) = Bytes(up[c]) + len
    BY <1>2, <1>3, OwedNat, BytesAppend
  <2> QED
    BY <1>1, <1>2, <1>3, <2>1, OwedNat, SMTT(30) DEF Owed
<1>6. len = todo[c] => todo'[c] = 0
  BY <1>2, <1>3
<1> QED
  BY <1>1, <1>3, <1>4, <1>5, <1>6 DEF FlowInv

(* Reading an echo counts the bytes it takes from the buffer.              *)
LEMMA FlowReadEcho == ASSUME IInv, FlowInv, NEW c \in Client, ReadEcho(c) PROVE FlowInv'
<1> DEFINE len == Head(down[c])
<1>1. /\ down[c] # << >> /\ down' = [down EXCEPT ![c] = Tail(down[c])]
      /\ total_bytes_received' = [total_bytes_received EXCEPT ![c] = total_bytes_received[c] + len]
      /\ UNCHANGED <<server, conn, rxlen, todo, total_bytes_sent, up, lost>>
  BY DEF ReadEcho, Received, svars
<1>2. /\ client[c] \in {"read", "drain"}
      /\ \/ client[c] = "read" /\ client' = [client EXCEPT ![c] = IF i[c] + 1 < packets THEN "packet" ELSE "drain"]
         \/ client[c] = "drain" /\ client' = client
  BY DEF ReadEcho, Goes
<1>3. /\ \A d \in Client \ {c} : client'[d] = client[d]
      /\ client'[c] \in {"packet", "drain"} /\ (client'[c] = "packet" => client[c] = "read")
  BY <1>2, SMTT(30) DEF IInv, TypeOK
<1>4. down[c] \in Seq(Nat) /\ len \in Nat /\ Bytes(down[c]) = len + Bytes(Tail(down[c]))
      /\ Tail(down[c]) \in Seq(Nat) /\ Bytes(Tail(down[c])) \in Nat
  <2>1. down[c] \in Seq(Nat)
    BY OwedNat
  <2>2. len \in Nat /\ Tail(down[c]) \in Seq(Nat)
    BY <1>1, <2>1, HeadTail
  <2> QED
    BY <1>1, <2>1, <2>2, BytesTail, BytesNat, Zenon
<1> HIDE DEF len
<1>5. /\ \A d \in Client \ {c} : /\ down'[d] = down[d]
                                 /\ total_bytes_received'[d] = total_bytes_received[d]
      /\ down'[c] = Tail(down[c]) /\ total_bytes_received'[c] = total_bytes_received[c] + len
  BY <1>1 DEF IInv, TypeOK
<1>6. \A d \in Client \ {c} : Owed(d)' = Owed(d)
  BY <1>1, <1>5 DEF Owed
<1>7. Owed(c) = Owed(c)' + len /\ Owed(c)' \in Nat
  <2>1. todo[c] \in Nat /\ rxlen \in Nat /\ Bytes(up[c]) \in Nat
    BY OwedNat
  <2>2. Owed(c)' = todo[c] + Bytes(up[c]) + (IF c = conn THEN rxlen ELSE 0) + Bytes(Tail(down[c]))
    BY <1>1, <1>5 DEF Owed
  <2> QED
    BY <1>4, <2>1, <2>2, SMTT(30) DEF Owed
<1>8. c \notin lost => total_bytes_sent'[c] = Owed(c)' + total_bytes_received'[c]
  <2>1. total_bytes_received[c] \in Nat
    BY OwedNat
  <2> QED
    BY <1>1, <1>4, <1>5, <1>7, <2>1 DEF FlowInv
<1> QED
  BY <1>1, <1>2, <1>3, <1>5, <1>6, <1>8 DEF FlowInv

(* The steps of the server that move it, but no data: rxbuf is empty.  A   *)
(* connection it closes is lost, or its client has received everything.    *)
LEMMA FlowServer ==
  ASSUME IInv, FlowInv, Accept \/ AcceptError \/ Handshake \/ HandshakeFails \/ ServerReadEnds
  PROVE  FlowInv'
<1>1. /\ rxlen = 0 /\ rxlen' = 0 /\ server' # "write"
      /\ UNCHANGED <<todo, total_bytes_sent, total_bytes_received, up, down>>
      /\ lost \subseteq lost'
  BY DEF FlowInv, Accept, AcceptError, Handshake, HandshakeFails, ServerReadEnds, cvars, totals
<1>2. \A c \in Client : client'[c] = client[c] \/ (client[c] = "handshake" /\ client'[c] = "packet")
  BY DEF IInv, TypeOK, PlaceInv, Accept, AcceptError, Handshake, HandshakeFails, ServerReadEnds, cvars, Goes
<1>3. \A c \in Client : Owed(c)' = Owed(c)
  BY <1>1 DEF Owed
<1> QED
  BY <1>1, <1>2, <1>3, SMTT(30) DEF FlowInv

(* The server takes a record into the empty rxbuf.                         *)
LEMMA FlowServerRead == ASSUME IInv, FlowInv, ServerRead PROVE FlowInv'
<1>1. /\ conn \in Client /\ up[conn] # << >> /\ rxlen = 0
      /\ rxlen' = Head(up[conn]) /\ up' = [up EXCEPT ![conn] = Tail(up[conn])] /\ server' = "write"
      /\ UNCHANGED <<conn, client, todo, total_bytes_sent, total_bytes_received, down, lost>>
  BY DEF ServerRead, IInv, PlaceInv, FlowInv, cvars, totals
<1>2. /\ rxlen' \in Nat /\ Bytes(up[conn]) = rxlen' + Bytes(Tail(up[conn]))
      /\ Bytes(Tail(up[conn])) \in Nat
  <2>1. up[conn] \in Seq(Nat)
    BY <1>1, OwedNat
  <2>2. Head(up[conn]) \in Nat /\ Tail(up[conn]) \in Seq(Nat)
    BY <1>1, <2>1, HeadTail
  <2> QED
    BY <1>1, <2>1, <2>2, BytesTail, BytesNat, Zenon
<1>3. (\A d \in Client \ {conn} : up'[d] = up[d]) /\ up'[conn] = Tail(up[conn])
  BY <1>1, SMTT(30) DEF IInv, TypeOK
<1>4. \A d \in Client \ {conn} : Owed(d)' = Owed(d)
  BY <1>1, <1>3 DEF Owed
<1>5. Owed(conn)' = Owed(conn)
  <2>1. todo[conn] \in Nat /\ Bytes(down[conn]) \in Nat
    BY <1>1, OwedNat
  <2>2. Owed(conn)' = todo[conn] + Bytes(Tail(up[conn])) + rxlen' + Bytes(down[conn])
    BY <1>1, <1>3 DEF Owed
  <2>3. Owed(conn) = todo[conn] + Bytes(up[conn]) + 0 + Bytes(down[conn])
    BY <1>1 DEF Owed
  <2> QED
    BY <1>2, <2>1, <2>2, <2>3
<1> QED
  BY <1>1, <1>4, <1>5 DEF FlowInv

(* The server echoes what is in rxbuf.  If the client is gone before, it   *)
(* has left without its echoes: its connection was lost.                   *)
LEMMA FlowServerWrite == ASSUME IInv, FlowInv, ServerWrite PROVE FlowInv'
<1>1. /\ conn \in Client /\ rxlen \in Nat /\ rxlen > 0
      /\ rxlen' = 0 /\ server' = "read"
      /\ UNCHANGED <<conn, client, todo, total_bytes_sent, total_bytes_received, up, lost>>
  BY SizeAssumption, SMTT(30) DEF ServerWrite, IInv, PlaceInv, RecordInv, Record, cvars, totals
<1>2. CASE client[conn] # "closed" /\ down' = [down EXCEPT ![conn] = Append(down[conn], rxlen)]
  <2>1. (\A d \in Client \ {conn} : down'[d] = down[d]) /\ down'[conn] = Append(down[conn], rxlen)
    BY <1>1, <1>2, SMTT(30) DEF IInv, TypeOK
  <2>2. Bytes(down'[conn]) = Bytes(down[conn]) + rxlen
    BY <1>1, <2>1, OwedNat, BytesAppend
  <2>3. \A d \in Client \ {conn} : Owed(d)' = Owed(d)
    BY <1>1, <2>1 DEF Owed
  <2>4. Owed(conn)' = Owed(conn)
    BY <1>1, <2>2, OwedNat DEF Owed
  <2> QED
    BY <1>1, <2>3, <2>4 DEF FlowInv
<1>3. CASE client[conn] = "closed" /\ down' = down
  <2>1. \A d \in Client \ {conn} : Owed(d)' = Owed(d)
    BY <1>1, <1>3 DEF Owed
  <2>2. Owed(conn) > 0
    BY <1>1, OwedNat, SMTT(30) DEF Owed
  <2>3. conn \in lost
    <3>1. Owed(conn) \in Nat /\ total_bytes_received[conn] \in Nat
      BY <1>1, OwedNat, SMTT(30) DEF Owed
    <3> QED
      BY <1>1, <1>3, <2>2, <3>1 DEF FlowInv
  <2> QED
    BY <1>1, <2>1, <2>3, SMTT(30) DEF FlowInv
<1> QED
  BY <1>2, <1>3, Zenon DEF ServerWrite

(* Every step keeps account of the bytes.                                  *)
LEMMA NextFlow == IInv /\ FlowInv /\ [Next]_vars => FlowInv'
<1> SUFFICES ASSUME IInv, FlowInv, [Next]_vars PROVE FlowInv'
  OBVIOUS
<1>1. CASE UNCHANGED vars
  <2>1. UNCHANGED <<server, conn, rxlen, client, todo, total_bytes_sent, total_bytes_received, up, down, lost>>
    BY <1>1 DEF vars, cvars, svars, totals
  <2>2. \A c \in Client : Owed(c)' = Owed(c)
    BY <2>1 DEF Owed
  <2> QED
    BY <2>1, <2>2 DEF FlowInv
<1>2. CASE Next
  BY <1>2, FlowPlace, FlowStartPacket, FlowWriteRecord, FlowReadEcho, FlowServer,
     FlowServerRead, FlowServerWrite DEF Next, ServerStep, ClientStep
<1> QED
  BY <1>1, <1>2

(* The account of the bytes is right in every state.                       *)
LEMMA FlowInvariance == Spec => []FlowInv
BY Invariance, InitFlow, NextFlow, PTL DEF Spec

(* For any number of clients and any sizes the types are kept; every       *)
(* record that is echoed has a positive length that fits a record.         *)
THEOREM TypeCorrect == Spec => []TypeOK
<1>1. IInv => TypeOK
  BY DEF IInv
<1> QED
  BY <1>1, Invariance, PTL

(* For any number of clients and packets, any values of random() and any   *)
(* MAX_BUF_SIZE and record size that are multiples of 32 and of 4, the     *)
(* client never prints an ERROR line.                                      *)
THEOREM NoFalseAlarm == Spec => []NoFalseErrors
<1>1. IInv => NoFalseErrors
  BY DEF IInv, CheckInv, NoFalseErrors
<1> QED
  BY <1>1, Invariance, PTL

(* For any number of clients and packets and any sizes of packets, records *)
(* and socket buffers: as long as a connection is not lost, the totals the *)
(* client keeps differ by exactly what is in SSL_write, in the buffers and *)
(* in rxbuf.                                                               *)
THEOREM Accounted == Spec => []NothingVanishes
<1>1. FlowInv => NothingVanishes
  BY DEF FlowInv, Owed, NothingVanishes
<1> QED
  BY <1>1, FlowInvariance, PTL

(* For any number of clients and packets and any sizes: a client that      *)
(* exits without having lost its connection has received all it sent,      *)
(* whichever packet was its last.                                          *)
THEOREM NoneLeftBehind == Spec => []EchoComplete
<1>1. FlowInv => EchoComplete
  BY DEF FlowInv, EchoComplete
<1> QED
  BY <1>1, FlowInvariance, PTL
=============================================================================
