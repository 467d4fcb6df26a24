--------------------------- MODULE NetworkProofs ----------------------------
(***************************************************************************)
(* Proofs about the stream checker, for any number of clients and any      *)
(* buffer sizes, and about the switch of the zeroing, toggled by any       *)
(* number of shells while the network scripts run.                         *)
(*                                                                         *)
(* The inductive invariant of the first ties the client's position in the  *)
(* pattern to the length of its stream and the server's to the number of   *)
(* bytes read, and says that a connection is accepted at most once.        *)
(***************************************************************************)
EXTENDS TcpPattern, NetScripts, FiniteSetTheorems, TLAPS

(* Byte k of a stream whose writes were not cut short is letter k - 1 of   *)
(* the pattern, or was zeroed.                                             *)
StreamInv ==
  \A c \in Client \ cut :
    /\ msg_idx[c] = Len(sent[c]) % 4
    /\ \A k \in 1 .. Len(sent[c]) : sent[c][k] = Zero \/ sent[c][k] = (k - 1) % 4

(* Nothing of the connection of client c has been handled.                 *)
Untouched(c) == seen[c] = 0 /\ zeroes[c] = 0 /\ reported[c] = None /\ c # conn

QueueInv ==
  /\ \A j, k \in DOMAIN queue : queue[j] = queue[k] => j = k
  /\ \A k \in DOMAIN queue : Untouched(queue[k]) /\ client[queue[k]] # "new"
  /\ \A c \in Client : client[c] = "new" => Untouched(c)

ReadInv ==
  /\ \A c \in Client : seen[c] <= Len(sent[c])
  /\ server = "reading" =>
       /\ msg_index = seen[conn] % 4
       /\ reported[conn] = None
       /\ conn \notin cut => errors = zeroes[conn]

ReportInv ==
  \A c \in Client : reported[c] # None =>
    /\ client[c] = "closed" /\ seen[c] = Len(sent[c])
    /\ c \notin cut => reported[c] = zeroes[c]

IInv == TypeOK /\ StreamInv /\ QueueInv /\ ReadInv /\ ReportInv

(* Positions may be reduced before or after adding to them.                *)
LEMMA ModAdd == \A a, b \in Nat : ((a % 4) + b) % 4 = (a + b) % 4
OBVIOUS

(* A reduced position lies inside the pattern.                             *)
LEMMA ModType == \A a \in Nat : a % 4 \in 0 .. 3
OBVIOUS

(* The bytes counted in a read, for a stream that was not cut short: those *)
(* that were zeroed.                                                       *)
LEMMA WrongBytes ==
  ASSUME IInv, NEW m \in Nat, server = "reading", seen[conn] + m <= Len(sent[conn])
  PROVE  LET zeroed == {k \in seen[conn] + 1 .. seen[conn] + m : sent[conn][k] = Zero}
         IN  /\ Cardinality(Wrong(m)) \in Nat
             /\ Cardinality(zeroed) \in Nat
             /\ conn \notin cut => Wrong(m) = zeroed
<1> DEFINE zeroed == {k \in seen[conn] + 1 .. seen[conn] + m : sent[conn][k] = Zero}
<1>1. conn \in Client /\ seen[conn] \in Nat /\ sent[conn] \in Seq(0 .. 4)
  BY DEF IInv, TypeOK
<1>2. IsFiniteSet(seen[conn] + 1 .. seen[conn] + m)
  BY <1>1, FS_Interval
<1>3. IsFiniteSet(Wrong(m)) /\ IsFiniteSet(zeroed)
  BY <1>2, FS_Subset, Zenon DEF Wrong
<1>4. ASSUME conn \notin cut PROVE Wrong(m) = zeroed
  <2>1. ASSUME NEW k \in seen[conn] + 1 .. seen[conn] + m
        PROVE  sent[conn][k] # (msg_index + (k - seen[conn] - 1)) % 4 <=> sent[conn][k] = Zero
    <3>1. k \in 1 .. Len(sent[conn]) /\ k - 1 \in Nat /\ k - seen[conn] - 1 \in Nat
      BY <1>1
    <3>2. (msg_index + (k - seen[conn] - 1)) % 4 = (seen[conn] + (k - seen[conn] - 1)) % 4
      BY <1>1, <3>1, ModAdd DEF IInv, ReadInv
    <3>3. seen[conn] + (k - seen[conn] - 1) = k - 1
      BY <1>1, <3>1
    <3>4. sent[conn][k] = Zero \/ sent[conn][k] = (k - 1) % 4
      BY <1>1, <1>4, <3>1, Zenon DEF IInv, StreamInv
    <3>5. (k - 1) % 4 # Zero
      BY <3>1, ModType DEF Zero
    <3> QED
      BY <3>2, <3>3, <3>4, <3>5
  <2> QED
    BY <2>1 DEF Wrong
<1> QED
  BY <1>3, <1>4, FS_CardinalityType

(* The invariant holds when the server starts.                             *)
LEMMA InitIInv == Init => IInv
BY PacketsAssumption, NoneAssumption
   DEF Init, IInv, TypeOK, StreamInv, QueueInv, Untouched, ReadInv, ReportInv

(* A client process ends.                                                  *)
LEMMA ClientEnds ==
  ASSUME IInv, NEW c \in Client, client' = [client EXCEPT ![c] = "closed"],
         UNCHANGED <<i, msg_idx, cut, sent, queue, svars>>
  PROVE  IInv'
<1>1. client \in [Client -> {"new", "connected", "closed"}]
  BY DEF IInv, TypeOK
<1>2. \A d \in Client : client'[d] = IF d = c THEN "closed" ELSE client[d]
  BY <1>1
<1>3. TypeOK'
  BY DEF IInv, TypeOK, svars
<1>4. StreamInv' /\ ReadInv'
  BY Zenon DEF IInv, StreamInv, ReadInv, svars
<1>5. QueueInv'
  <2>1. \A d \in Client : Untouched(d)' <=> Untouched(d)
    BY DEF Untouched, svars
  <2>2. \A k \in DOMAIN queue : queue[k] \in Client
    BY DEF IInv, TypeOK
  <2> QED
    BY <1>2, <2>1, <2>2 DEF IInv, QueueInv
<1>6. ReportInv'
  BY <1>2 DEF IInv, ReportInv, svars
<1> QED
  BY <1>3, <1>4, <1>5, <1>6 DEF IInv

(* Connecting preserves the invariant.                                     *)
LEMMA StepConnect == ASSUME IInv, NEW c \in Client, Connect(c) PROVE IInv'
<1>1. CASE server = "failed"
  BY <1>1, ClientEnds DEF Connect
<1>2. CASE server # "failed"
  <2>1. /\ client' = [client EXCEPT ![c] = "connected"] /\ queue' = Append(queue, c)
        /\ client[c] = "new" /\ UNCHANGED <<i, msg_idx, cut, sent, svars>>
    BY <1>2 DEF Connect
  <2>2. TypeOK'
    BY <2>1 DEF IInv, TypeOK, svars
  <2>3. QueueInv'
    <3>1. queue \in Seq(Client) /\ client \in [Client -> {"new", "connected", "closed"}]
      BY DEF IInv, TypeOK
    <3>2. /\ DOMAIN queue' = DOMAIN queue \cup {Len(queue) + 1}
          /\ queue'[Len(queue) + 1] = c
          /\ \A k \in DOMAIN queue : queue'[k] = queue[k]
      BY <2>1, <3>1
    <3>3. \A k \in DOMAIN queue : queue[k] # c
      BY <2>1 DEF IInv, QueueInv
    <3>4. \A d \in Client : Untouched(d)' <=> Untouched(d)
      BY <2>1 DEF Untouched, svars
    <3>5. \A d \in Client : client'[d] = IF d = c THEN "connected" ELSE client[d]
      BY <2>1, <3>1
    <3>6. \A k \in DOMAIN queue : queue[k] \in Client
      BY <3>1
    <3> QED
      BY <2>1, <3>2, <3>3, <3>4, <3>5, <3>6 DEF IInv, QueueInv
  <2>4. StreamInv' /\ ReadInv'
    BY <2>1, Zenon DEF IInv, StreamInv, ReadInv, svars
  <2>5. ReportInv'
    BY <2>1 DEF IInv, ReportInv, TypeOK, svars
  <2> QED
    BY <2>2, <2>3, <2>4, <2>5 DEF IInv
<1> QED
  BY <1>1, <1>2

(* Closing a connection and being killed preserve the invariant.           *)
LEMMA StepEnd == ASSUME IInv, NEW c \in Client, Close(c) \/ Kill(c) PROVE IInv'
BY ClientEnds DEF Close, Kill

(* Writing a packet, in full or cut short, preserves the invariant.        *)
LEMMA StepWritePacket ==
  ASSUME IInv, NEW c \in Client, NEW size \in 0 .. ClientBufSize - 1, NEW accepted \in 0 .. size,
         WritePacket(c, size, accepted)
  PROVE  IInv'
<1> DEFINE block == [k \in 1 .. accepted |-> (msg_idx[c] + k - 1) % 4]
<1>1. /\ sent' = [sent EXCEPT ![c] = sent[c] \o block]
      /\ msg_idx' = [msg_idx EXCEPT ![c] = (msg_idx[c] + size) % 4]
      /\ i' = [i EXCEPT ![c] = i[c] + 1]
      /\ cut' = IF accepted < size THEN cut \cup {c} ELSE cut
      /\ UNCHANGED <<client, queue, svars>>
      /\ i[c] <= packets /\ client[c] = "connected"
  BY DEF WritePacket, NextIdx
<1>2. /\ msg_idx[c] \in 0 .. 3 /\ sent \in [Client -> Seq(0 .. 4)] /\ size \in Nat /\ accepted \in Nat
      /\ sent[c] \in Seq(0 .. 4)
  BY SizeAssumption DEF IInv, TypeOK
<1>3. block \in Seq(0 .. 3) /\ Len(block) = accepted
  <2>1. \A k \in 1 .. accepted : msg_idx[c] + k - 1 \in Nat
    BY <1>2
  <2>2. block \in [1 .. accepted -> 0 .. 3]
    BY <2>1, ModType
  <2> HIDE DEF block
  <2> QED
    BY <1>2, <2>2
<1>4. /\ sent[c] \o block \in Seq(0 .. 4)
      /\ Len(sent[c] \o block) = Len(sent[c]) + accepted
      /\ \A k \in 1 .. Len(sent[c]) : (sent[c] \o block)[k] = sent[c][k]
      /\ \A k \in Len(sent[c]) + 1 .. Len(sent[c]) + accepted :
           (sent[c] \o block)[k] = block[k - Len(sent[c])]
  BY <1>2, <1>3
<1>5. sent'[c] = sent[c] \o block /\ \A d \in Client \ {c} : sent'[d] = sent[d]
  BY <1>1, <1>2
<1> HIDE DEF block
<1>6. TypeOK'
  <2>1. sent' \in [Client -> Seq(0 .. 4)]
    BY <1>1, <1>2, <1>4
  <2>2. msg_idx' \in [Client -> 0 .. 3]
    <3>1. msg_idx[c] + size \in Nat
      BY <1>2
    <3>2. (msg_idx[c] + size) % 4 \in 0 .. 3
      BY <3>1, ModType
    <3> QED
      BY <1>1, <3>2 DEF IInv, TypeOK
  <2>3. i' \in [Client -> 1 .. packets + 1]
    <3>1. i \in [Client -> 1 .. packets + 1]
      BY DEF IInv, TypeOK
    <3>2. i[c] + 1 \in 1 .. packets + 1
      BY <1>1, <3>1, PacketsAssumption
    <3> QED
      BY <1>1, <3>1, <3>2
  <2>4. cut' \subseteq Client
    BY <1>1 DEF IInv, TypeOK
  <2> QED
    BY <1>1, <2>1, <2>2, <2>3, <2>4 DEF IInv, TypeOK, svars
<1>7. StreamInv'
  <2> SUFFICES ASSUME NEW d \in Client \ cut'
               PROVE  /\ msg_idx'[d] = Len(sent'[d]) % 4
                      /\ \A k \in 1 .. Len(sent'[d]) :
                           sent'[d][k] = Zero \/ sent'[d][k] = (k - 1) % 4
    BY Zenon DEF StreamInv
  <2>1. d \in Client \ cut
    BY <1>1
  <2>2. CASE d # c
    BY <1>1, <1>5, <2>1, <2>2 DEF IInv, StreamInv, TypeOK
  <2>3. CASE d = c
    <3>1. accepted = size
      BY <1>1, <1>2, <2>3
    <3>2. msg_idx[c] = Len(sent[c]) % 4 /\ Len(sent[c]) \in Nat
      <4>1. msg_idx[c] = Len(sent[c]) % 4
        BY <2>1, <2>3, Zenon DEF IInv, StreamInv
      <4>2. Len(sent[c]) \in Nat
        BY <1>2
      <4> QED
        BY <4>1, <4>2
    <3>3. msg_idx'[c] = (Len(sent[c]) + size) % 4
      BY <1>1, <1>2, <3>2, ModAdd DEF IInv, TypeOK
    <3>4. ASSUME NEW k \in Len(sent[c]) + 1 .. Len(sent[c]) + accepted
          PROVE  sent'[c][k] = (k - 1) % 4
      <4>1. k - Len(sent[c]) \in 1 .. accepted
        BY <1>2, <3>2
      <4>2. sent'[c][k] = (msg_idx[c] + (k - Len(sent[c])) - 1) % 4
        BY <1>4, <1>5, <4>1 DEF block
      <4>3. (msg_idx[c] + (k - Len(sent[c]) - 1)) % 4 = (Len(sent[c]) + (k - Len(sent[c]) - 1)) % 4
        BY <1>2, <3>2, <4>1, ModAdd
      <4>4. /\ msg_idx[c] + (k - Len(sent[c])) - 1 = msg_idx[c] + (k - Len(sent[c]) - 1)
            /\ Len(sent[c]) + (k - Len(sent[c]) - 1) = k - 1
        BY <1>2, <3>2
      <4> QED
        BY <4>2, <4>3, <4>4
    <3>5. ASSUME NEW k \in 1 .. Len(sent[c])
          PROVE  sent'[c][k] = Zero \/ sent'[c][k] = (k - 1) % 4
      BY <1>4, <1>5, <2>1, <2>3, Zenon DEF IInv, StreamInv
    <3>6. Len(sent'[c]) = Len(sent[c]) + accepted
      BY <1>4, <1>5
    <3>7. ASSUME NEW k \in 1 .. Len(sent'[c])
          PROVE  sent'[c][k] = Zero \/ sent'[c][k] = (k - 1) % 4
      <4> DEFINE old == Len(sent[c])
      <4>0. k \in 1 .. old + accepted /\ old \in Nat /\ accepted \in Nat
        BY <1>2, <3>2, <3>6
      <4> HIDE DEF old
      <4>1. k \in 1 .. old \/ k \in old + 1 .. old + accepted
        BY <4>0
      <4> USE DEF old
      <4> QED
        BY <3>4, <3>5, <4>1
    <3> QED
      BY <2>3, <3>1, <3>3, <3>6, <3>7
  <2> QED
    BY <2>2, <2>3, Zenon
<1>8. QueueInv'
  BY <1>1 DEF IInv, QueueInv, Untouched, svars
<1>9. ReadInv'
  <2>1. \A d \in Client : Len(sent'[d]) >= Len(sent[d])
    <3>1. \A d \in Client : Len(sent[d]) \in Nat
      BY <1>2
    <3>2. Len(sent'[c]) >= Len(sent[c])
      BY <1>2, <1>4, <1>5, <3>1
    <3>3. \A d \in Client \ {c} : Len(sent'[d]) >= Len(sent[d])
      BY <1>5, <3>1
    <3> QED
      BY <3>2, <3>3
  <2>2. \A d \in Client : Len(sent'[d]) \in Nat /\ Len(sent[d]) \in Nat /\ seen[d] \in Nat
    <3>1. \A d \in Client : sent'[d] \in Seq(0 .. 4) /\ sent[d] \in Seq(0 .. 4) /\ seen[d] \in Nat
      BY <1>6 DEF IInv, TypeOK
    <3> QED
      BY <3>1
  <2>3. \A d \in Client : seen'[d] <= Len(sent'[d])
    BY <1>1, <2>1, <2>2 DEF IInv, ReadInv, svars
  <2>4. cut \subseteq cut'
    BY <1>1
  <2> QED
    BY <1>1, <2>3, <2>4 DEF IInv, ReadInv, svars
<1>10. ReportInv'
  <2> SUFFICES ASSUME NEW d \in Client, reported'[d] # None
               PROVE  /\ client'[d] = "closed" /\ seen'[d] = Len(sent'[d])
                      /\ d \notin cut' => reported'[d] = zeroes'[d]
    BY DEF ReportInv
  <2>1. d # c
    BY <1>1 DEF IInv, ReportInv, svars
  <2>2. cut \subseteq cut'
    BY <1>1
  <2> QED
    BY <1>1, <1>5, <2>1, <2>2 DEF IInv, ReportInv, svars
<1> QED
  BY <1>6, <1>7, <1>8, <1>9, <1>10 DEF IInv

(* Zeroing a byte that is still unread preserves the invariant.            *)
LEMMA StepZeroByte ==
  ASSUME IInv, NEW c \in Client, NEW k \in 1 .. Len(sent[c]), ZeroByte(c, k) PROVE IInv'
<1>1. sent' = [sent EXCEPT ![c] = [sent[c] EXCEPT ![k] = Zero]] /\ UNCHANGED <<cvars, queue, svars>>
  BY DEF ZeroByte
<1>2. sent \in [Client -> Seq(0 .. 4)] /\ sent[c] \in Seq(0 .. 4)
  BY DEF IInv, TypeOK
<1>3. /\ [sent[c] EXCEPT ![k] = Zero] \in Seq(0 .. 4)
      /\ Len([sent[c] EXCEPT ![k] = Zero]) = Len(sent[c])
      /\ \A j \in 1 .. Len(sent[c]) :
           [sent[c] EXCEPT ![k] = Zero][j] = IF j = k THEN Zero ELSE sent[c][j]
  BY <1>2 DEF Zero
<1>4. /\ sent'[c] = [sent[c] EXCEPT ![k] = Zero]
      /\ \A d \in Client \ {c} : sent'[d] = sent[d]
      /\ sent' \in [Client -> Seq(0 .. 4)]
  BY <1>1, <1>2, <1>3
<1>5. \A d \in Client : Len(sent'[d]) = Len(sent[d])
  BY <1>3, <1>4
<1>6. TypeOK'
  BY <1>1, <1>4 DEF IInv, TypeOK, cvars, svars
<1>7. StreamInv'
  <2>1. ASSUME NEW d \in Client \ cut, NEW j \in 1 .. Len(sent[d])
        PROVE  sent'[d][j] = Zero \/ sent'[d][j] = (j - 1) % 4
    <3>1. sent[d][j] = Zero \/ sent[d][j] = (j - 1) % 4
      BY Zenon DEF IInv, StreamInv
    <3>2. sent'[d][j] = Zero \/ sent'[d][j] = sent[d][j]
      BY <1>3, <1>4
    <3> QED
      BY <3>1, <3>2
  <2> QED
    BY <1>1, <1>5, <2>1, Zenon DEF IInv, StreamInv, cvars
<1>8. QueueInv'
  BY <1>1 DEF IInv, QueueInv, Untouched, cvars, svars
<1>9. ReadInv' /\ ReportInv'
  BY <1>1, <1>5 DEF IInv, ReadInv, ReportInv, cvars, svars
<1> QED
  BY <1>6, <1>7, <1>8, <1>9 DEF IInv

(* Accepting a connection preserves the invariant.                         *)
LEMMA StepAccept == ASSUME IInv, Accept PROVE IInv'
<1> DEFINE c == Head(queue)
<1>1. /\ conn' = c /\ queue' = Tail(queue) /\ server' = "reading" /\ msg_index' = 0 /\ errors' = 0
      /\ queue # << >> /\ UNCHANGED <<cvars, sent, seen, reported, zeroes>>
  BY DEF Accept, FirstIndex, FirstErrors
<1>2. queue \in Seq(Client)
  BY DEF IInv, TypeOK
<1>3. /\ c \in Client /\ 1 \in DOMAIN queue /\ c = queue[1]
      /\ Tail(queue) \in Seq(Client)
      /\ \A k \in DOMAIN Tail(queue) : k + 1 \in DOMAIN queue /\ Tail(queue)[k] = queue[k + 1]
      /\ \A k \in DOMAIN Tail(queue) : k \in Nat \ {0} /\ k + 1 # 1
  BY <1>1, <1>2
<1>4. Untouched(c) /\ client[c] # "new"
  BY <1>3 DEF IInv, QueueInv
<1> HIDE DEF c
<1>5. TypeOK'
  <2>1. conn' \in Client \cup {None} /\ (server' = "reading" => conn' # None)
    BY <1>1, <1>3, NoneAssumption
  <2>2. queue' \in Seq(Client) /\ server' \in {"accept", "reading", "failed"}
    BY <1>1, <1>3
  <2>3. msg_index' \in 0 .. 3 /\ errors' \in Nat
    BY <1>1
  <2> QED
    BY <1>1, <2>1, <2>2, <2>3, Zenon DEF IInv, TypeOK, cvars
<1>6. QueueInv'
  <2>1. ASSUME NEW j \in DOMAIN queue', NEW k \in DOMAIN queue', queue'[j] = queue'[k]
        PROVE  j = k
    <3>1. j + 1 = k + 1
      BY <1>1, <1>3, <2>1 DEF IInv, QueueInv
    <3> QED
      BY <1>1, <1>3, <3>1
  <2>2. ASSUME NEW k \in DOMAIN queue'
        PROVE  Untouched(queue[k])' /\ client'[queue'[k]] # "new"
    <3>1. queue'[k] = queue[k + 1] /\ k + 1 \in DOMAIN queue /\ k + 1 # 1
      BY <1>1, <1>3
    <3>2. queue'[k] # c
      BY <1>3, <3>1 DEF IInv, QueueInv
    <3>3. Untouched(queue[k + 1]) /\ client[queue[k + 1]] # "new"
      BY <3>1, Zenon DEF IInv, QueueInv
    <3>4. UNCHANGED <<client, seen, zeroes, reported>> /\ conn' = c
      BY <1>1 DEF cvars
    <3> QED
      BY <3>1, <3>2, <3>3, <3>4 DEF Untouched
  <2>3. ASSUME NEW d \in Client, client'[d] = "new" PROVE Untouched(d)'
    BY <1>1, <1>4, <2>3 DEF IInv, QueueInv, Untouched, cvars
  <2> QED
    BY <2>1, <2>2, <2>3, Zenon DEF QueueInv
<1>7. ReadInv'
  BY <1>1, <1>4 DEF IInv, ReadInv, Untouched, cvars
<1>8. StreamInv' /\ ReportInv'
  BY <1>1, Zenon DEF IInv, StreamInv, ReportInv, cvars
<1> QED
  BY <1>5, <1>6, <1>7, <1>8 DEF IInv

(* A read, with the comparison of its bytes, preserves the invariant.      *)
LEMMA StepRead == ASSUME IInv, NEW m \in 1 .. ServerBufSize, Read(m) PROVE IInv'
<1> DEFINE zeroed == {k \in seen[conn] + 1 .. seen[conn] + m : sent[conn][k] = Zero}
           wrong == Cardinality(Wrong(m))
           zero == Cardinality(zeroed)
<1>1. /\ server = "reading" /\ seen[conn] + m <= Len(sent[conn])
      /\ errors' = errors + wrong /\ msg_index' = (msg_index + m) % 4
      /\ seen' = [seen EXCEPT ![conn] = seen[conn] + m]
      /\ zeroes' = [zeroes EXCEPT ![conn] = zeroes[conn] + zero]
      /\ UNCHANGED <<cvars, sent, queue, server, conn, reported>>
  BY DEF Read, NextIndex
<1>2. conn \in Client /\ m \in Nat /\ m > 0
  BY <1>1, SizeAssumption DEF IInv, TypeOK
<1>3. wrong \in Nat /\ zero \in Nat /\ (conn \notin cut => wrong = zero)
  BY <1>1, <1>2, WrongBytes, Zenon
<1> HIDE DEF wrong, zero
<1>4. /\ \A d \in Client : seen'[d] = IF d = conn THEN seen[conn] + m ELSE seen[d]
      /\ \A d \in Client : zeroes'[d] = IF d = conn THEN zeroes[conn] + zero ELSE zeroes[d]
      /\ seen[conn] \in Nat /\ zeroes[conn] \in Nat /\ errors \in Nat /\ msg_index \in 0 .. 3
  BY <1>1 DEF IInv, TypeOK
<1>5. TypeOK'
  <2>1. seen' \in [Client -> Nat] /\ zeroes' \in [Client -> Nat]
    BY <1>1, <1>2, <1>3, <1>4 DEF IInv, TypeOK
  <2>2. msg_index' \in 0 .. 3 /\ errors' \in Nat
    BY <1>1, <1>2, <1>3, <1>4
  <2> QED
    BY <1>1, <2>1, <2>2 DEF IInv, TypeOK, cvars
<1>6. QueueInv'
  <2>1. \A d \in Client : Untouched(d) => Untouched(d)'
    BY <1>1, <1>4 DEF Untouched
  <2>2. \A k \in DOMAIN queue : queue[k] \in Client
    BY DEF IInv, TypeOK
  <2> QED
    BY <1>1, <2>1, <2>2 DEF IInv, QueueInv, cvars
<1>7. ReadInv'
  <2>1. \A d \in Client : seen'[d] <= Len(sent'[d])
    BY <1>1, <1>4 DEF IInv, ReadInv
  <2>2. msg_index' = (seen[conn] + m) % 4
    <3>1. msg_index = seen[conn] % 4
      BY <1>1 DEF IInv, ReadInv
    <3> QED
      BY <1>1, <1>2, <1>4, <3>1, ModAdd
  <2>3. conn \notin cut => errors' = zeroes'[conn]
    BY <1>1, <1>2, <1>3, <1>4 DEF IInv, ReadInv
  <2> QED
    BY <1>1, <1>2, <1>4, <2>1, <2>2, <2>3 DEF IInv, ReadInv, cvars
<1>8. ReportInv'
  <2>1. reported[conn] = None
    BY <1>1 DEF IInv, ReadInv
  <2> QED
    BY <1>1, <1>4, <2>1 DEF IInv, ReportInv, cvars
<1>9. StreamInv'
  BY <1>1, Zenon DEF IInv, StreamInv, cvars
<1> QED
  BY <1>5, <1>6, <1>7, <1>8, <1>9 DEF IInv

(* Reporting a connection preserves the invariant.                         *)
LEMMA StepEof == ASSUME IInv, Eof PROVE IInv'
<1>1. /\ server = "reading" /\ seen[conn] = Len(sent[conn]) /\ client[conn] = "closed"
      /\ reported' = [reported EXCEPT ![conn] = errors]
      /\ server' = "accept" /\ conn' = None
      /\ UNCHANGED <<cvars, sent, queue, seen, msg_index, errors, zeroes>>
  BY DEF Eof, AtEof
<1>2. conn \in Client
  BY <1>1 DEF IInv, TypeOK
<1>3. \A d \in Client : reported'[d] = IF d = conn THEN errors ELSE reported[d]
  BY <1>1 DEF IInv, TypeOK
<1>4. TypeOK'
  BY <1>1 DEF IInv, TypeOK, cvars
<1>5. QueueInv'
  <2>1. \A d \in Client : Untouched(d) => Untouched(d)'
    BY <1>1, <1>3, NoneAssumption DEF Untouched
  <2>2. \A k \in DOMAIN queue : queue[k] \in Client
    BY DEF IInv, TypeOK
  <2> QED
    BY <1>1, <2>1, <2>2 DEF IInv, QueueInv, cvars
<1>6. ReadInv'
  BY <1>1 DEF IInv, ReadInv
<1>7. ReportInv'
  BY <1>1, <1>2, <1>3 DEF IInv, ReportInv, ReadInv, cvars
<1>8. StreamInv'
  BY <1>1, Zenon DEF IInv, StreamInv, cvars
<1> QED
  BY <1>4, <1>5, <1>6, <1>7, <1>8 DEF IInv

(* A failing accept or read preserves the invariant.                       *)
LEMMA StepServerError == ASSUME IInv, ServerError PROVE IInv'
BY DEF ServerError, IInv, TypeOK, StreamInv, QueueInv, Untouched, ReadInv, ReportInv, cvars

(* Every step preserves the invariant.                                     *)
LEMMA NextIInv == IInv /\ [Next]_vars => IInv'
<1> SUFFICES ASSUME IInv, [Next]_vars PROVE IInv'
  OBVIOUS
<1>1. CASE UNCHANGED vars
  BY <1>1 DEF vars, cvars, svars, IInv, TypeOK, StreamInv, QueueInv, Untouched, ReadInv, ReportInv
<1>2. CASE Next
  BY <1>2, StepConnect, StepEnd, StepWritePacket, StepZeroByte, StepAccept, StepRead, StepEof,
     StepServerError DEF Next, ServerStep, ClientStep
<1> QED
  BY <1>1, <1>2

(* The invariant holds in every state of every run of clients and server.  *)
THEOREM Invariance == Spec => []IInv
BY InitIInv, NextIInv, PTL DEF Spec

(* For any number of clients and any buffer sizes, the types are kept; in  *)
(* particular msg_index never leaves the pattern.                          *)
THEOREM TypeCorrect == Spec => []TypeOK
<1>1. IInv => TypeOK
  BY DEF IInv
<1> QED
  BY <1>1, Invariance, PTL

(* For any number of clients and any buffer sizes, the number of errors    *)
(* printed for a connection is the number of its zeroed bytes.             *)
THEOREM Exact == Spec => []ReportsExact
<1>1. IInv => ReportsExact
  BY DEF IInv, ReportInv, ReportsExact
<1> QED
  BY <1>1, Invariance, PTL

(* For any number of clients and any buffer sizes, a connection that is    *)
(* reported has been read to its end.                                      *)
THEOREM ReadToTheEnd == Spec => []NothingUnread
<1>1. IInv => NothingUnread
  BY DEF IInv, ReportInv, NothingUnread
<1> QED
  BY <1>1, Invariance, PTL
-----------------------------------------------------------------------------
(* toggle_skb_zeroing.sh.                                                  *)

ZTypeOK ==
  /\ skb_zeroing \in {0, 1}
  /\ current_value \in [Shell -> {-1, 0, 1}]
  /\ stale \in [Shell -> BOOLEAN]

(* What a shell has read is still the value, unless it is marked stale.    *)
Fresh == \A s \in Shell : current_value[s] # -1 /\ ~ stale[s] => current_value[s] = skb_zeroing

ZInv == ZTypeOK /\ Fresh

(* At first no shell has read the setting.                                 *)
LEMMA ZInit == NetInit => ZInv
BY DEF NetInit, ZInv, ZTypeOK, Fresh

(* The value written is the other one.                                     *)
LEMMA ToggledProperties ==
  ASSUME NEW x \in {0, 1}
  PROVE  Toggled(x) \in {0, 1} /\ Toggled(x) # x
BY DEF Toggled

(* The script reads the setting.                                           *)
LEMMA ReadStep ==
  ASSUME ZInv, NEW s \in Shell, ReadZeroing(s)
  PROVE  ZInv'
<1>1. /\ skb_zeroing' = skb_zeroing
      /\ current_value' = [current_value EXCEPT ![s] = skb_zeroing]
      /\ stale' = [stale EXCEPT ![s] = FALSE]
  BY DEF ReadZeroing
<1>2. ZTypeOK'
  BY <1>1 DEF ZInv, ZTypeOK
<1>3. Fresh'
  BY <1>1 DEF ZInv, ZTypeOK, Fresh
<1> QED
  BY <1>2, <1>3 DEF ZInv

(* The script writes the opposite of what it read, and what the other      *)
(* shells have read becomes stale.                                         *)
LEMMA WriteStep ==
  ASSUME ZInv, NEW s \in Shell, WriteZeroing(s)
  PROVE  ZInv'
<1>1. /\ current_value[s] # -1 /\ skb_zeroing' = Toggled(current_value[s])
      /\ current_value' = [current_value EXCEPT ![s] = -1]
      /\ stale' = [z \in Shell |-> z # s /\ current_value[z] # -1]
  BY DEF WriteZeroing
<1>2. current_value[s] \in {0, 1}
  BY <1>1 DEF ZInv, ZTypeOK
<1>3. ZTypeOK'
  BY <1>1, <1>2, ToggledProperties DEF ZInv, ZTypeOK
<1>4. Fresh'
  BY <1>1 DEF ZInv, ZTypeOK, Fresh
<1> QED
  BY <1>3, <1>4 DEF ZInv

(* Every step, also of the other scripts, preserves what is known of the   *)
(* toggle.                                                                 *)
LEMMA ZStep == ZInv /\ [NetNext]_netvars => ZInv'
<1> SUFFICES ASSUME ZInv, [NetNext]_netvars PROVE ZInv'
  OBVIOUS
<1>1. CASE \E s \in Shell : ReadZeroing(s) \/ WriteZeroing(s)
  BY <1>1, ReadStep, WriteStep
<1>2. CASE UNCHANGED zvars
  BY <1>2 DEF zvars, ZInv, ZTypeOK, Fresh
<1>3. CASE (\E s \in DOMAIN Commands : Start(s)) \/ Step \/ Break
  BY <1>2, <1>3 DEF Start, Step, Break
<1>4. CASE UNCHANGED netvars
  BY <1>2, <1>4 DEF netvars, zvars
<1> QED
  BY <1>1, <1>3, <1>4 DEF NetNext

(* A write based on a fresh read changes the setting.                      *)
LEMMA ZChanges ==
  ASSUME ZInv, NEW s \in Shell, WriteZeroing(s), ~ stale[s]
  PROVE  skb_zeroing' # skb_zeroing
<1>1. current_value[s] # -1 /\ skb_zeroing' = Toggled(current_value[s])
  BY DEF WriteZeroing
<1>2. current_value[s] = skb_zeroing /\ skb_zeroing \in {0, 1}
  BY <1>1 DEF ZInv, ZTypeOK, Fresh
<1> QED
  BY <1>1, <1>2, ToggledProperties

(* However many shells run toggle_skb_zeroing.sh, one of them leaves the   *)
(* value as it was only if another wrote between its read and its write.   *)
THEOREM Inverts == NetSpec => TogglesInvert
<1>1. ZInv => [\A s \in Shell : WriteZeroing(s) /\ ~ stale[s] => skb_zeroing' # skb_zeroing]_netvars
  BY ZChanges
<1> QED
  BY ZInit, ZStep, <1>1, PTL DEF NetSpec, TogglesInvert
=============================================================================
