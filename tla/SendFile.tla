------------------------------ MODULE SendFile ------------------------------
(***************************************************************************)
(* tools/sendfile.c: one thread that sends a string and then its own       *)
(* executable from one end of a TCP connection to the other and reads them *)
(* back.  Kernel TLS is switched on for each end separately and may fail   *)
(* for each; the program goes on in any case.  Every call blocks, and      *)
(* nobody else empties the socket buffers, which hold Room bytes.          *)
(***************************************************************************)
EXTENDS Integers, Sequences, SequencesExt

CONSTANTS
  Sizes,      \* sizes the executable may have
  StringLen,  \* to_send
  RecordLen,  \* the most that one record or one write holds
  Overhead,   \* bytes that encryption adds to a record
  Room        \* bytes that fit into the socket buffers

ASSUME SizeAssumption ==
  Sizes \cup {StringLen, RecordLen, Overhead, Room} \subseteq Nat \ {0}

VARIABLES
  pc,                \* the next call
  st_size,           \* size of the executable
  ulp,               \* ends with TCP_ULP set
  tx, rx,            \* TLS_TX is on for fd, TLS_RX for cfd
  wire,              \* records in the socket buffers
  sent,              \* bytes of the file that sendfile has sent
  recv_buf, buf,     \* what the two calls of recv stored
  string_size, file_size,  \* what they returned
  failed             \* a system call failed for want of memory

vars == <<pc, st_size, ulp, tx, rx, wire, sent, recv_buf, buf, string_size, file_size, failed>>

Bytes(what, n) == [i \in 1..n |-> <<what, i>>]
String == Bytes("string", StringLen)
File == Bytes("file", st_size)

(* A record as it is on the wire                                           *)
Wire(r) == IF r.tls THEN Bytes("cipher", Len(r.data) + Overhead) ELSE r.data
Raw == FlattenSeq([i \in DOMAIN wire |-> Wire(wire[i])])
Text == FlattenSeq([i \in DOMAIN wire |-> wire[i].data])

Init ==
  /\ pc = "connect" /\ st_size \in Sizes /\ ulp = {} /\ tx = FALSE /\ rx = FALSE
  /\ wire = <<>> /\ sent = 0 /\ recv_buf = <<>> /\ buf = <<>>
  /\ string_size = 0 /\ file_size = 0 /\ failed = FALSE

(* Without a connection accept never returns.  TCP_ULP is tried on cfd     *)
(* only if it worked on fd.                                                *)
ulp_sock_pair ==
  /\ pc = "connect"
  /\ \/ pc' = "accept" /\ failed' = TRUE /\ UNCHANGED ulp
     \/ pc' = "tls" /\ ulp' \in {{}, {"fd"}, {"fd", "cfd"}} /\ UNCHANGED failed
  /\ UNCHANGED <<st_size, tx, rx, wire, sent, recv_buf, buf, string_size, file_size>>

(* notls is not looked at; either call may fail and the other succeed.     *)
setup_tls ==
  /\ pc = "tls" /\ pc' = "send"
  /\ tx' \in BOOLEAN /\ (tx' => "fd" \in ulp)
  /\ rx' \in BOOLEAN /\ (rx' => "cfd" \in ulp)
  /\ UNCHANGED <<st_size, ulp, wire, sent, recv_buf, buf, string_size, file_size, failed>>

Fits(data) == Len(Raw) + Len(Wire([data |-> data, tls |-> tx])) <= Room
Put(data) == wire' = Append(wire, [data |-> data, tls |-> tx])

Send ==
  /\ pc = "send" /\ pc' = "recv"
  /\ \/ Fits(String) /\ Put(String) /\ UNCHANGED failed
     \/ failed' = TRUE /\ UNCHANGED wire
  /\ UNCHANGED <<st_size, ulp, tx, rx, sent, recv_buf, buf, string_size, file_size>>

(* Mutant: every write starts at the beginning of the file.                *)
Chunk_Start == SubSeq(File, 1, IF st_size - sent > RecordLen THEN RecordLen ELSE st_size - sent)

Chunk == SubSeq(File, sent + 1, IF st_size - sent > RecordLen THEN sent + RecordLen ELSE st_size)

(* sendfile goes on until the file is sent; an error ends it early.        *)
SendChunk ==
  /\ pc = "sendfile"
  /\ \/ sent < st_size /\ Fits(Chunk) /\ Put(Chunk) /\ sent' = sent + Len(Chunk) /\ UNCHANGED <<pc, failed>>
     \/ sent < st_size /\ pc' = "recv_file" /\ failed' = TRUE /\ UNCHANGED <<wire, sent>>
     \/ sent = st_size /\ pc' = "recv_file" /\ UNCHANGED <<wire, sent, failed>>
  /\ UNCHANGED <<st_size, ulp, tx, rx, recv_buf, buf, string_size, file_size>>

(* Mutant: without MSG_WAITALL.                                            *)
Received_Some(n, into, size) ==
  LET stream == IF rx THEN Text ELSE Raw
      got == IF Len(stream) < n THEN Len(stream) ELSE n
  IN  /\ got > 0
      /\ into' = SubSeq(stream, 1, got) /\ size' = got
      /\ wire' = <<[data |-> SubSeq(stream, got + 1, Len(stream)), tls |-> FALSE]>>

(* recv with MSG_WAITALL returns once n bytes are there.  A receiver that  *)
(* expects a record fails on anything else, or blocks if it failed before. *)
Received(n, into, size) ==
  LET stream == IF rx THEN Text ELSE Raw IN
  \/ /\ rx => tx
     /\ Len(stream) >= n
     /\ into' = SubSeq(stream, 1, n) /\ size' = n
     /\ wire' = IF Len(stream) = n THEN <<>>
                ELSE <<[data |-> SubSeq(stream, n + 1, Len(stream)), tls |-> rx]>>
  \/ /\ rx /\ ~ tx /\ (wire # <<>> \/ string_size = -1)
     /\ size' = -1 /\ UNCHANGED <<into, wire>>

RecvString ==
  /\ pc = "recv" /\ pc' = "sendfile"
  /\ Received(StringLen, recv_buf, string_size)
  /\ UNCHANGED <<st_size, ulp, tx, rx, sent, buf, file_size, failed>>

(* Mutant: one byte too many is waited for.                                *)
RecvFile_OffByOne ==
  /\ pc = "recv_file" /\ pc' = "done"
  /\ Received(st_size + 1, buf, file_size)
  /\ UNCHANGED <<st_size, ulp, tx, rx, sent, recv_buf, string_size, failed>>

RecvFile ==
  /\ pc = "recv_file" /\ pc' = "done"
  /\ Received(st_size, buf, file_size)
  /\ UNCHANGED <<st_size, ulp, tx, rx, sent, recv_buf, string_size, failed>>

Next == ulp_sock_pair \/ setup_tls \/ Send \/ RecvString \/ SendChunk \/ RecvFile

(* One thread, which runs whenever its call does not block                 *)
Spec == Init /\ [][Next]_vars /\ WF_vars(Next)
-----------------------------------------------------------------------------
TypeOK ==
  /\ pc \in {"connect", "accept", "tls", "send", "recv", "sendfile", "recv_file", "done"}
  /\ st_size \in Sizes /\ sent \in 0..st_size
  /\ ulp \subseteq {"fd", "cfd"} /\ {tx, rx, failed} \subseteq BOOLEAN
  /\ string_size \in {-1, 0, StringLen} /\ file_size \in {-1, 0, st_size}
  /\ Len(Raw) <= Room

(* What the program prints and what it received: the sizes are right       *)
(* unless only the receiver uses TLS, and also when only the sender does,  *)
(* although not one byte is then what was sent.                            *)
PrintedSizes ==
  pc = "done" =>
    /\ string_size = StringLen /\ file_size = st_size <=> (rx => tx)
    /\ tx = rx => recv_buf = String /\ buf = File /\ wire = <<>>
    /\ tx /\ ~ rx => Range(recv_buf \o buf) \cap Range(String \o File) = {}

Records(n) == (n + RecordLen - 1) \div RecordLen

(* What is in the buffers when sendfile is done; the rest of the string's  *)
(* record is still there if the receiver does not decrypt.                 *)
WireSize ==
  st_size + (IF tx THEN Overhead * Records(st_size) ELSE 0)
          + (IF tx /\ ~ rx THEN Overhead ELSE 0)
          + (IF rx /\ ~ tx THEN StringLen ELSE 0)

(* The program comes to its end if what it sends fits into the buffers and *)
(* its two ends agree.                                                     *)
EndsIfItFits ==
  pc = "sendfile" /\ WireSize <= Room /\ (rx => tx) ~> pc = "done" \/ failed

(* It never returns from sendfile if it does not fit, and never from recv  *)
(* after a failed send, although it reports the failure and goes on.       *)
EndsOnlyIfItFits ==
  pc = "done" => (WireSize <= Room /\ ~ failed) \/ (failed /\ tx # rx)
=============================================================================
