-------------------------- MODULE MCFragDoubleZero --------------------------
(* All traces of a few events over two pages and two fragments, and all     *)
(* files of a few lines; a behaviour is one or the other.                   *)
EXTENDS FragDoubleZero, TLC

CONSTANTS MaxLines, MaxTokens

VARIABLES script, lines, k, v, events, error

rvars == <<script, lines, k, v, events, error>>

R == INSTANCE TraceReader WITH Field <- {"page", "frag"}

MCInit == Init /\ R!Init

MCNext ==
  \/ lines = <<>> /\ script = "find_frag_double_zero" /\ Next /\ UNCHANGED rvars
  \/ trace = <<>> /\ R!Next /\ UNCHANGED vars

MCSpec == MCInit /\ [][MCNext]_<<vars, rvars>>

(* Both readers: a field of an event comes from the event's own line.       *)
FieldsOwn == R!FieldsOwn

(* Both readers: what ends them, and which lines become events.             *)
ReadsWhatItCan == R!ReadsWhatItCan

Symmetry == Permutations(Page) \cup Permutations(Frag)
=============================================================================
