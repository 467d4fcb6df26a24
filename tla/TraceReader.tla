---------------------------- MODULE TraceReader ----------------------------
(***************************************************************************)
(* The readers at the start of analyze_trace.py and                        *)
(* find_frag_double_zero.py, which split the lines of a trace into events. *)
(* A line has a name, with or without a colon, and tokens: a token is the  *)
(* key it gives a value to, "bare" if it holds no "=", or "multi" if it    *)
(* holds more than one.  The value of a token is its place in the file, so *)
(* that one can see where a field comes from.  k and v are variables of    *)
(* the whole script: they keep their value from line to line.              *)
(***************************************************************************)
EXTENDS Integers, SequencesExt

CONSTANTS
  Field,               \* the keys that may stand before a "="
  MaxLines, MaxTokens  \* bounds on the file

VARIABLES
  script,   \* which of the two
  lines,    \* the lines read so far
  k, v,     \* "none" as long as they are unbound
  events,   \* list of [line, fields]
  error     \* the exception that ended the script

Line == {[short |-> FALSE, colon |-> c, tokens |-> t] :
           c \in BOOLEAN, t \in UNION {[1..n -> Field \cup {"bare", "multi"}] : n \in 0..MaxTokens}}
        \cup {[short |-> TRUE, colon |-> FALSE, tokens |-> <<>>]}

Init ==
  /\ script \in {"analyze_trace", "find_frag_double_zero"}
  /\ lines = <<>> /\ k = "none" /\ v = <<>> /\ events = <<>> /\ error = "none"

(* Mutant: what comes after the second "=" is dropped.                     *)
Split_Twice(token) == {IF token = "multi" THEN CHOOSE key \in Field : TRUE ELSE token}

(* What [k, v] = kv.split("=") may bind k to; it fails on two separators.  *)
Split(token) == IF token = "multi" THEN {} ELSE {token}

(* The body of the inner loop: without "=", k and v stay what they were.   *)
Token(r, i, token) ==
  LET Store(key, value) ==
        [r EXCEPT !.k = key, !.v = value, !.fields = (key :> value) @@ r.fields]
  IN  IF r.error # "none" THEN r
      ELSE IF token = "bare"
      THEN IF r.k = "none" THEN [r EXCEPT !.error = "NameError"] ELSE Store(r.k, r.v)
      ELSE IF Split(token) = {} THEN [r EXCEPT !.error = "ValueError"]
      ELSE Store(CHOOSE key \in Split(token) : TRUE, <<Len(lines) + 1, i>>)

(* Mutant: the dict of the last event is used again.                       *)
NewEvent_Reused == IF events = <<>> THEN <<>> ELSE events[Len(events)].fields

NewEvent == <<>>

(* The tokens of a line, one after the other.                              *)
Parsed(tokens) ==
  LET Do(r, i) == Token(r, i, tokens[i])
  IN  FoldLeft(Do, [k |-> k, v |-> v, fields |-> NewEvent, error |-> "none"],
               [i \in DOMAIN tokens |-> i])

Skipped(line) == script = "find_frag_double_zero" /\ ~ line.colon

ReadLine(line) ==
  /\ lines' = Append(lines, line)
  /\ \/ line.short /\ error' = "ValueError" /\ UNCHANGED <<k, v, events>>
     \/ ~ line.short /\ Skipped(line) /\ UNCHANGED <<k, v, events, error>>
     \/ /\ ~ line.short /\ ~ Skipped(line)
        /\ LET r == Parsed(line.tokens) IN
           /\ k' = r.k /\ v' = r.v /\ error' = r.error
           /\ events' = IF r.error # "none" THEN events
                        ELSE Append(events, [line |-> Len(lines) + 1, fields |-> r.fields])
  /\ UNCHANGED script

Next ==
  /\ error = "none" /\ Len(lines) < MaxLines
  /\ \E line \in Line : ReadLine(line)
-----------------------------------------------------------------------------
(* Definitions over the file.                                              *)

Used(n) == ~ lines[n].short /\ ~ Skipped(lines[n])
Places(n, key) == {i \in DOMAIN lines[n].tokens : lines[n].tokens[i] = key}
LastOf(S) == CHOOSE i \in S : \A j \in S : j <= i

(* The lines before n that bind k                                          *)
Binding(n) ==
  {m \in 1..(n - 1) : Used(m) /\ \E key \in Field : Places(m, key) # {}}

(* The key of the last token with "=" in line m                            *)
LastKey(m) ==
  LET t == lines[m].tokens IN t[LastOf({i \in DOMAIN t : t[i] \in Field})]

StartsBare(n) == lines[n].tokens # <<>> /\ lines[n].tokens[1] = "bare"

(* An event has the fields of its own line, each with the last value the   *)
(* line gives it; only if the line starts with a token without "=" is      *)
(* there a field more, the last one of an earlier line.                    *)
FieldsOwn ==
  \A e \in Range(events) :
    LET own == {key \in Field : Places(e.line, key) # {}} IN
    /\ \A key \in own : e.fields[key] = <<e.line, LastOf(Places(e.line, key))>>
    /\ \A key \in DOMAIN e.fields \ own :
         /\ StartsBare(e.line)
         /\ key = LastKey(LastOf(Binding(e.line)))
         /\ e.fields[key][1] < e.line

(* The script reads on, one event per line that it does not skip, exactly  *)
(* as long as no line is cut short, no token has two "=" and no line       *)
(* starts with a token without "=" before any key was seen.                *)
ReadsWhatItCan ==
  LET n == Len(lines)
      Bad(m) == \/ lines[m].short
                \/ Used(m) /\ Places(m, "multi") # {}
                \/ Used(m) /\ StartsBare(m) /\ Binding(m) = {}
  IN  /\ error = "none" <=> \A m \in 1..n : ~ Bad(m)
      /\ [i \in DOMAIN events |-> events[i].line]
           = SelectSeq([m \in 1..n |-> m], LAMBDA m : Used(m) /\ ~ Bad(m))
=============================================================================
