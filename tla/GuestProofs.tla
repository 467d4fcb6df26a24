---------------------------- MODULE GuestProofs -----------------------------
(***************************************************************************)
(* Proofs about init, in the guest, for any inittabs, any number of        *)
(* processes and any number of failures, stops and signals, and about      *)
(* search_mem_dump.py, which searches the guest's memory, for every dump,  *)
(* marker and page size.  The two share nothing but this module.           *)
(***************************************************************************)
EXTENDS GuestInit, SearchMemDump, TLAPS

(* What a list of any length is.                                           *)
LEMMA SeqDef ==
  \A S : Seq(S) = UNION {[1 .. n -> S] : n \in Nat}
OBVIOUS

(* An element of a list, such as an entry of init_action_list.             *)
LEMMA SeqElement ==
  ASSUME NEW S, NEW s \in Seq(S), NEW h \in 1 .. Len(s)
  PROVE  s[h] \in S
OBVIOUS

(* The empty list, with which init starts.                                 *)
LEMMA SeqEmpty ==
  ASSUME NEW S
  PROVE  << >> \in Seq(S) /\ Len(<< >>) = 0 /\ \A s \in Seq(S) : s # << >> => Len(s) \in Nat \ {0}
OBVIOUS

(* A list is a function on the positions up to its length.                 *)
LEMMA SeqLen ==
  ASSUME NEW S, NEW s \in Seq(S)
  PROVE  Len(s) \in Nat /\ s \in [1 .. Len(s) -> S] /\ DOMAIN s = 1 .. Len(s)
OBVIOUS

(* Assigning to a field of one entry.                                      *)
LEMMA SeqUpdated ==
  ASSUME NEW S, NEW s \in Seq(S), NEW h \in 1 .. Len(s), NEW x \in S
  PROVE  /\ [s EXCEPT ![h] = x] \in Seq(S) /\ Len([s EXCEPT ![h] = x]) = Len(s)
         /\ \A j \in 1 .. Len(s) : [s EXCEPT ![h] = x][j] = IF j = h THEN x ELSE s[j]
OBVIOUS

(* Linking an entry at the end of the list.                                *)
LEMMA SeqAppended ==
  ASSUME NEW S, NEW s \in Seq(S), NEW x \in S
  PROVE  /\ Append(s, x) \in Seq(S) /\ Len(Append(s, x)) = Len(s) + 1
         /\ \A h \in 1 .. Len(s) : Append(s, x)[h] = s[h]
         /\ Append(s, x)[Len(s) + 1] = x
OBVIOUS

(* The list has an entry for k whose process is p.                         *)
Holds(list, k, p) == \E h \in DOMAIN list : list[h].key = k /\ list[h].pid = p

KeysDiffer(list) == \A h, j \in DOMAIN list : list[h].key = list[j].key => h = j

SamePids(list, new) ==
  \A k \in Key, p \in Pid \cup {-1} : Holds(new, k, p) <=> Holds(list, k, p)

InittabLine == [key : Key, type : ActionType]

(* Removing an entry without a process.                                    *)
LEMMA WithoutProperties ==
  ASSUME NEW list \in Seq(InitAction), KeysDiffer(list),
         NEW k \in DOMAIN list
  PROVE  /\ Without(list, k) \in Seq(InitAction)
         /\ Len(Without(list, k)) = Len(list) - 1
         /\ KeysDiffer(Without(list, k))
         /\ \A j \in DOMAIN Without(list, k) : Without(list, k)[j].key # list[k].key
         /\ \A q, p : (\E h \in DOMAIN list : h # k /\ list[h].key = q /\ list[h].pid = p)
                        <=> Holds(Without(list, k), q, p)
<1> DEFINE w == Without(list, k)
<1>1. Len(list) \in Nat /\ DOMAIN list = 1..Len(list) /\ Len(list) >= 1
  BY SeqLen
<1>2. DOMAIN w = 1..(Len(list) - 1)
  BY DEF Without
<1>3. \A h \in DOMAIN w : w[h] = IF h < k THEN list[h] ELSE list[h + 1]
  BY DEF Without
<1>4. \A h \in DOMAIN list : list[h] \in InitAction
  BY SeqElement, <1>1
<1>5. w \in [1..(Len(list) - 1) -> InitAction]
  BY <1>1, <1>2, <1>3, <1>4 DEF Without
<1>6. w \in Seq(InitAction) /\ Len(w) = Len(list) - 1
  <2> DEFINE n == Len(list) - 1
  <2>1. n \in Nat
    BY <1>1
  <2>2. w \in [1..n -> InitAction]
    BY <1>5
  <2> HIDE DEF w, n
  <2>3. w \in Seq(InitAction)
    BY <2>1, <2>2, SeqDef
  <2>4. Len(w) = n
    BY <2>1, <2>2, <2>3, SeqLen
  <2> QED
    BY <2>3, <2>4 DEF n
<1>7. \A h \in DOMAIN list : h # k =>
        \E j \in DOMAIN w : w[j] = list[h]
  <2> SUFFICES ASSUME NEW h \in DOMAIN list, h # k
               PROVE  \E j \in DOMAIN w : w[j] = list[h]
    OBVIOUS
  <2>1. CASE h < k
    BY <1>1, <1>2, <1>3, <2>1
  <2>2. CASE h > k
    <3>1. h - 1 \in DOMAIN w /\ ~ (h - 1 < k)
      BY <1>1, <1>2, <2>2
    <3>2. w[h - 1] = list[(h - 1) + 1]
      BY <1>3, <3>1
    <3> QED
      BY <1>1, <3>1, <3>2
  <2> QED
    BY <1>1, <2>1, <2>2
<1>8. \A j \in DOMAIN w : \E h \in DOMAIN list : h # k /\ w[j] = list[h]
  BY <1>1, <1>2, <1>3
<1>9. \A j \in DOMAIN w : w[j].key # list[k].key
  BY <1>8 DEF KeysDiffer
<1>10. KeysDiffer(w)
  <2> SUFFICES ASSUME NEW h \in DOMAIN w, NEW j \in DOMAIN w, w[h].key = w[j].key
               PROVE  h = j
    BY DEF KeysDiffer
  <2> DEFINE At(n) == IF n < k THEN n ELSE n + 1
  <2>1. At(h) \in DOMAIN list /\ At(j) \in DOMAIN list
    BY <1>1, <1>2
  <2>2. w[h] = list[At(h)] /\ w[j] = list[At(j)]
    BY <1>3
  <2>3. At(h) = At(j)
    BY <2>1, <2>2 DEF KeysDiffer
  <2> QED
    BY <1>1, <1>2, <2>3
<1>11. \A q, p : (\E h \in DOMAIN list : h # k /\ list[h].key = q /\ list[h].pid = p)
                   <=> Holds(w, q, p)
  <2> HIDE DEF w
  <2> QED
    BY <1>7, <1>8 DEF Holds
<1> QED
  BY <1>6, <1>9, <1>10, <1>11

(* Appending an entry whose command is new to the list.                    *)
LEMMA AppendEntry ==
  ASSUME NEW list \in Seq(InitAction), KeysDiffer(list), NEW x \in InitAction,
         \A h \in DOMAIN list : list[h].key # x.key
  PROVE  /\ Append(list, x) \in Seq(InitAction)
         /\ KeysDiffer(Append(list, x))
         /\ \A q, p : Holds(Append(list, x), q, p)
                        <=> Holds(list, q, p) \/ (q = x.key /\ p = x.pid)
<1> DEFINE m == Append(list, x)
<1>1. /\ m \in Seq(InitAction) /\ Len(m) = Len(list) + 1
      /\ \A h \in 1..Len(list) : m[h] = list[h]
      /\ m[Len(list) + 1] = x
  BY SeqAppended
<1>2. DOMAIN list = 1..Len(list) /\ DOMAIN m = 1..(Len(list) + 1) /\ Len(list) \in Nat
  BY <1>1, SeqLen
<1> HIDE DEF m
<1>3. \A h \in DOMAIN m : h \in DOMAIN list \/ h = Len(list) + 1
  BY <1>2
<1>4. KeysDiffer(m)
  BY <1>1, <1>2, <1>3 DEF KeysDiffer
<1>5. ASSUME NEW q, NEW p
      PROVE  Holds(m, q, p) <=> Holds(list, q, p) \/ (q = x.key /\ p = x.pid)
  <2>1. Len(list) + 1 \in DOMAIN m
    BY <1>2
  <2>2. \A h \in DOMAIN list : h \in DOMAIN m /\ m[h] = list[h]
    BY <1>1, <1>2
  <2> QED
    BY <1>1, <1>3, <2>1, <2>2 DEF Holds
<1> QED
  BY <1>1, <1>4, <1>5 DEF m

(* new_init_action neither forgets nor invents a process.                  *)
LEMMA NewActionProperties ==
  ASSUME NEW list \in Seq(InitAction), KeysDiffer(list), NEW e \in InittabLine
  PROVE  /\ new_init_action(list, e) \in Seq(InitAction)
         /\ KeysDiffer(new_init_action(list, e))
         /\ SamePids(list, new_init_action(list, e))
<1>1. CASE \E h \in DOMAIN list : list[h].key = e.key
  <2> DEFINE k == CHOOSE h \in DOMAIN list : list[h].key = e.key
             w == Without(list, k)
             x == [list[k] EXCEPT !.type = e.type]
  <2>1. k \in DOMAIN list /\ list[k].key = e.key
    BY <1>1
  <2>2. new_init_action(list, e) = Append(w, x)
    BY <1>1 DEF new_init_action
  <2>3. list[k] \in InitAction
    BY <2>1, SeqElement, SeqLen
  <2>4. x \in InitAction /\ x.key = list[k].key /\ x.pid = list[k].pid
    BY <2>3, Zenon DEF InitAction, InittabLine
  <2> HIDE DEF x, k
  <2>5. /\ w \in Seq(InitAction) /\ KeysDiffer(w)
        /\ \A j \in DOMAIN w : w[j].key # x.key
    BY <2>1, <2>4, WithoutProperties
  <2>6. ASSUME NEW q, NEW p
        PROVE  (\E h \in DOMAIN list : h # k /\ list[h].key = q /\ list[h].pid = p)
                 <=> Holds(w, q, p)
    BY <2>1, WithoutProperties, Zenon
  <2> HIDE DEF w
  <2>7. /\ Append(w, x) \in Seq(InitAction) /\ KeysDiffer(Append(w, x))
        /\ \A q, p : Holds(Append(w, x), q, p) <=> Holds(w, q, p) \/ (q = x.key /\ p = x.pid)
    BY <2>4, <2>5, AppendEntry
  <2>8. SamePids(list, Append(w, x))
    <3> SUFFICES ASSUME NEW q, NEW p
                 PROVE  Holds(Append(w, x), q, p) <=> Holds(list, q, p)
      BY DEF SamePids
    <3>1. Holds(list, q, p) <=>
            \/ \E h \in DOMAIN list : h # k /\ list[h].key = q /\ list[h].pid = p
            \/ q = list[k].key /\ p = list[k].pid
      BY <2>1 DEF Holds
    <3> QED
      BY <2>4, <2>6, <2>7, <3>1
  <2> QED
    BY <2>2, <2>7, <2>8
<1>2. CASE ~ \E h \in DOMAIN list : list[h].key = e.key
  <2> DEFINE x == [key |-> e.key, type |-> e.type, pid |-> 0]
  <2>1. new_init_action(list, e) = Append(list, x)
    BY <1>2 DEF new_init_action
  <2>2. x \in InitAction /\ \A h \in DOMAIN list : list[h].key # x.key
    BY <1>2 DEF InitAction, InittabLine
  <2>3. x.pid = 0
    OBVIOUS
  <2> HIDE DEF x
  <2>4. /\ Append(list, x) \in Seq(InitAction) /\ KeysDiffer(Append(list, x))
        /\ \A q, p : Holds(Append(list, x), q, p) <=> Holds(list, q, p) \/ (q = x.key /\ p = x.pid)
    BY <2>2, AppendEntry
  <2>5. \A p \in Pid \cup {-1} : p # 0
    BY PidAssumption
  <2> QED
    BY <2>1, <2>3, <2>4, <2>5 DEF SamePids
<1> QED
  BY <1>1, <1>2

(* mark_terminated forgets this process only, and only if every entry with *)
(* it is of one command it forgets it altogether.                          *)
LEMMA MarkProperties ==
  ASSUME NEW list \in Seq(InitAction), KeysDiffer(list), NEW p \in Pid
  PROVE  /\ mark_terminated(list, p) \in Seq(InitAction)
         /\ Len(mark_terminated(list, p)) = Len(list)
         /\ KeysDiffer(mark_terminated(list, p))
         /\ \A h \in DOMAIN list :
              /\ mark_terminated(list, p)[h].key = list[h].key
              /\ list[h].pid = 0 => mark_terminated(list, p)[h].pid = 0
         /\ \A k, q : q # p /\ q # 0 =>
              (Holds(mark_terminated(list, p), k, q) <=> Holds(list, k, q))
         /\ \A k : Holds(mark_terminated(list, p), k, p) =>
              Holds(list, k, p) /\ \E j \in DOMAIN list : list[j].key # k /\ list[j].pid = p
<1> DEFINE m == mark_terminated(list, p)
<1>1. p # 0
  BY PidAssumption
<1>2. Len(list) \in Nat /\ DOMAIN list = 1..Len(list) /\ \A h \in DOMAIN list : list[h] \in InitAction
  BY SeqLen, SeqElement
<1>3. DOMAIN m = DOMAIN list
  BY DEF mark_terminated
<1>4. ASSUME NEW h \in DOMAIN list
      PROVE  /\ m[h] \in InitAction
             /\ m[h].key = list[h].key
             /\ m[h].pid = list[h].pid \/ (list[h].pid = p /\ m[h].pid = 0)
             /\ m[h].pid = p => \E j \in 1..(h - 1) : list[j].pid = p
  <2>1. m[h] = IF list[h].pid = p /\ \A j \in 1..(h - 1) : list[j].pid # p
               THEN [list[h] EXCEPT !.pid = 0] ELSE list[h]
    BY DEF mark_terminated
  <2>2. list[h] \in InitAction
    BY <1>2
  <2>3. CASE list[h].pid = p /\ \A j \in 1..(h - 1) : list[j].pid # p
    <3>1. m[h] = [list[h] EXCEPT !.pid = 0]
      BY <2>1, <2>3
    <3> HIDE DEF m
    <3> QED
      BY <1>1, <2>2, <2>3, <3>1 DEF InitAction
  <2>4. CASE ~ (list[h].pid = p /\ \A j \in 1..(h - 1) : list[j].pid # p)
    <3>1. m[h] = list[h]
      BY <2>1, <2>4
    <3> HIDE DEF m
    <3> QED
      BY <2>2, <2>4, <3>1
  <2> QED
    BY <2>3, <2>4
<1> HIDE DEF m
<1>5. m \in Seq(InitAction) /\ Len(m) = Len(list)
  <2>0. DOMAIN m = 1..Len(list) /\ Len(list) \in Nat
    BY <1>2, <1>3
  <2>1. m \in [1..Len(list) -> InitAction]
    BY <1>2, <1>4 DEF m, mark_terminated
  <2>2. m \in Seq(InitAction)
    BY <2>0, <2>1, SeqDef
  <2> QED
    BY <2>0, <2>2, SeqLen
<1>6. KeysDiffer(m)
  BY <1>3, <1>4 DEF KeysDiffer
<1>7. ASSUME NEW k, NEW q, q # p, q # 0
      PROVE  Holds(m, k, q) <=> Holds(list, k, q)
  BY <1>3, <1>4, <1>7 DEF Holds
<1>8. ASSUME NEW k, Holds(m, k, p)
      PROVE  Holds(list, k, p) /\ \E j \in DOMAIN list : list[j].key # k /\ list[j].pid = p
  <2>1. PICK h \in DOMAIN list : m[h].key = k /\ m[h].pid = p
    BY <1>3, <1>8 DEF Holds
  <2>2. list[h].key = k /\ list[h].pid = p
    BY <1>1, <1>4, <2>1
  <2>3. PICK j \in 1..(h - 1) : list[j].pid = p
    BY <1>4, <2>1
  <2>4. j \in DOMAIN list /\ j # h
    BY <1>2
  <2>5. list[j].key # k
    BY <2>2, <2>4 DEF KeysDiffer
  <2> QED
    BY <2>2, <2>3, <2>4, <2>5 DEF Holds
<1>9. \A h \in DOMAIN list : m[h].key = list[h].key /\ (list[h].pid = 0 => m[h].pid = 0)
  BY <1>1, <1>4
<1> QED
  BY <1>5, <1>6, <1>7, <1>8, <1>9 DEF m

(* Storing a pid in an entry that has none.                                *)
LEMMA StoreProperties ==
  ASSUME NEW list \in Seq(InitAction), KeysDiffer(list),
         NEW k \in DOMAIN list, list[k].pid = 0, NEW v \in Pid \cup {-1}
  PROVE  /\ [list EXCEPT ![k].pid = v] \in Seq(InitAction)
         /\ KeysDiffer([list EXCEPT ![k].pid = v])
         /\ \A q, p : p # 0 =>
              (Holds([list EXCEPT ![k].pid = v], q, p)
                 <=> Holds(list, q, p) \/ (q = list[k].key /\ p = v))
<1> DEFINE m == [list EXCEPT ![k].pid = v]
           x == [list[k] EXCEPT !.pid = v]
<1>1. Len(list) \in Nat /\ DOMAIN list = 1..Len(list) /\ list[k] \in InitAction
  BY SeqLen, SeqElement
<1>2. x \in InitAction /\ x.key = list[k].key /\ x.pid = v
  BY <1>1 DEF InitAction
<1>3. m = [list EXCEPT ![k] = x]
  OBVIOUS
<1> HIDE DEF x
<1>4. /\ m \in Seq(InitAction) /\ DOMAIN m = DOMAIN list
      /\ \A j \in DOMAIN list : m[j] = IF j = k THEN x ELSE list[j]
  BY <1>1, <1>2, <1>3, SeqUpdated
<1> HIDE DEF m
<1>5. KeysDiffer(m)
  BY <1>2, <1>4 DEF KeysDiffer
<1>6. ASSUME NEW q, NEW p, p # 0
      PROVE  Holds(m, q, p) <=> Holds(list, q, p) \/ (q = list[k].key /\ p = v)
  BY <1>2, <1>4, <1>6 DEF Holds
<1> QED
  BY <1>4, <1>5, <1>6, Zenon DEF m

(* The start of reload_inittab.                                            *)
LEMMA DisableProperties ==
  ASSUME NEW list \in Seq(InitAction), KeysDiffer(list)
  PROVE  LET m == [h \in DOMAIN list |-> [list[h] EXCEPT !.type = "none"]]
         IN  m \in Seq(InitAction) /\ KeysDiffer(m) /\ SamePids(list, m)
<1> DEFINE m == [h \in DOMAIN list |-> [list[h] EXCEPT !.type = "none"]]
<1>1. Len(list) \in Nat /\ DOMAIN list = 1..Len(list) /\ \A h \in DOMAIN list : list[h] \in InitAction
  BY SeqLen, SeqElement
<1>2. ASSUME NEW h \in DOMAIN list
      PROVE  m[h] \in InitAction /\ m[h].key = list[h].key /\ m[h].pid = list[h].pid
  <2>1. list[h] \in InitAction
    BY <1>1
  <2>2. m[h] = [list[h] EXCEPT !.type = "none"]
    OBVIOUS
  <2> HIDE DEF m
  <2> QED
    BY <2>1, <2>2 DEF InitAction
<1>3. DOMAIN m = DOMAIN list
  OBVIOUS
<1>4. m \in [1..Len(list) -> InitAction]
  BY <1>1, <1>2
<1> HIDE DEF m
<1>5. m \in Seq(InitAction)
  BY <1>1, <1>4, SeqDef
<1>6. KeysDiffer(m) /\ SamePids(list, m)
  BY <1>2, <1>3 DEF KeysDiffer, SamePids, Holds
<1> QED
  BY <1>5, <1>6 DEF m

-----------------------------------------------------------------------------
(* Every process that is to be restarted is known to init.                 *)
Recorded ==
  \A p \in Pid :
    ~ Is(p, "free") /\ proc[p].type \in Restarted =>
      (at = "forked" /\ child = p) \/ Holds(init_action_list, proc[p].key, p)

(* Between run and the assignment the entry has no process.                *)
ForkedEntry ==
  at = "forked" =>
    /\ a \in DOMAIN init_action_list /\ init_action_list[a].pid = 0
    /\ child \in Pid
    /\ Is(child, "free") => stops > 0
    /\ ~ Is(child, "free") => proc[child].key = init_action_list[a].key

PidTrue ==
  \A k \in Key, p \in Pid \cup {-1} :
    Holds(init_action_list, k, p) =>
      \/ p = -1 /\ forkFails > 0
      \/ p \in Pid /\ (stops > 0 \/ (~ Is(p, "free") /\ proc[p].key = k))

StoppedCounted == stopped => stops > 0

Core ==
  /\ KeysDiffer(init_action_list) /\ Recorded /\ ForkedEntry /\ AwaitedAlone
  /\ PidTrue /\ StoppedCounted

IInv == TypeOK /\ Core

(* What the invariant says of the processes and the list is enough for the *)
(* three properties.                                                       *)
LEMMA InvImplies ==
  ASSUME IInv
  PROVE  OneProcessPerEntry /\ AwaitedAlone /\ PidExplained
<1>1. OneProcessPerEntry
  <2> SUFFICES ASSUME NEW p \in Pid, NEW q \in Pid,
                      Is(p, "alive"), proc[p].type \in Restarted,
                      Is(q, "alive"), proc[q].type \in Restarted,
                      proc[p].key = proc[q].key
               PROVE  p = q
    BY DEF OneProcessPerEntry
  <2> DEFINE k == proc[p].key
  <2>1. ~ Is(p, "free") /\ ~ Is(q, "free")
    BY DEF Is
  <2>2. /\ (at = "forked" /\ child = p) \/ Holds(init_action_list, k, p)
        /\ (at = "forked" /\ child = q) \/ Holds(init_action_list, k, q)
    BY <2>1 DEF IInv, Core, Recorded
  <2>3. ASSUME NEW x \in Pid, Holds(init_action_list, k, x), at = "forked", Is(child, "alive"),
               proc[child].key = k
        PROVE  FALSE
    <3>1. x # 0
      BY PidAssumption
    <3>2. PICK h \in DOMAIN init_action_list :
            init_action_list[h].key = k /\ init_action_list[h].pid = x
      BY <2>3 DEF Holds
    <3>3. /\ a \in DOMAIN init_action_list /\ init_action_list[a].pid = 0
          /\ init_action_list[a].key = k
      BY <2>3 DEF IInv, Core, ForkedEntry, Is
    <3>4. h = a
      BY <3>2, <3>3 DEF IInv, Core, KeysDiffer
    <3> QED
      BY <3>1, <3>2, <3>3, <3>4
  <2>4. ASSUME Holds(init_action_list, k, p), Holds(init_action_list, k, q)
        PROVE  p = q
    BY <2>4 DEF IInv, Core, KeysDiffer, Holds
  <2> QED
    BY <2>2, <2>3, <2>4
<1>2. PidExplained
  <2> SUFFICES ASSUME NEW h \in DOMAIN init_action_list, init_action_list[h].pid # 0
               PROVE  LET pid == init_action_list[h].pid IN
                      \/ pid = -1 /\ forkFails > 0
                      \/ pid \in Pid /\ (stops > 0 \/ (~ Is(pid, "free")
                                        /\ proc[pid].key = init_action_list[h].key))
    BY DEF PidExplained
  <2>1. init_action_list[h] \in InitAction
    BY SeqLen, SeqElement DEF IInv, TypeOK
  <2>2. init_action_list[h].key \in Key /\ init_action_list[h].pid \in Pid \cup {-1}
    BY <2>1 DEF InitAction
  <2>3. Holds(init_action_list, init_action_list[h].key, init_action_list[h].pid)
    BY DEF Holds
  <2> QED
    BY <2>2, <2>3 DEF IInv, Core, PidTrue
<1> QED
  BY <1>1, <1>2 DEF IInv, Core

(* The invariant holds before the file has been read.                      *)
LEMMA InvInit == Init => IInv
<1> SUFFICES ASSUME Init PROVE IInv
  OBVIOUS
<1>1. init_action_list \in Seq(InitAction) /\ DOMAIN init_action_list = {}
  BY SeqEmpty DEF Init
<1>2. \A p \in Pid : proc[p] = Free
  BY DEF Init
<1>3. TypeOK
  <2>1. proc \in [Pid -> {Free} \cup [state : {"alive", "zombie"}, key : Key, type : ActionType]]
    BY DEF Init
  <2>2. pending \subseteq Signal /\ stopped \in BOOLEAN
    BY Zenon DEF Init
  <2> QED
    BY <1>1, <2>1, <2>2 DEF Init, TypeOK
<1>4. Core
  BY <1>1, <1>2 DEF Init, Core, KeysDiffer, Recorded, ForkedEntry, AwaitedAlone, PidTrue,
     StoppedCounted, Holds, Is, Free
<1> QED
  BY <1>3, <1>4 DEF IInv

(* Steps that leave the processes alone and no pid of the list changed,    *)
(* outside waitfor and the assignment of a pid.                            *)
LEMMA Frame ==
  ASSUME IInv, UNCHANGED <<proc, forkFails, stops, stopped>>,
         init_action_list' \in Seq(InitAction),
         KeysDiffer(init_action_list'), SamePids(init_action_list, init_action_list'),
         at \notin {"forked", "waitfor"}, at' \notin {"forked", "waitfor"}
  PROVE  Core'
<1>1. Recorded'
  <2> SUFFICES ASSUME NEW p \in Pid, ~ Is(p, "free"), proc[p].type \in Restarted
               PROVE  Holds(init_action_list', proc[p].key, p)
    BY DEF Recorded, Is
  <2>1. Holds(init_action_list, proc[p].key, p)
    BY DEF IInv, Core, Recorded
  <2>2. proc[p].key \in Key
    BY DEF IInv, TypeOK, Is, Free
  <2> QED
    BY <2>1, <2>2 DEF SamePids
<1>2. PidTrue'
  BY DEF IInv, Core, PidTrue, SamePids, Is
<1>3. AwaitedAlone' /\ ForkedEntry' /\ StoppedCounted'
  BY DEF IInv, Core, AwaitedAlone, ForkedEntry, StoppedCounted, Is
<1> QED
  BY <1>1, <1>2, <1>3 DEF Core

(* The special case of a step that moves init and nothing else.            *)
LEMMA Moves ==
  ASSUME IInv, UNCHANGED <<init_action_list, proc, forkFails, stops, stopped>>,
         at \notin {"forked", "waitfor"}, at' \notin {"forked", "waitfor"}
  PROVE  Core'
<1>1. SamePids(init_action_list, init_action_list')
  BY DEF SamePids
<1>2. init_action_list' \in Seq(InitAction) /\ KeysDiffer(init_action_list')
  BY DEF IInv, TypeOK, Core
<1> QED
  BY <1>1, <1>2, Frame

-----------------------------------------------------------------------------
(* A line of the file moves or adds an entry and keeps all pids.           *)
LEMMA StepParse ==
  ASSUME IInv, parse_inittab, UNCHANGED <<stopped, stops, signals>>
  PROVE  IInv'
<1>1. inittab \in Seq(InittabLine)
  BY InittabAssumption, Zenon DEF IInv, TypeOK, InittabLine
<1>2. /\ init_action_list' \in Seq(InitAction) /\ KeysDiffer(init_action_list')
      /\ SamePids(init_action_list, init_action_list')
  <2>1. CASE a <= Len(inittab)
    <3>1. inittab[a] \in InittabLine
      <4>1. a \in 1..Len(inittab)
        BY <1>1, <2>1, SeqLen DEF IInv, TypeOK
      <4> QED
        BY <1>1, <4>1, SeqElement
    <3>2. init_action_list' = new_init_action(init_action_list, inittab[a])
      BY <2>1 DEF parse_inittab
    <3> QED
      BY <3>1, <3>2, NewActionProperties DEF IInv, TypeOK, Core
  <2>2. CASE ~ (a <= Len(inittab))
    <3>1. init_action_list' = init_action_list
      BY <2>2 DEF parse_inittab
    <3> QED
      BY <3>1 DEF IInv, TypeOK, Core, SamePids
  <2> QED
    BY <2>1, <2>2
<1>3. /\ at = "parse" /\ at' \in {"parse", "prune", "actions"}
      /\ UNCHANGED <<proc, child, pending, inittab, forkFails>>
      /\ stage' \in {stage, "SYSINIT"} /\ group' \in {group, "SYSINIT"} /\ a' \in {1, a + 1}
  BY DEF parse_inittab, RunActions
<1>4. TypeOK'
  BY <1>2, <1>3 DEF IInv, TypeOK
<1>5. Core'
  BY <1>2, <1>3, Frame
<1> QED
  BY <1>4, <1>5 DEF IInv

(* reload_inittab removes only entries without a process.                  *)
LEMMA StepPrune ==
  ASSUME IInv, Prune, UNCHANGED <<stopped, stops, signals>>
  PROVE  IInv'
<1>1. /\ init_action_list' \in Seq(InitAction) /\ KeysDiffer(init_action_list')
      /\ SamePids(init_action_list, init_action_list')
  <2>1. CASE init_action_list' = init_action_list
    BY <2>1 DEF IInv, TypeOK, Core, SamePids
  <2>2. CASE init_action_list' # init_action_list
    <3>1. /\ ~ (a > Len(init_action_list)) /\ Stale(Entry)
          /\ init_action_list' = Without(init_action_list, a)
      BY <2>2 DEF Prune
    <3>2. a \in DOMAIN init_action_list
      BY <3>1, SeqLen DEF IInv, TypeOK
    <3>3. init_action_list[a].pid = 0
      BY <3>1 DEF Stale, Entry
    <3>4. init_action_list \in Seq(InitAction) /\ KeysDiffer(init_action_list)
      BY DEF IInv, TypeOK, Core
    <3>5. /\ Without(init_action_list, a) \in Seq(InitAction)
          /\ KeysDiffer(Without(init_action_list, a))
      BY <3>2, <3>4, WithoutProperties
    <3>6. ASSUME NEW k \in Key, NEW p \in Pid \cup {-1}
          PROVE  Holds(Without(init_action_list, a), k, p) <=> Holds(init_action_list, k, p)
      <4>1. p # 0
        BY PidAssumption
      <4>2. (\E h \in DOMAIN init_action_list :
               h # a /\ init_action_list[h].key = k /\ init_action_list[h].pid = p)
              <=> Holds(Without(init_action_list, a), k, p)
        BY <3>2, <3>4, WithoutProperties, Zenon
      <4> QED
        BY <3>3, <4>1, <4>2 DEF Holds
    <3> QED
      BY <3>1, <3>5, <3>6 DEF SamePids
  <2> QED
    BY <2>1, <2>2
<1>2. /\ at = "prune" /\ at' \in {"prune", "actions", "reap"}
      /\ UNCHANGED <<proc, child, pending, inittab, forkFails>>
      /\ stage' \in {stage, "WAIT", "ONCE"} /\ group' \in {group, "WAIT", "ONCE"}
      /\ a' \in {1, a, a + 1}
  BY DEF Prune, AfterSigs, RunActions, Goto
<1>3. TypeOK'
  BY <1>1, <1>2 DEF IInv, TypeOK
<1>4. Core'
  BY <1>1, <1>2, Frame
<1> QED
  BY <1>3, <1>4 DEF IInv

(* init moves on, in the list or to its next stage.                        *)
LEMMA StepMoves ==
  ASSUME IInv, Skip \/ EndOfActions \/ NoDelayedSig,
         UNCHANGED <<stopped, stops, signals>>
  PROVE  IInv'
<1>1. /\ at \in {"actions", "sigs"} /\ at' \in {"actions", "sigs", "kill", "reap"}
      /\ UNCHANGED <<init_action_list, proc, child, pending, inittab, forkFails>>
      /\ stage' \in {stage, "WAIT", "ONCE", "LOOP"} /\ group' \in {group, "WAIT", "ONCE", "LOOP"}
      /\ a' \in {1, a, a + 1}
  BY DEF Skip, EndOfActions, NoDelayedSig, AfterSigs, RunActions, Goto, NextAction
<1>2. TypeOK'
  BY <1>1 DEF IInv, TypeOK
<1>3. Core'
  BY <1>1, Moves
<1> QED
  BY <1>2, <1>3 DEF IInv

(* A delayed signal is taken; SIGHUP disables the entries but keeps their  *)
(* pids.                                                                   *)
LEMMA StepSigs ==
  ASSUME IInv, check_delayed_sigs, UNCHANGED <<stopped, stops, signals>>
  PROVE  IInv'
<1>1. /\ at = "sigs" /\ at' \in {"parse", "actions", "reap"}
      /\ UNCHANGED <<proc, child, forkFails>>
      /\ stage' \in {stage, "WAIT", "ONCE", "exec", "halt"}
      /\ group' \in {group, "WAIT", "ONCE", "CTRLALTDEL", "SHUTDOWN"}
      /\ a' \in {1, a}
      /\ inittab' \in {inittab} \cup Inittabs
      /\ \/ init_action_list' = init_action_list
         \/ init_action_list' =
              [h \in DOMAIN init_action_list |-> [init_action_list[h] EXCEPT !.type = "none"]]
  BY DEF check_delayed_sigs, AfterSigs, RunActions, Goto, Shutdown
<1>2. pending' \subseteq pending
  BY DEF check_delayed_sigs, Shutdown, Untaken
<1>3. /\ init_action_list' \in Seq(InitAction) /\ KeysDiffer(init_action_list')
      /\ SamePids(init_action_list, init_action_list')
  <2>1. CASE init_action_list' = init_action_list
    BY <2>1 DEF IInv, TypeOK, Core, SamePids
  <2>2. CASE init_action_list' =
               [h \in DOMAIN init_action_list |-> [init_action_list[h] EXCEPT !.type = "none"]]
    BY <2>2, DisableProperties DEF IInv, TypeOK, Core
  <2> QED
    BY <1>1, <2>1, <2>2
<1>4. TypeOK'
  BY <1>1, <1>2, <1>3 DEF IInv, TypeOK
<1>5. Core'
  BY <1>1, <1>3, Frame
<1> QED
  BY <1>4, <1>5 DEF IInv

Child == {Free} \cup [state : {"alive", "zombie"}, key : Key, type : ActionType]

(* run starts a process for the entry.                                     *)
LEMMA StepFork ==
  ASSUME IInv, NEW p \in Pid, Fork(p), UNCHANGED <<stopped, stops, signals>>
  PROVE  IInv'
<1>1. /\ at = "actions" /\ a \in DOMAIN init_action_list /\ Is(p, "free")
      /\ Entry \in InitAction /\ Entry.type \in Types(group)
      /\ Entry.type \in Restarted => Entry.pid = 0
  BY SeqLen, SeqElement DEF IInv, TypeOK, Fork, Due, Entry
<1>2. Entry.type \in Restarted \cup Awaited \cup {"ONCE"} /\ Entry.key \in Key
  BY <1>1 DEF Types, Restarted, Awaited, IInv, TypeOK, InitAction
<1> DEFINE x == [state |-> "alive", key |-> Entry.key, type |-> Entry.type]
<1>3. x \in Child /\ x.state = "alive" /\ x.key = Entry.key /\ x.type = Entry.type
  BY <1>2 DEF Child, ActionType
<1>4. proc \in [Pid -> Child] /\ proc' = [proc EXCEPT ![p] = x]
  BY DEF IInv, TypeOK, Fork, Child
<1> HIDE DEF x
<1>5. /\ proc' \in [Pid -> Child] /\ proc'[p] = x
      /\ \A q \in Pid : q # p => proc'[q] = proc[q]
  BY <1>3, <1>4
<1>6. /\ UNCHANGED <<init_action_list, pending, inittab, forkFails, stage, group>>
      /\ Entry.type = "ONCE" => at' = "actions" /\ a' = a + 1 /\ child' = child
      /\ Entry.type \in Awaited => at' = "waitfor" /\ a' = a /\ child' = p
      /\ Entry.type \in Restarted => at' = "forked" /\ a' = a /\ child' = p
  BY DEF Fork, NextAction, Awaited, Restarted
<1>7. Restarted \cap (Awaited \cup {"ONCE"}) = {} /\ "ONCE" \notin Awaited
  BY DEF Restarted, Awaited
<1>8. TypeOK'
  BY <1>2, <1>5, <1>6 DEF IInv, TypeOK, Child
<1>9. Recorded'
  <2> SUFFICES ASSUME NEW q \in Pid, ~ Is(q, "free")', proc'[q].type \in Restarted
               PROVE  (at' = "forked" /\ child' = q) \/ Holds(init_action_list, proc'[q].key, q)
    BY <1>6 DEF Recorded
  <2>1. CASE q = p
    BY <1>3, <1>5, <1>6, <2>1
  <2>2. CASE q # p
    <3>1. proc'[q] = proc[q]
      BY <1>5, <2>2
    <3> QED
      BY <1>1, <3>1 DEF IInv, Core, Recorded, Is
  <2> QED
    BY <2>1, <2>2
<1>10. ForkedEntry'
  <2> SUFFICES ASSUME at' = "forked"
               PROVE  /\ a' \in DOMAIN init_action_list /\ init_action_list[a'].pid = 0
                      /\ child' \in Pid /\ ~ Is(child, "free")'
                      /\ proc'[child'].key = init_action_list[a'].key
    BY <1>6 DEF ForkedEntry
  <2>1. Entry.type \in Restarted /\ a' = a /\ child' = p
    BY <1>2, <1>6
  <2> QED
    BY <1>1, <1>3, <1>5, <2>1 DEF Is, Entry
<1>11. AwaitedAlone'
  <2> SUFFICES ASSUME NEW q \in Pid, Is(q, "alive")', proc'[q].type \in Awaited
               PROVE  at' = "waitfor" /\ child' = q
    BY DEF AwaitedAlone
  <2>1. CASE q = p
    BY <1>3, <1>5, <1>6, <2>1
  <2>2. CASE q # p
    <3>1. proc'[q] = proc[q]
      BY <1>5, <2>2
    <3> QED
      BY <1>1, <3>1 DEF IInv, Core, AwaitedAlone, Is
  <2> QED
    BY <2>1, <2>2
<1>12. PidTrue'
  <2> SUFFICES ASSUME NEW k \in Key, NEW q \in Pid \cup {-1}, Holds(init_action_list, k, q)
               PROVE  \/ q = -1 /\ forkFails > 0
                      \/ q \in Pid /\ (stops > 0 \/ (~ Is(q, "free")' /\ proc'[q].key = k))
    BY <1>6 DEF PidTrue
  <2>1. \/ q = -1 /\ forkFails > 0
        \/ q \in Pid /\ (stops > 0 \/ (~ Is(q, "free") /\ proc[q].key = k))
    BY DEF IInv, Core, PidTrue
  <2>2. CASE q = p
    BY <1>1, <2>1, <2>2
  <2>3. CASE q # p
    BY <1>5, <2>1, <2>3 DEF Is
  <2> QED
    BY <2>2, <2>3
<1>13. KeysDiffer(init_action_list)' /\ StoppedCounted'
  BY <1>6 DEF IInv, Core, StoppedCounted, KeysDiffer
<1> QED
  BY <1>8, <1>9, <1>10, <1>11, <1>12, <1>13 DEF IInv, Core

(* vfork fails and its -1 is stored as a pid.                              *)
LEMMA StepForkFail ==
  ASSUME IInv, ForkFail, UNCHANGED <<stopped, stops, signals>>
  PROVE  IInv'
<1>1. /\ at = "actions" /\ a \in DOMAIN init_action_list
      /\ Entry.type \in Restarted => Entry.pid = 0
      /\ at' = "actions" /\ a' = a + 1
      /\ UNCHANGED <<proc, child, pending, inittab, stage, group>>
      /\ forkFails' = forkFails + 1
  BY SeqLen DEF IInv, TypeOK, ForkFail, Due, NextAction
<1>2. init_action_list \in Seq(InitAction) /\ KeysDiffer(init_action_list)
  BY DEF IInv, TypeOK, Core
<1>3. /\ init_action_list' \in Seq(InitAction) /\ KeysDiffer(init_action_list')
      /\ \A k \in Key, p \in Pid :
           Holds(init_action_list', k, p) <=> Holds(init_action_list, k, p)
  <2>1. CASE Entry.type \in Restarted
    <3> DEFINE v == -1
    <3>1. init_action_list' = [init_action_list EXCEPT ![a].pid = v] /\ v \in Pid \cup {-1}
      BY <2>1 DEF ForkFail, ForkError
    <3> HIDE DEF v
    <3>2. init_action_list[a].pid = 0
      BY <1>1, <2>1 DEF Entry
    <3>3. init_action_list' \in Seq(InitAction) /\ KeysDiffer(init_action_list')
      BY <1>1, <1>2, <3>1, <3>2, StoreProperties, Zenon
    <3>4. ASSUME NEW k \in Key, NEW p \in Pid
          PROVE  Holds(init_action_list', k, p) <=> Holds(init_action_list, k, p)
      <4>1. p # 0 /\ p # v
        BY PidAssumption DEF v
      <4>2. Holds([init_action_list EXCEPT ![a].pid = v], k, p)
              <=> Holds(init_action_list, k, p) \/ (k = init_action_list[a].key /\ p = v)
        BY <1>1, <1>2, <3>1, <3>2, <4>1, StoreProperties, Zenon
      <4> QED
        BY <3>1, <4>1, <4>2, SMTT(30)
    <3> QED
      BY <3>3, <3>4
  <2>2. CASE Entry.type \notin Restarted
    BY <1>2, <2>2 DEF ForkFail
  <2> QED
    BY <2>1, <2>2
<1>4. TypeOK'
  BY <1>1, <1>3 DEF IInv, TypeOK
<1>5. Recorded'
  <2> SUFFICES ASSUME NEW p \in Pid, ~ Is(p, "free"), proc[p].type \in Restarted
               PROVE  Holds(init_action_list', proc[p].key, p)
    BY <1>1 DEF Recorded, Is
  <2>1. Holds(init_action_list, proc[p].key, p) /\ proc[p].key \in Key
    BY <1>1 DEF IInv, Core, Recorded, TypeOK, Is, Free
  <2> QED
    BY <1>3, <2>1
<1>6. PidTrue'
  <2> SUFFICES ASSUME NEW k \in Key, NEW p \in Pid \cup {-1}, Holds(init_action_list', k, p)
               PROVE  \/ p = -1 /\ forkFails' > 0
                      \/ p \in Pid /\ (stops > 0 \/ (~ Is(p, "free") /\ proc[p].key = k))
    BY <1>1 DEF PidTrue, Is
  <2>1. forkFails' > 0
    BY <1>1 DEF IInv, TypeOK
  <2>2. CASE p \in Pid
    <3>1. Holds(init_action_list, k, p) /\ p # -1
      BY <1>3, <2>2, PidAssumption
    <3> QED
      BY <2>2, <3>1 DEF IInv, Core, PidTrue
  <2> QED
    BY <2>1, <2>2
<1>7. ForkedEntry' /\ AwaitedAlone' /\ StoppedCounted'
  BY <1>1 DEF IInv, Core, ForkedEntry, AwaitedAlone, StoppedCounted, Is
<1> QED
  BY <1>3, <1>4, <1>5, <1>6, <1>7 DEF IInv, Core

(* a->pid = run(a), for a process that may already have exited.            *)
LEMMA StepStorePid ==
  ASSUME IInv, StorePid, UNCHANGED <<stopped, stops, signals>>
  PROVE  IInv'
<1>1. /\ at = "forked" /\ at' = "actions" /\ a' = a + 1
      /\ init_action_list' = [init_action_list EXCEPT ![a].pid = child]
      /\ UNCHANGED <<proc, child, pending, inittab, forkFails, stage, group>>
  BY DEF StorePid, NextAction
<1>2. /\ a \in DOMAIN init_action_list /\ init_action_list[a].pid = 0 /\ child \in Pid
      /\ Is(child, "free") => stops > 0
      /\ ~ Is(child, "free") => proc[child].key = init_action_list[a].key
      /\ init_action_list \in Seq(InitAction) /\ KeysDiffer(init_action_list)
  BY <1>1 DEF IInv, TypeOK, Core, ForkedEntry
<1>3. init_action_list' \in Seq(InitAction) /\ KeysDiffer(init_action_list')
  BY <1>1, <1>2, StoreProperties, Zenon
<1>4. ASSUME NEW k, NEW p, p # 0
      PROVE  Holds(init_action_list', k, p)
               <=> Holds(init_action_list, k, p) \/ (k = init_action_list[a].key /\ p = child)
  BY <1>1, <1>2, <1>4, StoreProperties, Zenon
<1>5. \A p \in Pid \cup {-1} : p # 0
  BY PidAssumption
<1>6. TypeOK'
  BY <1>1, <1>3 DEF IInv, TypeOK
<1>7. Recorded'
  BY <1>1, <1>2, <1>4, <1>5, Zenon DEF IInv, Core, Recorded, Is
<1>8. PidTrue'
  BY <1>1, <1>2, <1>4, <1>5 DEF IInv, Core, PidTrue, Is
<1>9. ForkedEntry' /\ AwaitedAlone' /\ StoppedCounted'
  BY <1>1 DEF IInv, Core, ForkedEntry, AwaitedAlone, StoppedCounted, Is
<1> QED
  BY <1>3, <1>6, <1>7, <1>8, <1>9 DEF IInv, Core

-----------------------------------------------------------------------------
(* A zombie is reaped while init stays where it is, in its main loop, in   *)
(* waitfor or stopped.                                                     *)
LEMMA ReapCore ==
  ASSUME IInv, NEW p \in Pid, Is(p, "zombie"), proc' = [proc EXCEPT ![p] = Free],
         \/ init_action_list' = mark_terminated(init_action_list, p)
         \/ init_action_list' = init_action_list /\ stops > 0,
         UNCHANGED <<child, forkFails, stops, stopped>>,
         \/ at' = at /\ a' = a /\ (at = "forked" => stopped)
         \/ /\ at # "forked" /\ at' # "forked"
            /\ \A q \in Pid : Is(q, "alive") => proc[q].type \notin Awaited
  PROVE  init_action_list' \in Seq(InitAction) /\ proc' \in [Pid -> Child] /\ Core'
<1>1. /\ init_action_list \in Seq(InitAction) /\ KeysDiffer(init_action_list)
      /\ proc \in [Pid -> Child] /\ Free \in Child
  BY DEF IInv, TypeOK, Core, Child
<1>2. /\ proc' \in [Pid -> Child] /\ proc'[p] = Free
      /\ \A q \in Pid : q # p => proc'[q] = proc[q]
  BY <1>1
<1>3. p # 0 /\ \A q \in Pid \cup {-1} : q # 0
  BY PidAssumption
<1>4. /\ init_action_list' \in Seq(InitAction) /\ KeysDiffer(init_action_list')
      /\ DOMAIN init_action_list' = DOMAIN init_action_list
      /\ \A h \in DOMAIN init_action_list :
           /\ init_action_list'[h].key = init_action_list[h].key
           /\ init_action_list[h].pid = 0 => init_action_list'[h].pid = 0
  <2>1. CASE init_action_list' = mark_terminated(init_action_list, p)
    BY <1>1, <2>1, MarkProperties, SeqLen
  <2>2. CASE init_action_list' = init_action_list
    BY <1>1, <2>2
  <2> QED
    BY <2>1, <2>2
<1>5. ASSUME NEW k, NEW q, q # p, q # 0
      PROVE  Holds(init_action_list', k, q) <=> Holds(init_action_list, k, q)
  <2>1. CASE init_action_list' = mark_terminated(init_action_list, p)
    BY <1>1, <1>5, <2>1, MarkProperties
  <2>2. CASE init_action_list' = init_action_list
    BY <2>2
  <2> QED
    BY <2>1, <2>2
<1>6. ASSUME NEW k \in Key, Holds(init_action_list', k, p)
      PROVE  stops > 0
  <2>1. CASE init_action_list' = mark_terminated(init_action_list, p)
    <3>1. /\ Holds(init_action_list, k, p)
          /\ \E j \in DOMAIN init_action_list :
               init_action_list[j].key # k /\ init_action_list[j].pid = p
      BY <1>1, <1>6, <2>1, MarkProperties
    <3>2. PICK j \in DOMAIN init_action_list :
            init_action_list[j].key # k /\ init_action_list[j].pid = p
      BY <3>1
    <3>3. init_action_list[j] \in InitAction
      BY <1>1, SeqLen, SeqElement
    <3>4. init_action_list[j].key \in Key
      BY <3>3 DEF InitAction
    <3>5. Holds(init_action_list, init_action_list[j].key, p)
      BY <3>2 DEF Holds
    <3>6. p # -1
      BY PidAssumption
    <3> QED
      BY <3>1, <3>2, <3>4, <3>5, <3>6 DEF IInv, Core, PidTrue
  <2> QED
    BY <2>1
<1>7. Recorded'
  <2> SUFFICES ASSUME NEW q \in Pid, ~ Is(q, "free")', proc'[q].type \in Restarted
               PROVE  \/ at' = "forked" /\ child' = q
                      \/ Holds(init_action_list', proc'[q].key, q)
    BY DEF Recorded
  <2>1. q # p /\ proc'[q] = proc[q]
    BY <1>2 DEF Is, Free
  <2>2. (at = "forked" /\ child = q) \/ Holds(init_action_list, proc[q].key, q)
    BY <2>1 DEF IInv, Core, Recorded, Is
  <2> QED
    BY <1>3, <1>5, <2>1, <2>2
<1>8. ForkedEntry'
  <2> SUFFICES ASSUME at' = "forked"
               PROVE  /\ a' \in DOMAIN init_action_list' /\ init_action_list'[a'].pid = 0
                      /\ child' \in Pid
                      /\ stops > 0
                      /\ ~ Is(child, "free")' => proc'[child'].key = init_action_list'[a'].key
    BY DEF ForkedEntry
  <2>1. /\ at = "forked" /\ a' = a /\ stops > 0 /\ child' = child
        /\ a \in DOMAIN init_action_list /\ init_action_list[a].pid = 0 /\ child \in Pid
        /\ ~ Is(child, "free") => proc[child].key = init_action_list[a].key
    BY DEF IInv, Core, ForkedEntry, StoppedCounted
  <2>2. ~ Is(child, "free")' => proc'[child] = proc[child] /\ ~ Is(child, "free")
    BY <1>2, <2>1 DEF Is, Free
  <2> QED
    BY <1>4, <2>1, <2>2
<1>9. AwaitedAlone'
  <2> SUFFICES ASSUME NEW q \in Pid, Is(q, "alive")', proc'[q].type \in Awaited
               PROVE  at' = "waitfor" /\ child' = q
    BY DEF AwaitedAlone
  <2>1. proc'[q] = proc[q] /\ Is(q, "alive")
    BY <1>2 DEF Is, Free
  <2>2. at = "waitfor" /\ child = q
    BY <2>1 DEF IInv, Core, AwaitedAlone
  <2> QED
    BY <2>1, <2>2
<1>10. PidTrue'
  <2> SUFFICES ASSUME NEW k \in Key, NEW q \in Pid \cup {-1}, Holds(init_action_list', k, q)
               PROVE  \/ q = -1 /\ forkFails > 0
                      \/ q \in Pid /\ (stops > 0 \/ (~ Is(q, "free")' /\ proc'[q].key = k))
    BY DEF PidTrue
  <2>1. CASE q = p
    BY <1>6, <2>1
  <2>2. CASE q # p
    <3>1. Holds(init_action_list, k, q)
      BY <1>3, <1>5, <2>2
    <3>2. \/ q = -1 /\ forkFails > 0
          \/ q \in Pid /\ (stops > 0 \/ (~ Is(q, "free") /\ proc[q].key = k))
      BY <3>1 DEF IInv, Core, PidTrue
    <3> QED
      BY <1>2, <2>2, <3>2 DEF Is
  <2> QED
    BY <2>1, <2>2
<1>11. StoppedCounted'
  BY DEF IInv, Core, StoppedCounted
<1> QED
  BY <1>2, <1>4, <1>7, <1>8, <1>9, <1>10, <1>11 DEF Core

(* waitfor reaps a child, the one it waits for or another.                 *)
LEMMA StepWaitfor ==
  ASSUME IInv, waitfor, UNCHANGED <<stopped, stops, signals>>, ~ stopped
  PROVE  IInv'
<1>1. /\ at = "waitfor" /\ at' \in {"waitfor", "actions"} /\ a' \in {a, a + 1}
      /\ UNCHANGED <<stage, group, child, pending, inittab, forkFails>>
  BY DEF waitfor, NextAction
<1>2. CASE \E p \in Pid :
             Reaped(p) /\ IF WaitOver(p) THEN NextAction ELSE UNCHANGED <<at, stage, group, a>>
  <2>1. PICK p \in Pid :
          Reaped(p) /\ IF WaitOver(p) THEN NextAction ELSE UNCHANGED <<at, stage, group, a>>
    BY <1>2
  <2>2. /\ Is(p, "zombie") /\ proc' = [proc EXCEPT ![p] = Free]
        /\ init_action_list' = mark_terminated(init_action_list, p)
    BY <2>1 DEF Reaped
  <2>3. CASE WaitOver(p)
    <3>1. ASSUME NEW q \in Pid, Is(q, "alive")
          PROVE  proc[q].type \notin Awaited
      BY <2>2, <2>3, <3>1 DEF IInv, Core, AwaitedAlone, WaitOver, Is
    <3>2. at # "forked" /\ at' # "forked" /\ UNCHANGED <<child, forkFails, stops, stopped>>
      BY <1>1
    <3>3. init_action_list' \in Seq(InitAction) /\ proc' \in [Pid -> Child] /\ Core'
      BY <2>2, <3>1, <3>2, ReapCore, Zenon
    <3> QED
      BY <1>1, <3>3 DEF IInv, TypeOK, Child
  <2>4. CASE ~ WaitOver(p)
    <3>1. at' = at /\ a' = a /\ at # "forked"
      BY <1>1, <2>1, <2>4
    <3> QED
      BY <1>1, <2>2, <3>1, ReapCore, Zenon DEF IInv, TypeOK, Child
  <2> QED
    BY <2>3, <2>4
<1>3. CASE (\A p \in Pid : Is(p, "free")) /\ UNCHANGED <<proc, init_action_list>> /\ NextAction
  <2>1. TypeOK'
    BY <1>1, <1>3 DEF IInv, TypeOK
  <2>2. Recorded' /\ AwaitedAlone' /\ ForkedEntry'
    BY <1>1, <1>3 DEF Recorded, AwaitedAlone, ForkedEntry, Is
  <2>3. (KeysDiffer(init_action_list) /\ PidTrue /\ StoppedCounted)'
    BY <1>1, <1>3 DEF IInv, Core, PidTrue, StoppedCounted, Is
  <2> QED
    BY <2>1, <2>2, <2>3 DEF IInv, Core
<1> QED
  BY <1>2, <1>3 DEF waitfor

(* The main loop reaps a child or starts over.                             *)
LEMMA StepReap ==
  ASSUME IInv, Reap, UNCHANGED <<stopped, stops, signals>>
  PROVE  IInv'
<1>1. at = "reap" /\ UNCHANGED <<child, pending, inittab, forkFails>>
  BY DEF Reap
<1>2. CASE \E p \in Pid : Reaped(p) /\ UNCHANGED <<at, stage, group, a>>
  <2>1. PICK p \in Pid : Reaped(p) /\ UNCHANGED <<at, stage, group, a>>
    BY <1>2
  <2> QED
    BY <1>1, <2>1, ReapCore, Zenon DEF IInv, TypeOK, Child, Reaped
<1>3. CASE RunActions("LOOP") /\ UNCHANGED <<init_action_list, proc, stage>>
  <2>1. at' = "actions" /\ group' = "LOOP" /\ a' = 1
    BY <1>3 DEF RunActions
  <2>2. TypeOK'
    BY <1>1, <1>3, <2>1 DEF IInv, TypeOK
  <2>3. Core'
    BY <1>1, <1>3, <2>1, Moves
  <2> QED
    BY <2>2, <2>3 DEF IInv
<1> QED
  BY <1>2, <1>3 DEF Reap

(* stop_handler reaps a child, wherever init was interrupted.              *)
LEMMA StepStoppedReap ==
  ASSUME IInv, StoppedReap
  PROVE  IInv'
<1>1. PICK p \in Pid : Reaped(p) \/ (at = "parse" /\ Unseen(p))
  BY DEF StoppedReap
<1>2. stopped /\ stops > 0 /\ UNCHANGED <<at, stage, group, a, child, pending, stopped, inittab,
                                         forkFails, stops, signals>>
  BY DEF StoppedReap, IInv, Core, StoppedCounted
<1> QED
  BY <1>1, <1>2, ReapCore DEF IInv, TypeOK, Child, Reaped, Unseen

(* Children change their state and nothing else.                           *)
LEMMA Dying ==
  ASSUME IInv, UNCHANGED <<init_action_list, child, a, forkFails, stops, stopped>>,
         proc' \in [Pid -> Child],
         \A p \in Pid :
           \/ proc'[p] = proc[p]
           \/ Is(p, "alive") /\ proc'[p] = [proc[p] EXCEPT !.state = "zombie"],
         at' = at \/ (at # "forked" /\ at' # "forked" /\ \A p \in Pid : proc'[p].state # "alive")
  PROVE  Core'
<1>1. \A p \in Pid : /\ proc'[p].key = proc[p].key /\ proc'[p].type = proc[p].type
                     /\ proc'[p].state = "free" <=> proc[p].state = "free"
                     /\ proc'[p].state = "alive" => proc[p].state = "alive"
  <2> SUFFICES ASSUME NEW p \in Pid
               PROVE  /\ proc'[p].key = proc[p].key /\ proc'[p].type = proc[p].type
                      /\ proc'[p].state = "free" <=> proc[p].state = "free"
                      /\ proc'[p].state = "alive" => proc[p].state = "alive"
    OBVIOUS
  <2>1. CASE proc'[p] = proc[p]
    BY <2>1
  <2>2. CASE Is(p, "alive") /\ proc'[p] = [proc[p] EXCEPT !.state = "zombie"]
    <3>1. proc[p] \in [state : {"alive", "zombie"}, key : Key, type : ActionType]
      BY <2>2 DEF IInv, TypeOK, Is, Free
    <3> QED
      BY <2>2, <3>1 DEF Is
  <2> QED
    BY <2>1, <2>2
<1>2. Recorded'
  BY <1>1 DEF IInv, Core, Recorded, Is
<1>3. ForkedEntry'
  <2>1. ForkedEntry /\ (at' = "forked" => at = "forked")
    BY DEF IInv, Core
  <2> QED
    BY <1>1, <2>1 DEF ForkedEntry, Is
<1>4. AwaitedAlone'
  BY <1>1 DEF IInv, Core, AwaitedAlone, Is
<1>5. PidTrue'
  BY <1>1 DEF IInv, Core, PidTrue, Is
<1>6. KeysDiffer(init_action_list') /\ StoppedCounted'
  BY DEF IInv, Core, StoppedCounted
<1> QED
  BY <1>2, <1>3, <1>4, <1>5, <1>6 DEF Core

(* The end of the shutdown: no process stays alive.                        *)
LEMMA StepKillProcesses ==
  ASSUME IInv, KillProcesses, UNCHANGED <<stopped, stops, signals>>
  PROVE  IInv'
<1>1. /\ at = "kill" /\ at' \in {"halted", "execed"}
      /\ UNCHANGED <<init_action_list, stage, group, a, child, pending, inittab, forkFails>>
  BY DEF KillProcesses
<1>2. \A p \in Pid :
        /\ proc'[p] \in Child /\ proc'[p].state # "alive"
        /\ \/ proc'[p] = proc[p]
           \/ Is(p, "alive") /\ proc'[p] = [proc[p] EXCEPT !.state = "zombie"]
  <2> SUFFICES ASSUME NEW p \in Pid
               PROVE  /\ proc'[p] \in Child /\ proc'[p].state # "alive"
                      /\ \/ proc'[p] = proc[p]
                         \/ Is(p, "alive") /\ proc'[p] = [proc[p] EXCEPT !.state = "zombie"]
    OBVIOUS
  <2>1. proc'[p] = IF Is(p, "alive") THEN [proc[p] EXCEPT !.state = "zombie"] ELSE proc[p]
    BY DEF KillProcesses
  <2>2. proc[p] \in Child
    BY DEF IInv, TypeOK, Child
  <2>3. CASE Is(p, "alive")
    BY <2>1, <2>2, <2>3 DEF Child, Is, Free
  <2>4. CASE ~ Is(p, "alive")
    BY <2>1, <2>2, <2>4 DEF Is
  <2> QED
    BY <2>3, <2>4
<1>3. proc' \in [Pid -> Child]
  <2>1. proc' = [p \in Pid |-> proc'[p]]
    BY DEF KillProcesses
  <2> QED
    BY <1>2, <2>1
<1>4. TypeOK'
  BY <1>1, <1>3 DEF IInv, TypeOK, Child
<1>5. Core'
  BY <1>1, <1>2, <1>3, Dying
<1> QED
  BY <1>4, <1>5 DEF IInv

(* A child exits.                                                          *)
LEMMA StepExit ==
  ASSUME IInv, NEW p \in Pid, Exit(p)
  PROVE  IInv'
<1>1. /\ Is(p, "alive") /\ proc' = [proc EXCEPT ![p].state = "zombie"]
      /\ UNCHANGED <<init_action_list, at, stage, group, a, child, stopped, inittab,
                     forkFails, stops, signals>>
  BY DEF Exit
<1>2. pending' \subseteq Signal
  BY DEF Exit, IInv, TypeOK, Signal
<1>3. proc \in [Pid -> Child]
  BY DEF IInv, TypeOK, Child
<1>4. [proc[p] EXCEPT !.state = "zombie"] \in Child
  BY <1>1, <1>3 DEF Child, Is, Free
<1>5. proc' = [proc EXCEPT ![p] = [proc[p] EXCEPT !.state = "zombie"]]
  BY <1>1, <1>3
<1>6. /\ proc' \in [Pid -> Child]
      /\ \A q \in Pid :
           \/ proc'[q] = proc[q]
           \/ Is(q, "alive") /\ proc'[q] = [proc[q] EXCEPT !.state = "zombie"]
  BY <1>1, <1>3, <1>4, <1>5
<1>7. TypeOK'
  BY <1>1, <1>2, <1>6 DEF IInv, TypeOK, Child
<1>8. Core'
  BY <1>1, <1>6, Dying
<1> QED
  BY <1>7, <1>8 DEF IInv

(* SIGTSTP and SIGCONT.                                                    *)
LEMMA StepStop ==
  ASSUME IInv, Stop \/ Continue
  PROVE  IInv'
<1>1. /\ UNCHANGED <<init_action_list, proc, stage, group, a, child, pending, inittab,
                     forkFails, signals>>
      /\ at' = at \/ (at = "sigs" /\ at' = "reap")
      /\ stopped' \in BOOLEAN
  BY Zenon DEF Stop, Continue
<1>2. stops \in Nat /\ (stops' = stops \/ stops' = stops + 1)
  BY DEF Stop, Continue, IInv, TypeOK
<1>3. stops' \in Nat /\ (stops > 0 => stops' > 0)
  BY <1>2
<1>4. stopped' => stops' > 0
  BY <1>2 DEF Stop, Continue
<1>5. TypeOK'
  BY <1>1, <1>3 DEF IInv, TypeOK
<1>6. Recorded' /\ AwaitedAlone' /\ KeysDiffer(init_action_list')
  BY <1>1 DEF IInv, Core, Recorded, AwaitedAlone, Is
<1>7. ForkedEntry'
  BY <1>1, <1>3 DEF IInv, Core, ForkedEntry, Is
<1>8. PidTrue' /\ StoppedCounted'
  BY <1>1, <1>3, <1>4 DEF IInv, Core, PidTrue, StoppedCounted, Is
<1> QED
  BY <1>5, <1>6, <1>7, <1>8 DEF IInv, Core

(* A step that leaves alone everything that Core speaks of.                *)
LEMMA Apart ==
  ASSUME IInv, UNCHANGED <<init_action_list, proc, at, a, child, stopped, forkFails, stops>>
  PROVE  Core'
BY DEF IInv, Core, KeysDiffer, Recorded, ForkedEntry, AwaitedAlone, PidTrue, StoppedCounted, Is

(* A signal arrives and stays pending.                                     *)
LEMMA StepKill ==
  ASSUME IInv, NEW sig \in Signal, Kill(sig)
  PROVE  IInv'
<1>1. TypeOK'
  BY DEF Kill, IInv, TypeOK
<1>2. Core'
  BY Apart DEF Kill
<1> QED
  BY <1>1, <1>2 DEF IInv

(* Every step preserves the invariant.                                     *)
LEMMA InvStep == IInv /\ [Next]_vars => IInv'
<1> SUFFICES ASSUME IInv, [Next]_vars PROVE IInv'
  OBVIOUS
<1>1. CASE InitStep
  <2>1. UNCHANGED <<stopped, stops, signals>> /\ ~ stopped
    BY <1>1 DEF InitStep
  <2>2. CASE parse_inittab
    BY <2>1, <2>2, StepParse
  <2>3. CASE Prune
    BY <2>1, <2>3, StepPrune
  <2>4. CASE Skip \/ EndOfActions \/ NoDelayedSig
    BY <2>1, <2>4, StepMoves
  <2>5. CASE \E p \in Pid : Fork(p)
    BY <2>1, <2>5, StepFork
  <2>6. CASE StorePid
    BY <2>1, <2>6, StepStorePid
  <2>7. CASE waitfor
    BY <2>1, <2>7, StepWaitfor
  <2>8. CASE check_delayed_sigs
    BY <2>1, <2>8, StepSigs
  <2>9. CASE Reap
    BY <2>1, <2>9, StepReap
  <2>10. CASE KillProcesses
    BY <2>1, <2>10, StepKillProcesses
  <2> QED
    BY <1>1, <2>2, <2>3, <2>4, <2>5, <2>6, <2>7, <2>8, <2>9, <2>10 DEF InitStep
<1>2. CASE ForkFailure
  BY <1>2, StepForkFail DEF ForkFailure
<1>3. CASE Stop \/ Continue
  BY <1>3, StepStop
<1>4. CASE StoppedReap
  BY <1>4, StepStoppedReap
<1>5. CASE \E p \in Pid : Exit(p)
  BY <1>5, StepExit
<1>6. CASE \E sig \in Signal : Kill(sig)
  BY <1>6, StepKill
<1>7. CASE UNCHANGED vars
  <2>1. UNCHANGED <<init_action_list, proc, at, stage, group, a, child, pending, stopped,
                    inittab, forkFails, stops, signals>>
    BY <1>7 DEF vars
  <2>2. TypeOK'
    BY <2>1 DEF IInv, TypeOK
  <2>3. Core'
    BY <2>1, Apart
  <2> QED
    BY <2>2, <2>3 DEF IInv
<1> QED
  BY <1>1, <1>2, <1>3, <1>4, <1>5, <1>6, <1>7 DEF Next
-----------------------------------------------------------------------------
(* The data of init stays well typed: in particular an entry's pid is 0,   *)
(* -1 or a process id, whatever run returned.                              *)
THEOREM InitTypeCorrect == Spec => []TypeOK
<1>1. IInv => TypeOK
  BY DEF IInv
<1> QED
  BY InvInit, InvStep, <1>1, PTL DEF Spec

(* For all inittabs and however often they are reread, no command that     *)
(* init restarts ever runs twice, even if SIGTSTP arrives anywhere.        *)
THEOREM NeverTwice == Spec => []OneProcessPerEntry
<1>1. IInv => OneProcessPerEntry
  BY InvImplies
<1> QED
  BY InvInit, InvStep, <1>1, PTL DEF Spec

(* run_actions starts nothing while a SYSINIT, WAIT, CTRLALTDEL or SHUTDOWN *)
(* command runs: waitfor returns only when that process has exited.        *)
THEOREM WaitsAlone == Spec => []AwaitedAlone
<1>1. IInv => AwaitedAlone
  BY InvImplies
<1> QED
  BY InvInit, InvStep, <1>1, PTL DEF Spec

(* "If pid != 0, it is already running", as run_actions assumes, can only  *)
(* go wrong after a failed fork or a SIGTSTP.                              *)
THEOREM PidsExplained == Spec => []PidExplained
<1>1. IInv => PidExplained
  BY InvImplies
<1> QED
  BY InvInit, InvStep, <1>1, PTL DEF Spec
-----------------------------------------------------------------------------
(* The list and the file.                                                  *)

Used(x) == x.type \notin {"none", "SYSINIT"}

(* new is what f picks from list, in the order of list.                    *)
Picks(list, new, f) ==
  /\ f \in [DOMAIN new -> DOMAIN list]
  /\ \A h \in DOMAIN new : new[h] = list[f[h]]
  /\ \A h, j \in DOMAIN new : h < j => f[h] < f[j]

(* Without an entry, the others stay in order.                             *)
LEMMA WithoutPicks ==
  ASSUME NEW list \in Seq(InitAction), NEW k \in DOMAIN list
  PROVE  \E f : /\ Picks(list, Without(list, k), f)
                /\ \A h \in DOMAIN list :
                     h # k => \E j \in DOMAIN Without(list, k) : f[j] = h
<1> DEFINE w == Without(list, k)
           n == Len(list) - 1
           f == [h \in 1..n |-> IF h < k THEN h ELSE h + 1]
<1>1. Len(list) \in Nat /\ DOMAIN list = 1..Len(list) /\ k \in 1..Len(list)
  BY SeqLen
<1>2. DOMAIN w = 1..n /\ \A h \in 1..n : w[h] = IF h < k THEN list[h] ELSE list[h + 1]
  BY DEF Without
<1>3. \A h \in 1..n : f[h] = IF h < k THEN h ELSE h + 1
  OBVIOUS
<1>4. f \in [1..n -> DOMAIN list]
  BY <1>1
<1>5. \A h, j \in 1..n : h < j => f[h] < f[j]
  BY <1>1, <1>3
<1>6. \A h \in DOMAIN list : h # k => \E j \in 1..n : f[j] = h
  <2> SUFFICES ASSUME NEW h \in DOMAIN list, h # k
               PROVE  \E j \in 1..n : f[j] = h
    OBVIOUS
  <2>1. CASE h < k
    BY <1>1, <1>3, <2>1
  <2>2. CASE h > k
    <3>1. h - 1 \in 1..n /\ ~ (h - 1 < k)
      BY <1>1, <2>2
    <3>2. f[h - 1] = (h - 1) + 1
      BY <1>3, <3>1
    <3> QED
      BY <1>1, <3>1, <3>2
  <2> QED
    BY <1>1, <2>1, <2>2
<1>7. Picks(list, w, f)
  <2>1. \A h \in 1..n : w[h] = list[f[h]]
    BY <1>2, <1>3
  <2> HIDE DEF w, f, n
  <2> QED
    BY <1>2, <1>4, <1>5, <2>1 DEF Picks
<1> HIDE DEF f
<1> QED
  BY <1>2, <1>6, <1>7

(* What Follows says: every used entry has its line, every line its entry, *)
(* and the entries are in the order of the lines.                          *)
Same(x, line) == x.key = line.key /\ x.type = line.type
HasLine(list, tab, n) ==
  \A h \in DOMAIN list : Used(list[h]) => \E m \in Lines(tab, n) : Same(list[h], tab[m])
HasEntry(list, tab, n) ==
  \A m \in Lines(tab, n) : \E h \in DOMAIN list : Used(list[h]) /\ Same(list[h], tab[m])
InOrder(list, tab, n) ==
  \A h, j \in DOMAIN list : \A m, o \in Lines(tab, n) :
    Used(list[h]) /\ Used(list[j]) /\ h < j /\ Same(list[h], tab[m]) /\ Same(list[j], tab[o]) => m < o

LEMMA FollowsIs ==
  ASSUME NEW list, NEW tab, NEW n
  PROVE  Follows(list, tab, n) <=>
           HasLine(list, tab, n) /\ HasEntry(list, tab, n) /\ InOrder(list, tab, n)
BY Zenon DEF Follows, HasLine, HasEntry, InOrder, Used, Same

(* Removing entries that are not used any more.                            *)
LEMMA PicksFollows ==
  ASSUME NEW list, NEW new, NEW tab, NEW n, NEW f, Picks(list, new, f),
         \A h \in DOMAIN list : Used(list[h]) => \E j \in DOMAIN new : f[j] = h,
         Follows(list, tab, n)
  PROVE  Follows(new, tab, n)
<1>1. HasLine(list, tab, n) /\ HasEntry(list, tab, n) /\ InOrder(list, tab, n)
  BY FollowsIs, Zenon
<1>2. \A h \in DOMAIN new : f[h] \in DOMAIN list /\ new[h] = list[f[h]]
  BY Zenon DEF Picks
<1>3. \A h, j \in DOMAIN new : h < j => f[h] < f[j]
  BY Zenon DEF Picks
<1>4. HasLine(new, tab, n)
  BY <1>1, <1>2, Zenon DEF HasLine
<1>5. ASSUME NEW m \in Lines(tab, n)
      PROVE  \E h \in DOMAIN new : Used(new[h]) /\ Same(new[h], tab[m])
  <2>1. PICK g \in DOMAIN list : Used(list[g]) /\ Same(list[g], tab[m])
    BY <1>1, Zenon DEF HasEntry
  <2>2. PICK h \in DOMAIN new : f[h] = g
    BY <2>1, Zenon
  <2>3. new[h] = list[g]
    BY <1>2, <2>2, Zenon
  <2> QED
    BY <2>1, <2>3, Zenon
<1>6. ASSUME NEW h \in DOMAIN new, NEW j \in DOMAIN new, NEW m \in Lines(tab, n),
             NEW o \in Lines(tab, n), Used(new[h]), Used(new[j]), h < j,
             Same(new[h], tab[m]), Same(new[j], tab[o])
      PROVE  m < o
  <2>1. /\ f[h] \in DOMAIN list /\ f[j] \in DOMAIN list /\ f[h] < f[j]
        /\ new[h] = list[f[h]] /\ new[j] = list[f[j]]
    BY <1>2, <1>3, <1>6, Zenon
  <2> QED
    BY <1>1, <1>6, <2>1, Zenon DEF InOrder
<1> QED
  <2>1. HasEntry(new, tab, n) /\ InOrder(new, tab, n)
    BY <1>5, <1>6, Zenon DEF HasEntry, InOrder
  <2> QED
    BY <1>4, <2>1, FollowsIs, Zenon

(* Reading one more line: the entry of the command goes to the end.        *)
LEMMA LineFollows ==
  ASSUME NEW list, NEW w \in Seq(InitAction), NEW tab, NEW n \in Nat, NEW f, Picks(list, w, f),
         NEW x \in InitAction, x.key = tab[n + 1].key, x.type = tab[n + 1].type,
         \A h \in DOMAIN w : w[h].key # x.key,
         \A h \in DOMAIN list : list[h].key # x.key => \E j \in DOMAIN w : f[j] = h,
         Follows(list, tab, n)
  PROVE  Follows(Append(w, x), tab, n + 1)
<1> DEFINE new == Append(w, x)
           last == Len(w) + 1
<1>1. /\ new \in Seq(InitAction) /\ Len(new) = last
      /\ \A h \in 1..Len(w) : new[h] = w[h]
      /\ new[last] = x
  BY SeqAppended
<1>2. Len(w) \in Nat /\ DOMAIN w = 1..Len(w) /\ DOMAIN new = 1..last
  BY <1>1, SeqLen
<1> HIDE DEF new
<1>3. /\ \A h \in DOMAIN new : h = last \/ (h \in DOMAIN w /\ h < last)
      /\ last \in DOMAIN new
      /\ \A h \in DOMAIN w : h \in DOMAIN new /\ new[h] = w[h]
  BY <1>1, <1>2
<1>4. ASSUME NEW m
      PROVE  m \in Lines(tab, n + 1) <=>
               \/ m = n + 1 /\ Used(tab[m])
               \/ m \in Lines(tab, n) /\ tab[m].key # x.key
  <2>1. CASE m \in 1..n
    <3>1. (m + 1)..(n + 1) = (m + 1)..n \cup {n + 1} /\ m # n + 1
      BY <2>1
    <3> QED
      BY <2>1, <3>1 DEF Lines, Used
  <2>2. CASE m = n + 1
    <3>1. (m + 1)..(n + 1) = {} /\ m \in 1..(n + 1) /\ m \notin 1..n
      BY <2>2
    <3> QED
      BY <2>2, <3>1 DEF Lines, Used
  <2>3. CASE m \notin 1..(n + 1)
    <3>1. m \notin 1..n /\ m # n + 1
      BY <2>3
    <3> QED
      BY <2>3, <3>1 DEF Lines
  <2>4. 1..(n + 1) = 1..n \cup {n + 1}
    OBVIOUS
  <2> QED
    BY <2>1, <2>2, <2>3, <2>4
<1>5. \A m \in Lines(tab, n) : m < n + 1
  BY DEF Lines
<1>6. \A h \in DOMAIN w : f[h] \in DOMAIN list /\ w[h] = list[f[h]]
  BY DEF Picks
<1> HIDE DEF last
<1>7. HasLine(list, tab, n) /\ HasEntry(list, tab, n) /\ InOrder(list, tab, n)
  BY FollowsIs, Zenon
<1>8. Same(x, tab[n + 1]) /\ (Used(x) <=> Used(tab[n + 1]))
  BY Zenon DEF Same, Used
<1>9. \A y, m : Same(y, tab[m]) => y.key = tab[m].key
  BY Zenon DEF Same
<1>10. ASSUME NEW h \in DOMAIN new, Used(new[h])
       PROVE  \E m \in Lines(tab, n + 1) : Same(new[h], tab[m])
  <2>1. CASE h = last
    BY <1>1, <1>4, <1>8, <1>10, <2>1, Zenon
  <2>2. CASE h \in DOMAIN w
    <3>1. new[h] = list[f[h]] /\ f[h] \in DOMAIN list /\ new[h].key # x.key
      BY <1>3, <1>6, <2>2, Zenon
    <3>2. PICK m \in Lines(tab, n) : Same(new[h], tab[m])
      BY <1>7, <1>10, <3>1, Zenon DEF HasLine
    <3> QED
      BY <1>4, <1>9, <3>1, <3>2, Zenon
  <2> QED
    BY <1>3, <2>1, <2>2, Zenon
<1>11. ASSUME NEW m \in Lines(tab, n + 1)
       PROVE  \E h \in DOMAIN new : Used(new[h]) /\ Same(new[h], tab[m])
  <2>1. CASE m = n + 1 /\ Used(tab[m])
    BY <1>1, <1>3, <1>8, <2>1, Zenon
  <2>2. CASE m \in Lines(tab, n) /\ tab[m].key # x.key
    <3>1. PICK g \in DOMAIN list : Used(list[g]) /\ Same(list[g], tab[m])
      BY <1>7, <2>2, Zenon DEF HasEntry
    <3>2. PICK j \in DOMAIN w : f[j] = g
      BY <1>9, <2>2, <3>1, Zenon
    <3>3. j \in DOMAIN new /\ new[j] = list[g]
      BY <1>3, <1>6, <3>2, Zenon
    <3> QED
      BY <3>1, <3>3, Zenon
  <2> QED
    BY <1>4, <2>1, <2>2, Zenon
<1>12. ASSUME NEW h \in DOMAIN new, NEW j \in DOMAIN new, NEW m \in Lines(tab, n + 1),
              NEW o \in Lines(tab, n + 1), Used(new[h]), Used(new[j]), h < j,
              Same(new[h], tab[m]), Same(new[j], tab[o])
       PROVE  m < o
  <2>1. h \in DOMAIN w /\ new[h] = w[h] /\ new[h].key # x.key
    <3>1. h # last
      BY <1>2, <1>12, SMT DEF last
    <3> QED
      BY <1>3, <3>1, Zenon
  <2>2. m \in Lines(tab, n)
    BY <1>4, <1>8, <1>9, <1>12, <2>1, Zenon
  <2>3. CASE j = last
    <3>1. tab[o].key = x.key
      BY <1>1, <1>9, <1>12, <2>3, Zenon
    <3>2. o = n + 1
      BY <1>4, <3>1, Zenon
    <3> QED
      BY <1>5, <2>2, <3>2, Zenon
  <2>4. CASE j \in DOMAIN w
    <3>1. new[j] = w[j] /\ new[j].key # x.key
      BY <1>3, <2>4, Zenon
    <3>2. o \in Lines(tab, n)
      BY <1>4, <1>8, <1>9, <1>12, <3>1, Zenon
    <3>3. f[h] < f[j]
      BY <1>12, <2>1, <2>4, Zenon DEF Picks
    <3>4. /\ f[h] \in DOMAIN list /\ f[j] \in DOMAIN list
          /\ new[h] = list[f[h]] /\ new[j] = list[f[j]]
      BY <1>6, <2>1, <2>4, <3>1, Zenon
    <3> QED
      BY <1>7, <1>12, <2>2, <3>2, <3>3, <3>4, Zenon DEF InOrder
  <2> QED
    BY <1>3, <2>3, <2>4, Zenon
<1>13. HasLine(new, tab, n + 1) /\ HasEntry(new, tab, n + 1) /\ InOrder(new, tab, n + 1)
  BY <1>10, <1>11, <1>12, Zenon DEF HasLine, HasEntry, InOrder
<1> QED
  BY <1>13, FollowsIs, Zenon DEF new

(* A list with the same commands and types follows the file as well.       *)
LEMMA SameFollows ==
  ASSUME NEW list, NEW new, NEW tab, NEW n, DOMAIN new = DOMAIN list,
         \A h \in DOMAIN list : new[h].key = list[h].key /\ new[h].type = list[h].type,
         Follows(list, tab, n)
  PROVE  Follows(new, tab, n)
<1>1. \A h \in DOMAIN list : /\ Used(new[h]) <=> Used(list[h])
                             /\ \A m : Same(new[h], tab[m]) <=> Same(list[h], tab[m])
  BY Zenon DEF Used, Same
<1>2. HasLine(list, tab, n) /\ HasEntry(list, tab, n) /\ InOrder(list, tab, n)
  BY FollowsIs, Zenon
<1>3. HasLine(new, tab, n) /\ HasEntry(new, tab, n)
  BY <1>1, <1>2, Zenon DEF HasLine, HasEntry
<1>4. InOrder(new, tab, n)
  BY <1>1, <1>2, Zenon DEF InOrder
<1> QED
  BY <1>3, <1>4, FollowsIs, Zenon

(* new_init_action on the next line of the file.                           *)
LEMMA NewActionFollows ==
  ASSUME NEW list \in Seq(InitAction), KeysDiffer(list), NEW tab, NEW n \in Nat,
         tab[n + 1] \in InittabLine, Follows(list, tab, n)
  PROVE  Follows(new_init_action(list, tab[n + 1]), tab, n + 1)
<1> DEFINE e == tab[n + 1]
<1>1. CASE \E h \in DOMAIN list : list[h].key = e.key
  <2> DEFINE k == CHOOSE h \in DOMAIN list : list[h].key = e.key
             w == Without(list, k)
             x == [list[k] EXCEPT !.type = e.type]
  <2>1. k \in DOMAIN list /\ list[k].key = e.key
    BY <1>1
  <2>2. new_init_action(list, e) = Append(w, x)
    BY <1>1 DEF new_init_action
  <2>3. list[k] \in InitAction
    BY <2>1, SeqElement, SeqLen
  <2>4. x \in InitAction /\ x.key = e.key /\ x.type = e.type
    BY <2>1, <2>3, Zenon DEF InitAction, InittabLine
  <2> HIDE DEF x, k
  <2>5. w \in Seq(InitAction) /\ \A j \in DOMAIN w : w[j].key # x.key
    BY <2>1, <2>4, WithoutProperties
  <2>6. PICK f : /\ Picks(list, w, f)
                 /\ \A h \in DOMAIN list : h # k => \E j \in DOMAIN w : f[j] = h
    BY <2>1, WithoutPicks
  <2> HIDE DEF w
  <2>7. \A h \in DOMAIN list : list[h].key # x.key => \E j \in DOMAIN w : f[j] = h
    BY <2>1, <2>4, <2>6
  <2>8. Follows(Append(w, x), tab, n + 1)
    BY <2>4, <2>5, <2>6, <2>7, LineFollows, Zenon
  <2> QED
    BY <2>2, <2>8
<1>2. CASE ~ \E h \in DOMAIN list : list[h].key = e.key
  <2> DEFINE x == [key |-> e.key, type |-> e.type, pid |-> 0]
             f == [h \in DOMAIN list |-> h]
  <2>1. new_init_action(list, e) = Append(list, x)
    BY <1>2 DEF new_init_action
  <2>2. x \in InitAction /\ x.key = e.key /\ x.type = e.type
    BY DEF InitAction, InittabLine
  <2> HIDE DEF x
  <2>3. Picks(list, list, f)
    BY DEF Picks
  <2>4. /\ \A h \in DOMAIN list : list[h].key # x.key
        /\ \A h \in DOMAIN list : list[h].key # x.key => \E j \in DOMAIN list : f[j] = h
    BY <1>2, <2>2, Zenon
  <2> HIDE DEF f
  <2>5. Follows(Append(list, x), tab, n + 1)
    BY <2>2, <2>3, <2>4, LineFollows, Zenon
  <2> QED
    BY <2>1, <2>5
<1> QED
  BY <1>1, <1>2

(* The parser never reads past the end of the file.                        *)
FInv == ListFollowsInittab /\ (at = "parse" => a \in 1..(Len(inittab) + 1))

(* An empty list follows a file of which nothing has been read.            *)
LEMMA FollowsInit == Init => FInv
<1> SUFFICES ASSUME Init PROVE FInv
  OBVIOUS
<1>1. inittab \in Seq(InittabLine)
  BY InittabAssumption, Zenon DEF Init, InittabLine
<1>2. Len(inittab) \in Nat
  BY <1>1, SeqLen
<1>3. DOMAIN init_action_list = {} /\ Lines(inittab, 0) = {}
  BY SeqEmpty DEF Init, Lines
<1>4. Follows(init_action_list, inittab, 0)
  BY <1>3, Zenon DEF Follows
<1>5. at = "parse" /\ a = 1
  BY DEF Init
<1> QED
  BY <1>2, <1>4, <1>5 DEF FInv, ListFollowsInittab

(* Steps that change pids of the list at most and do not read the file.    *)
LEMMA FollowsKept ==
  ASSUME FInv, inittab' = inittab, DOMAIN init_action_list' = DOMAIN init_action_list,
         \A h \in DOMAIN init_action_list :
           /\ init_action_list'[h].key = init_action_list[h].key
           /\ init_action_list'[h].type = init_action_list[h].type,
         at' = "parse" <=> at = "parse", at = "parse" => a' = a
  PROVE  FInv'
<1> DEFINE n == IF at = "parse" THEN a - 1 ELSE Len(inittab)
<1>1. n' = n
  OBVIOUS
<1>2. Follows(init_action_list, inittab, n)
  BY DEF FInv, ListFollowsInittab
<1> HIDE DEF n
<1>3. Follows(init_action_list', inittab', n)
  BY <1>2, SameFollows
<1>4. ListFollowsInittab'
  BY <1>1, <1>3 DEF ListFollowsInittab, n
<1> QED
  BY <1>4 DEF FInv

(* The special case of an unchanged list.                                  *)
LEMMA FollowsSame ==
  ASSUME FInv, UNCHANGED <<init_action_list, inittab>>,
         at' = "parse" <=> at = "parse", at = "parse" => a' = a
  PROVE  FInv'
BY FollowsKept

(* A pid is stored in an entry or removed from it.                         *)
LEMMA PidOnly ==
  ASSUME NEW list \in Seq(InitAction), NEW k, NEW v
  PROVE  LET m == [list EXCEPT ![k].pid = v]
         IN  /\ DOMAIN m = DOMAIN list
             /\ \A h \in DOMAIN list : m[h].key = list[h].key /\ m[h].type = list[h].type
<1> DEFINE m == [list EXCEPT ![k].pid = v]
<1>1. DOMAIN m = DOMAIN list
  OBVIOUS
<1>2. ASSUME NEW h \in DOMAIN list
      PROVE  m[h].key = list[h].key /\ m[h].type = list[h].type
  <2>1. list[h] \in InitAction
    BY SeqLen, SeqElement
  <2>2. m[h] = list[h] \/ m[h] = [list[h] EXCEPT !.pid = v]
    OBVIOUS
  <2> HIDE DEF m
  <2> QED
    BY <2>1, <2>2 DEF InitAction
<1> QED
  BY <1>1, <1>2

(* mark_terminated changes pids only.                                      *)
LEMMA MarkOnly ==
  ASSUME NEW list \in Seq(InitAction), NEW p
  PROVE  /\ DOMAIN mark_terminated(list, p) = DOMAIN list
         /\ \A h \in DOMAIN list : /\ mark_terminated(list, p)[h].key = list[h].key
                                   /\ mark_terminated(list, p)[h].type = list[h].type
<1> DEFINE m == mark_terminated(list, p)
<1>1. DOMAIN m = DOMAIN list
  BY DEF mark_terminated
<1>2. ASSUME NEW h \in DOMAIN list
      PROVE  m[h].key = list[h].key /\ m[h].type = list[h].type
  <2>1. list[h] \in InitAction
    BY SeqLen, SeqElement
  <2>2. m[h] = list[h] \/ m[h] = [list[h] EXCEPT !.pid = 0]
    BY DEF mark_terminated
  <2> HIDE DEF m
  <2> QED
    BY <2>1, <2>2 DEF InitAction
<1> QED
  BY <1>1, <1>2

(* Reaping a child, wherever it happens.                                   *)
LEMMA FollowsReaped ==
  ASSUME IInv, FInv, inittab' = inittab, NEW p \in Pid, Reaped(p),
         at' = "parse" <=> at = "parse", at = "parse" => a' = a
  PROVE  FInv'
<1>1. init_action_list \in Seq(InitAction)
  BY DEF IInv, TypeOK
<1>2. init_action_list' = mark_terminated(init_action_list, p)
  BY DEF Reaped
<1> QED
  BY <1>1, <1>2, MarkOnly, FollowsKept

(* A line is read, or the end of the file is reached.                      *)
LEMMA FollowsParse ==
  ASSUME IInv, FInv, parse_inittab
  PROVE  FInv'
<1>1. at = "parse" /\ inittab' = inittab /\ a \in 1..(Len(inittab) + 1)
  BY DEF parse_inittab, FInv
<1>2. inittab \in Seq(InittabLine)
  BY InittabAssumption, Zenon DEF IInv, TypeOK, InittabLine
<1>3. Len(inittab) \in Nat
  BY <1>2, SeqLen
<1>4. Follows(init_action_list, inittab, a - 1)
  BY <1>1 DEF FInv, ListFollowsInittab
<1>5. CASE a <= Len(inittab)
  <2>1. /\ init_action_list' = new_init_action(init_action_list, inittab[a])
        /\ a' = a + 1 /\ at' = "parse"
    BY <1>1, <1>5 DEF parse_inittab
  <2>2. a - 1 \in Nat /\ (a - 1) + 1 = a /\ a' - 1 = a /\ a' \in 1..(Len(inittab) + 1)
    BY <1>1, <1>3, <1>5, <2>1
  <2>3. inittab[a] \in InittabLine
    <3>1. a \in 1..Len(inittab)
      BY <1>1, <1>3, <1>5
    <3> QED
      BY <1>2, <3>1, SeqElement
  <2>4. init_action_list \in Seq(InitAction) /\ KeysDiffer(init_action_list)
    BY DEF IInv, TypeOK, Core
  <2>5. Follows(new_init_action(init_action_list, inittab[(a - 1) + 1]), inittab, (a - 1) + 1)
    <3> DEFINE n == a - 1
    <3>1. n \in Nat /\ inittab[n + 1] \in InittabLine /\ Follows(init_action_list, inittab, n)
      BY <1>4, <2>2, <2>3
    <3> HIDE DEF n
    <3>2. Follows(new_init_action(init_action_list, inittab[n + 1]), inittab, n + 1)
      BY <2>4, <3>1, NewActionFollows
    <3> QED
      BY <3>2 DEF n
  <2>6. Follows(init_action_list', inittab', a' - 1)
    BY <1>1, <2>1, <2>2, <2>5
  <2> QED
    BY <1>1, <2>1, <2>2, <2>6 DEF FInv, ListFollowsInittab
<1>6. CASE ~ (a <= Len(inittab))
  <2>1. init_action_list' = init_action_list /\ at' \in {"prune", "actions"}
    BY <1>6 DEF parse_inittab, RunActions
  <2>2. a - 1 = Len(inittab)
    BY <1>1, <1>3, <1>6
  <2> QED
    BY <1>1, <1>4, <2>1, <2>2 DEF FInv, ListFollowsInittab
<1> QED
  BY <1>5, <1>6

(* The end of reload_inittab removes nothing that the file names.          *)
LEMMA FollowsPrune ==
  ASSUME IInv, FInv, Prune
  PROVE  FInv'
<1>1. at = "prune" /\ inittab' = inittab /\ at' \in {"prune", "actions", "reap"}
  BY DEF Prune, AfterSigs, RunActions, Goto
<1>2. CASE init_action_list' = init_action_list
  BY <1>1, <1>2, FollowsSame
<1>3. CASE init_action_list' # init_action_list
  <2>1. /\ ~ (a > Len(init_action_list)) /\ Stale(Entry)
        /\ init_action_list' = Without(init_action_list, a)
    BY <1>3 DEF Prune
  <2>2. a \in DOMAIN init_action_list /\ init_action_list \in Seq(InitAction)
    BY <2>1, SeqLen DEF IInv, TypeOK
  <2>3. ~ Used(init_action_list[a])
    BY <2>1 DEF Stale, Entry, Used
  <2>4. Follows(init_action_list, inittab, Len(inittab))
    BY <1>1 DEF FInv, ListFollowsInittab
  <2>5. PICK f : /\ Picks(init_action_list, Without(init_action_list, a), f)
                 /\ \A h \in DOMAIN init_action_list :
                      h # a => \E j \in DOMAIN Without(init_action_list, a) : f[j] = h
    BY <2>2, WithoutPicks
  <2>6. Follows(Without(init_action_list, a), inittab, Len(inittab))
    BY <2>3, <2>4, <2>5, PicksFollows
  <2> QED
    BY <1>1, <2>1, <2>6 DEF FInv, ListFollowsInittab
<1> QED
  BY <1>2, <1>3

(* SIGHUP disables every entry and opens the file as it is now.            *)
LEMMA FollowsSigs ==
  ASSUME IInv, FInv, check_delayed_sigs
  PROVE  FInv'
<1>1. CASE at' # "parse"
  <2>1. UNCHANGED <<init_action_list, inittab>> /\ at = "sigs"
    BY <1>1 DEF check_delayed_sigs
  <2> QED
    BY <1>1, <2>1, FollowsSame
<1>2. CASE at' = "parse"
  <2>1. /\ inittab' \in Inittabs /\ a' = 1
        /\ init_action_list' =
             [h \in DOMAIN init_action_list |-> [init_action_list[h] EXCEPT !.type = "none"]]
    BY <1>2 DEF check_delayed_sigs, RunActions, Shutdown, AfterSigs, Goto
  <2>2. ASSUME NEW h \in DOMAIN init_action_list'
        PROVE  init_action_list'[h].type = "none"
    <3>1. h \in DOMAIN init_action_list /\ init_action_list[h] \in InitAction
      BY <2>1, SeqLen, SeqElement DEF IInv, TypeOK
    <3>2. init_action_list'[h] = [init_action_list[h] EXCEPT !.type = "none"]
      BY <2>1, <3>1
    <3> QED
      BY <3>1, <3>2 DEF InitAction
  <2>3. Lines(inittab', 0) = {}
    BY DEF Lines
  <2>4. Follows(init_action_list', inittab', 0)
    BY <2>2, <2>3, Zenon DEF Follows
  <2>5. Len(inittab') \in Nat
    <3>1. inittab' \in Seq(InittabLine)
      BY <2>1, InittabAssumption, Zenon DEF InittabLine
    <3> QED
      BY <3>1, SeqLen
  <2>6. a' - 1 = 0 /\ a' \in 1..(Len(inittab') + 1)
    BY <2>1, <2>5
  <2> QED
    BY <1>2, <2>4, <2>6 DEF FInv, ListFollowsInittab
<1> QED
  BY <1>1, <1>2

(* Every step keeps the list in line with the file.                        *)
LEMMA FollowsStep == IInv /\ FInv /\ [Next]_vars => FInv'
<1> SUFFICES ASSUME IInv, FInv, [Next]_vars PROVE FInv'
  OBVIOUS
<1>0. init_action_list \in Seq(InitAction)
  BY DEF IInv, TypeOK
<1>1. CASE parse_inittab
  BY <1>1, FollowsParse
<1>2. CASE Prune
  BY <1>2, FollowsPrune
<1>3. CASE check_delayed_sigs
  BY <1>3, FollowsSigs
<1>4. CASE Skip \/ EndOfActions \/ NoDelayedSig \/ KillProcesses \/ \E p \in Pid : Fork(p)
  <2>1. UNCHANGED <<init_action_list, inittab>> /\ at # "parse" /\ at' # "parse"
    BY <1>4 DEF Skip, EndOfActions, NoDelayedSig, KillProcesses, Fork, Due, AfterSigs,
       RunActions, Goto, NextAction
  <2> QED
    BY <2>1, FollowsSame
<1>5. CASE StorePid \/ ForkFail
  <2>1. /\ inittab' = inittab /\ at # "parse" /\ at' # "parse"
        /\ \/ init_action_list' = init_action_list
           \/ \E v : init_action_list' = [init_action_list EXCEPT ![a].pid = v]
    BY <1>5 DEF StorePid, ForkFail, Due, NextAction
  <2>2. CASE init_action_list' = init_action_list
    BY <2>1, <2>2, FollowsSame
  <2>3. CASE \E v : init_action_list' = [init_action_list EXCEPT ![a].pid = v]
    <3>1. PICK v : init_action_list' = [init_action_list EXCEPT ![a].pid = v]
      BY <2>3
    <3>2. /\ DOMAIN init_action_list' = DOMAIN init_action_list
          /\ \A h \in DOMAIN init_action_list :
               /\ init_action_list'[h].key = init_action_list[h].key
               /\ init_action_list'[h].type = init_action_list[h].type
      BY <1>0, <3>1, PidOnly
    <3> QED
      BY <2>1, <3>2, FollowsKept
  <2> QED
    BY <2>1, <2>2, <2>3
<1>6. CASE waitfor \/ Reap
  <2>1. inittab' = inittab /\ at # "parse" /\ at' # "parse"
    BY <1>6 DEF waitfor, Reap, NextAction, RunActions
  <2>2. init_action_list' = init_action_list \/ \E p \in Pid : Reaped(p)
    BY <1>6 DEF waitfor, Reap
  <2> QED
    BY <2>1, <2>2, FollowsSame, FollowsReaped
<1>7. CASE StoppedReap
  <2>1. UNCHANGED <<at, a, inittab>>
    BY <1>7 DEF StoppedReap
  <2>2. init_action_list' = init_action_list \/ \E p \in Pid : Reaped(p)
    BY <1>7 DEF StoppedReap, Unseen
  <2> QED
    BY <2>1, <2>2, FollowsSame, FollowsReaped
<1>8. CASE \/ Stop \/ Continue \/ (\E p \in Pid : Exit(p)) \/ (\E sig \in Signal : Kill(sig))
           \/ UNCHANGED vars
  <2>1. /\ UNCHANGED <<init_action_list, inittab, a>>
        /\ at' = at \/ (at = "sigs" /\ at' = "reap")
    BY <1>8 DEF Stop, Continue, Exit, Kill, vars
  <2> QED
    BY <2>1, FollowsSame
<1> QED
  BY <1>1, <1>2, <1>3, <1>4, <1>5, <1>6, <1>7, <1>8 DEF Next, InitStep, ForkFailure

(* For all inittabs, however often the file is edited and reread, and      *)
(* whatever processes, stops and failed forks come between, init's list    *)
(* holds exactly the commands of the file, the last line of each, in the   *)
(* order of the file.                                                      *)
THEOREM ListFollows == Spec => []ListFollowsInittab
<1>1. FInv => ListFollowsInittab
  BY DEF FInv
<1> QED
  BY InvInit, InvStep, FollowsInit, FollowsStep, <1>1, PTL DEF Spec
-----------------------------------------------------------------------------
(* search_mem_dump.py, for every dump, marker and page size.               *)

(***************************************************************************)
(* The loop invariant: the addresses printed are exactly the occurrences   *)
(* below the current hit i (all of them once i is -1), and i is itself an  *)
(* occurrence.                                                             *)
(***************************************************************************)
Below(x) == IF i = -1 THEN TRUE ELSE x < i

LoopInv ==
  /\ SearchTypeOK
  /\ i # -1 => OccursAt(mm, i)
  /\ \A l \in printed : l = LineOf(l.full_addr)
  /\ \A l \in printed : OccursAt(mm, l.full_addr) /\ Below(l.full_addr)
  /\ \A x \in Addr : OccursAt(mm, x) /\ Below(x) => LineOf(x) \in printed

(* page_number and page_offset are the quotient and the remainder of an    *)
(* address by the page size.                                               *)
LEMMA PageSplit ==
  ASSUME NEW x \in Nat
  PROVE  /\ PageOffset(x) \in 0 .. PageSize - 1
         /\ PageNumber(x) \in Nat
         /\ PageNumber(x) * PageSize + PageOffset(x) = x
<1> DEFINE q == x \div PageSize
           r == x % PageSize
<1>1. q \in Nat /\ r \in 0 .. PageSize - 1 /\ x = PageSize * q + r
  BY PageSizeAssumption
<1>2. PageOffset(x) = r /\ PageNumber(x) = (x - r) \div PageSize
  BY DEF PageNumber, PageOffset
<1>3. (PageSize * q) \div PageSize = q
  BY <1>1, PageSizeAssumption
<1>4. x - r = PageSize * q
  BY <1>1, PageSizeAssumption
<1>5. PageNumber(x) = q
  BY <1>2, <1>3, <1>4
<1> HIDE DEF q, r
<1>6. q * PageSize = PageSize * q
  BY <1>1, PageSizeAssumption
<1> QED
  BY <1>1, <1>2, <1>5, <1>6, PageSizeAssumption

(* An address that find may return yields a line of the right shape.       *)
LEMMA LineType ==
  ASSUME NEW x \in Addr
  PROVE  LineOf(x) \in Line /\ LineOf(x).full_addr = x
<1>1. x \in Nat
  BY DumpSizeAssumption DEF Addr
<1> QED
  BY <1>1, PageSplit DEF LineOf, Line

(* The loop invariant holds before the loop.                               *)
LEMMA InitLoopInv == SearchInit => LoopInv
<1> SUFFICES ASSUME SearchInit PROVE LoopInv
  OBVIOUS
<1>1. SearchTypeOK
  BY DEF SearchInit, SearchTypeOK
<1>2. i # -1 => OccursAt(mm, i)
  BY DEF SearchInit, Find
<1>3. \A x \in Addr : OccursAt(mm, x) => ~ Below(x)
  BY DumpSizeAssumption DEF SearchInit, Find, Below, Addr
<1> QED
  BY <1>1, <1>2, <1>3 DEF LoopInv, SearchInit

(* An iteration of the loop preserves the loop invariant.                  *)
LEMMA NextLoopInv == LoopInv /\ [SearchNext]_searchvars => LoopInv'
<1> SUFFICES ASSUME LoopInv, [SearchNext]_searchvars PROVE LoopInv'
  OBVIOUS
<1>1. CASE Report
  <2>1. PICK j \in Addr \cup {-1} : Find(mm, i + 1, j) /\ i' = j
    BY <1>1 DEF Report, ResumeAt
  <2>2. i \in Addr /\ OccursAt(mm, i) /\ mm' = mm /\ i # -1
    BY <1>1 DEF Report, LoopInv, SearchTypeOK
  <2>3. printed' = printed \cup {LineOf(i)}
    BY <1>1 DEF Report
  <2>4. SearchTypeOK'
    BY <2>1, <2>2, <2>3, LineType DEF LoopInv, SearchTypeOK
  <2>5. (i # -1 => OccursAt(mm, i))'
    BY <2>1, <2>2 DEF Find, OccursAt
  <2>6. (\A l \in printed : l = LineOf(l.full_addr))'
    BY <2>2, <2>3, LineType DEF LoopInv, LineOf, PageNumber, PageOffset
  <2>7. \A x \in Addr : OccursAt(mm, x) => (Below(x)' <=> x = i \/ Below(x))
    <3> SUFFICES ASSUME NEW x \in Addr, OccursAt(mm, x)
                 PROVE  Below(x)' <=> x = i \/ Below(x)
      OBVIOUS
    <3>1. Below(x)' <=> (j = -1 \/ x < j)
      BY <2>1, DumpSizeAssumption DEF Below, Addr
    <3>2. Below(x) <=> x < i
      BY <2>2 DEF Below
    <3> QED
      BY <2>1, <2>2, <3>1, <3>2, DumpSizeAssumption DEF Find, Addr
  <2>8. \A l \in printed : l.full_addr \in Addr
    BY DEF LoopInv, SearchTypeOK, Line
  <2>9. (\A l \in printed : OccursAt(mm, l.full_addr) /\ Below(l.full_addr))'
    <3> SUFFICES ASSUME NEW l \in printed'
                 PROVE  OccursAt(mm, l.full_addr) /\ Below(l.full_addr)'
      BY <2>2 DEF OccursAt
    <3>1. CASE l \in printed
      BY <3>1, <2>7, <2>8 DEF LoopInv
    <3>2. CASE l = LineOf(i)
      BY <3>2, <2>2, <2>7, LineType
    <3> QED
      BY <2>3, <3>1, <3>2
  <2>10. (\A x \in Addr : OccursAt(mm, x) /\ Below(x) => LineOf(x) \in printed)'
    <3> SUFFICES ASSUME NEW x \in Addr, OccursAt(mm, x), Below(x)'
                 PROVE  LineOf(x) \in printed'
      BY <2>2 DEF OccursAt, LineOf, PageNumber, PageOffset
    <3>1. x = i \/ Below(x)
      BY <2>7
    <3> QED
      BY <3>1, <2>3 DEF LoopInv
  <2> QED
    BY <2>4, <2>5, <2>6, <2>9, <2>10 DEF LoopInv
<1>2. CASE UNCHANGED searchvars
  BY <1>2 DEF LoopInv, SearchTypeOK, searchvars, Below, OccursAt, LineOf, PageNumber, PageOffset
<1> QED
  BY <1>1, <1>2 DEF SearchNext

(* The loop invariant holds throughout the scan. *)
THEOREM LoopInvariant == SearchSpec => []LoopInv
BY InitLoopInv, NextLoopInv, PTL DEF SearchSpec

(* The script's output is complete and correct: when mm.find has returned  *)
(* -1, the printed addresses are exactly the occurrences of the marker.    *)
THEOREM Complete == SearchSpec => []AllHitsPrinted
<1>1. LoopInv => AllHitsPrinted
  <2> SUFFICES ASSUME LoopInv, i = -1
               PROVE  {l.full_addr : l \in printed} = {x \in Addr : OccursAt(mm, x)}
    BY DEF AllHitsPrinted
  <2>1. ASSUME NEW l \in printed
        PROVE  l.full_addr \in Addr /\ OccursAt(mm, l.full_addr)
    BY <2>1 DEF LoopInv, SearchTypeOK, Line
  <2>2. ASSUME NEW x \in Addr, OccursAt(mm, x)
        PROVE  \E l \in printed : l.full_addr = x
    BY <2>2, LineType DEF LoopInv, Below
  <2> QED
    BY <2>1, <2>2
<1> QED
  BY <1>1, LoopInvariant, PTL

(* Every printed page number and offset reconstruct the address. *)
THEOREM SplitExact == SearchSpec => []PageSplitExact
<1>1. LoopInv => PageSplitExact
  <2> SUFFICES ASSUME LoopInv, NEW l \in printed
               PROVE  l.page_number * PageSize + l.page_offset = l.full_addr
    BY DEF PageSplitExact
  <2>1. l = LineOf(l.full_addr) /\ l.full_addr \in Nat
    BY DumpSizeAssumption DEF LoopInv, SearchTypeOK, Line, Addr
  <2>2. l.page_number = PageNumber(l.full_addr) /\ l.page_offset = PageOffset(l.full_addr)
    BY <2>1 DEF LineOf
  <2> QED
    BY <2>1, <2>2, PageSplit, PageSizeAssumption
<1> QED
  BY <1>1, LoopInvariant, PTL
=============================================================================
