--------------------------- MODULE FragDoubleZero ---------------------------
(***************************************************************************)
(* find_frag_double_zero.py: the event loop that looks for fragments which *)
(* the kernel zeroed more than once during one allocation of their page.   *)
(* There is one action per branch of the loop.  trace is the list of the   *)
(* events handled so far; the properties compare what is printed with      *)
(* definitions over the trace that know nothing of the script's dicts.     *)
(***************************************************************************)
EXTENDS Integers, Sequences, FiniteSets

CONSTANTS
  Page, Frag,
  MaxTrace      \* bound on the length of a trace

ASSUME TraceAssumption == MaxTrace \in Nat

VARIABLES
  trace,            \* the events so far; the index stands for the timestamp
  active_pages,     \* page -> its "frags_zeroed": frag -> list of zeroings
  frag_ref_count,
  printed,          \* what the last event printed
  failed            \* the assertion at line 29 ended the script

vars == <<trace, active_pages, frag_ref_count, printed, failed>>

Put(d, key, value) ==
  [k \in DOMAIN d \cup {key} |-> IF k = key THEN value ELSE d[k]]
Pop(d, key) == [k \in DOMAIN d \ {key} |-> d[k]]
EmptyDict == [k \in {} |-> 0]

Event(name, page, frag) == [name |-> name, page |-> page, frag |-> frag]
NoPage == "no page"
NoFrag == "no frag"

Init ==
  /\ trace = << >>
  /\ active_pages = EmptyDict
  /\ frag_ref_count = EmptyDict
  /\ printed = {}
  /\ failed = FALSE

(* The loop takes the next event; a failed assertion has ended it.         *)
Take(event) ==
  /\ ~ failed
  /\ Len(trace) < MaxTrace
  /\ trace' = Append(trace, event)
-----------------------------------------------------------------------------
MmPageAlloc(page) ==
  /\ Take(Event("mm_page_alloc", page, NoFrag))
  /\ printed' = {}
  /\ \/ page \in DOMAIN active_pages /\ failed' = TRUE /\ UNCHANGED active_pages
     \/ /\ page \notin DOMAIN active_pages
        /\ active_pages' = Put(active_pages, page, EmptyDict)
        /\ UNCHANGED failed
  /\ UNCHANGED frag_ref_count

Repeated(zeros) == Len(zeros) > 1

(* One line per fragment of the page that was zeroed more than once.       *)
Lines(page) ==
  LET zeroed == active_pages[page]
  IN  {[page |-> page, frag |-> f, zeros |-> zeroed[f]] :
         f \in {g \in DOMAIN zeroed : Repeated(zeroed[g])}}

(* Mutant: the entry of the page is left in place.                         *)
PagesAfterFree_Kept(page) == active_pages

PagesAfterFree(page) == Pop(active_pages, page)

MmPageFree(page) ==
  /\ Take(Event("mm_page_free", page, NoFrag))
  /\ \/ page \notin DOMAIN active_pages /\ printed' = {} /\ UNCHANGED active_pages
     \/ /\ page \in DOMAIN active_pages
        /\ printed' = Lines(page)
        /\ active_pages' = PagesAfterFree(page)
  /\ UNCHANGED <<frag_ref_count, failed>>

(* The zeroings of frag in the page so far.                                *)
ZerosOf(page, frag) ==
  IF frag \in DOMAIN active_pages[page]
  THEN active_pages[page][frag] ELSE << >>

(* The reference count shown with a zeroing.                               *)
CountOf(frag) == IF frag \in DOMAIN frag_ref_count THEN frag_ref_count[frag] ELSE -1

SkbFragZeroing(page, frag) ==
  /\ Take(Event("skb_frag_zeroing", page, frag))
  /\ \/ /\ page \notin DOMAIN active_pages
        /\ printed' = {[page |-> page, frag |-> frag, zeros |-> << >>]}   \* the WARNING
        /\ UNCHANGED active_pages
     \/ /\ page \in DOMAIN active_pages
        /\ printed' = {}
        /\ active_pages' = [active_pages EXCEPT ![page] = Put(@, frag,
             Append(ZerosOf(page, frag), [time |-> Len(trace) + 1, count |-> CountOf(frag)]))]
  /\ UNCHANGED <<frag_ref_count, failed>>

SkbFragRef(frag) ==
  /\ Take(Event("skb_frag_ref", NoPage, frag))
  /\ frag_ref_count' = Put(frag_ref_count, frag,
       IF frag \in DOMAIN frag_ref_count THEN frag_ref_count[frag] + 1 ELSE 1)
  /\ printed' = {}
  /\ UNCHANGED <<active_pages, failed>>

(* Mutant: a fragment that was never referenced starts to be counted.      *)
AfterUnref_Counted(frag) ==
  Put(frag_ref_count, frag,
      IF frag \in DOMAIN frag_ref_count THEN frag_ref_count[frag] - 1 ELSE -1)

AfterUnref(frag) ==
  IF frag \in DOMAIN frag_ref_count
  THEN [frag_ref_count EXCEPT ![frag] = @ - 1] ELSE frag_ref_count

SkbFragUnref(frag) ==
  /\ Take(Event("skb_frag_unref", NoPage, frag))
  /\ frag_ref_count' = AfterUnref(frag)
  /\ printed' = {}
  /\ UNCHANGED <<active_pages, failed>>

Next ==
  \/ \E page \in Page : MmPageAlloc(page) \/ MmPageFree(page)
  \/ \E page \in Page, frag \in Frag : SkbFragZeroing(page, frag)
  \/ \E frag \in Frag : SkbFragRef(frag) \/ SkbFragUnref(frag)

Spec == Init /\ [][Next]_vars
-----------------------------------------------------------------------------
(* Definitions over the trace.                                             *)

Is(k, name) == trace[k].name = name

(* The page was allocated by event a and was not freed between a and k.    *)
InUse(page, a, k) ==
  /\ Is(a, "mm_page_alloc") /\ trace[a].page = page
  /\ \A j \in a + 1 .. k - 1 : ~ (Is(j, "mm_page_free") /\ trace[j].page = page)

ZeroedIn(page, frag, a, k) ==
  {j \in a + 1 .. k - 1 :
     Is(j, "skb_frag_zeroing") /\ trace[j].page = page /\ trace[j].frag = frag}

(* Events that change the reference count of frag before event k; those    *)
(* before its first skb_frag_ref are not counted.                          *)
RefsBefore(frag, k) == {j \in 1 .. k - 1 : Is(j, "skb_frag_ref") /\ trace[j].frag = frag}
UnrefsBefore(frag, k) ==
  {j \in 1 .. k - 1 :
     /\ Is(j, "skb_frag_unref") /\ trace[j].frag = frag
     /\ RefsBefore(frag, j) # {}}

TypeOK ==
  /\ DOMAIN active_pages \subseteq Page
  /\ \A page \in DOMAIN active_pages :
       /\ DOMAIN active_pages[page] \subseteq Frag
       /\ \A frag \in DOMAIN active_pages[page] :
            active_pages[page][frag] \in Seq([time : 1 .. MaxTrace, count : Int])
  /\ frag_ref_count \in [DOMAIN frag_ref_count -> Int]
  /\ DOMAIN frag_ref_count \subseteq Frag
  /\ failed \in BOOLEAN

(* The fragments of a set of printed lines, each with the times shown.     *)
Reported(lines) == {<<l.frag, {l.zeros[k].time : k \in DOMAIN l.zeros}>> : l \in lines}

(* Every fragment with the times it was zeroed in the use of the page that *)
(* event n ends.                                                           *)
Zeroings(page, n) ==
  {<<f, ZeroedIn(page, f, a, n)>> : f \in Frag, a \in {b \in 1 .. n - 1 : InUse(page, b, n)}}

(* When a page is freed, the fragments reported are exactly those zeroed   *)
(* more than once since the page was allocated, each with the times of     *)
(* exactly those zeroings: none of an earlier allocation of the page, none *)
(* of another page, and nothing for a page from before the trace.          *)
ReportsDoubleZeroing ==
  LET n == Len(trace)
      page == trace[n].page
  IN n > 0 /\ Is(n, "mm_page_free") =>
       Reported(printed) = {z \in Zeroings(page, n) : Cardinality(z[2]) > 1}

(* The count shown with a zeroing is the number of skb_frag_ref events of  *)
(* the fragment so far minus the skb_frag_unref events since the first of  *)
(* them, and -1 for a fragment that was never referenced.                  *)
CountsTrue ==
  \A page \in DOMAIN active_pages : \A frag \in DOMAIN active_pages[page] :
    \A k \in DOMAIN active_pages[page][frag] :
      LET zero == active_pages[page][frag][k]
          refs == RefsBefore(frag, zero.time)
      IN zero.count = IF refs = {} THEN -1
                      ELSE Cardinality(refs) - Cardinality(UnrefsBefore(frag, zero.time))
=============================================================================
