--------------------------- MODULE CheckerProofs ----------------------------
(***************************************************************************)
(* Proofs about two checkers of what the kernel zeroes.  What              *)
(* find_frag_double_zero.py prints is right for traces of any length over  *)
(* any pages and fragments, and what the datagram checker counts is right  *)
(* for any buffer sizes and losses.  The two share nothing but this        *)
(* module.                                                                 *)
(***************************************************************************)
EXTENDS FragDoubleZero, UdpPattern, FiniteSetTheorems, TLAPS

EventSet ==
  [name : {"mm_page_alloc", "mm_page_free", "skb_frag_zeroing", "skb_frag_ref", "skb_frag_unref"},
   page : Page \cup {NoPage}, frag : Frag \cup {NoFrag}]

Zeroing == [time : Nat, count : Int]

(* The dicts, with the functions that stand for them.                      *)
Dicts ==
  /\ trace \in Seq(EventSet)
  /\ DOMAIN active_pages \subseteq Page
  /\ active_pages \in [DOMAIN active_pages -> UNION {[F -> Seq(Zeroing)] : F \in SUBSET Frag}]
  /\ DOMAIN frag_ref_count \subseteq Frag
  /\ frag_ref_count \in [DOMAIN frag_ref_count -> Int]

Appended(e) == e \in EventSet /\ trace' = Append(trace, e)

(* The old events keep their place.                                        *)
LEMMA AppendedTrace ==
  ASSUME Dicts, NEW e, Appended(e)
  PROVE  /\ Len(trace) \in Nat /\ Len(trace') = Len(trace) + 1
         /\ trace' \in Seq(EventSet)
         /\ trace'[Len(trace) + 1] = e
         /\ \A j \in 1 .. Len(trace) : trace'[j] = trace[j]
BY DEF Dicts, Appended

(* What happened before an old event, or before the new one, stays.        *)
LEMMA RefsStay ==
  ASSUME Dicts, NEW e, Appended(e), NEW f, NEW k \in 1 .. Len(trace) + 1
  PROVE  RefsBefore(f, k)' = RefsBefore(f, k) /\ UnrefsBefore(f, k)' = UnrefsBefore(f, k)
<1>1. \A m \in 1 .. Len(trace) + 1 : RefsBefore(f, m)' = RefsBefore(f, m)
  BY AppendedTrace DEF RefsBefore, Is
<1>2. \A j \in 1 .. k - 1 : RefsBefore(f, j)' = RefsBefore(f, j)
  BY <1>1, AppendedTrace
<1>3. \A j \in 1 .. k - 1 : trace'[j] = trace[j]
  BY AppendedTrace
<1>4. UnrefsBefore(f, k)' = UnrefsBefore(f, k)
  BY <1>2, <1>3 DEF UnrefsBefore, Is
<1> QED
  BY <1>1, <1>4

(* An event adds at most itself to the references and unreferences.        *)
RefsGrown(e, f, r) ==
  /\ RefsBefore(f, r + 1 + 1)' =
       RefsBefore(f, r + 1) \cup (IF e.name = "skb_frag_ref" /\ e.frag = f THEN {r + 1} ELSE {})
  /\ UnrefsBefore(f, r + 1 + 1)' =
       UnrefsBefore(f, r + 1) \cup
         (IF e.name = "skb_frag_unref" /\ e.frag = f /\ RefsBefore(f, r + 1) # {} THEN {r + 1} ELSE {})

RefsCounted(e, f, r) ==
  /\ Cardinality(RefsBefore(f, r + 1 + 1)') = Cardinality(RefsBefore(f, r + 1)) +
       (IF e.name = "skb_frag_ref" /\ e.frag = f THEN 1 ELSE 0)
  /\ Cardinality(UnrefsBefore(f, r + 1 + 1)') = Cardinality(UnrefsBefore(f, r + 1)) +
       (IF e.name = "skb_frag_unref" /\ e.frag = f /\ RefsBefore(f, r + 1) # {} THEN 1 ELSE 0)

(* The new event joins the references or unreferences it belongs to.       *)
LEMMA RefsGrow ==
  ASSUME Dicts, NEW e, Appended(e), NEW f, NEW r, r = Len(trace)
  PROVE  RefsGrown(e, f, r)
<1>1. r \in Nat /\ trace'[r + 1] = e /\ \A j \in 1 .. r : trace'[j] = trace[j]
  BY AppendedTrace
<1>2. 1 .. (r + 1 + 1) - 1 = (1 .. (r + 1) - 1) \cup {r + 1} /\ r + 1 \notin 1 .. (r + 1) - 1
  BY <1>1
<1>3. \A j \in 1 .. r + 1 : RefsBefore(f, j)' = RefsBefore(f, j)
  BY RefsStay
<1>4. RefsBefore(f, r + 1 + 1)' =
        RefsBefore(f, r + 1) \cup (IF e.name = "skb_frag_ref" /\ e.frag = f THEN {r + 1} ELSE {})
  BY <1>1, <1>2 DEF RefsBefore, Is
<1>5. UnrefsBefore(f, r + 1 + 1)' =
        {j \in 1 .. (r + 1 + 1) - 1 :
           trace'[j].name = "skb_frag_unref" /\ trace'[j].frag = f /\ RefsBefore(f, j)' # {}}
  BY DEF UnrefsBefore, Is
<1>6. UnrefsBefore(f, r + 1 + 1)' =
        {j \in 1 .. (r + 1 + 1) - 1 :
           trace'[j].name = "skb_frag_unref" /\ trace'[j].frag = f /\ RefsBefore(f, j) # {}}
  BY <1>1, <1>3, <1>5
<1>7. UnrefsBefore(f, r + 1) =
        {j \in 1 .. (r + 1) - 1 :
           trace[j].name = "skb_frag_unref" /\ trace[j].frag = f /\ RefsBefore(f, j) # {}}
  BY DEF UnrefsBefore, Is
<1>8. UnrefsBefore(f, r + 1 + 1)' =
        UnrefsBefore(f, r + 1) \cup
          (IF e.name = "skb_frag_unref" /\ e.frag = f /\ RefsBefore(f, r + 1) # {} THEN {r + 1} ELSE {})
  BY <1>1, <1>2, <1>6, <1>7
<1> QED
  BY <1>4, <1>8 DEF RefsGrown

(* Only finitely many events precede any event.                            *)
LEMMA RefsFinite ==
  ASSUME NEW f, NEW k \in Nat
  PROVE  /\ RefsBefore(f, k) \subseteq 1 .. k - 1 /\ UnrefsBefore(f, k) \subseteq 1 .. k - 1
         /\ IsFiniteSet(RefsBefore(f, k)) /\ Cardinality(RefsBefore(f, k)) \in Nat
         /\ IsFiniteSet(UnrefsBefore(f, k)) /\ Cardinality(UnrefsBefore(f, k)) \in Nat
<1>1. RefsBefore(f, k) \subseteq 1 .. k - 1 /\ UnrefsBefore(f, k) \subseteq 1 .. k - 1
  BY DEF RefsBefore, UnrefsBefore
<1>2. IsFiniteSet(1 .. k - 1)
  BY FS_Interval
<1>3. IsFiniteSet(RefsBefore(f, k)) /\ IsFiniteSet(UnrefsBefore(f, k))
  BY <1>1, <1>2, FS_Subset
<1> QED
  BY <1>1, <1>3, FS_CardinalityType

(* So the numbers of references and unreferences grow by one or stay.      *)
LEMMA CardStep ==
  ASSUME Dicts, NEW e, Appended(e), NEW f, NEW r, r = Len(trace)
  PROVE  RefsCounted(e, f, r)
<1> DEFINE R == RefsBefore(f, r + 1)
           U == UnrefsBefore(f, r + 1)
<1>1. r + 1 \in Nat /\ r + 1 \notin 1 .. (r + 1) - 1
  BY AppendedTrace
<1>2. IsFiniteSet(R) /\ IsFiniteSet(U) /\ r + 1 \notin R /\ r + 1 \notin U
      /\ Cardinality(R) \in Nat /\ Cardinality(U) \in Nat
  BY <1>1, RefsFinite
<1>3. Cardinality(R \cup {r + 1}) = Cardinality(R) + 1 /\ Cardinality(U \cup {r + 1}) = Cardinality(U) + 1
  BY <1>2, FS_AddElement, Zenon
<1>0. RefsGrown(e, f, r)
  BY RefsGrow
<1>4. RefsBefore(f, r + 1 + 1)' = R \cup (IF e.name = "skb_frag_ref" /\ e.frag = f THEN {r + 1} ELSE {})
  BY <1>0 DEF RefsGrown
<1>5. UnrefsBefore(f, r + 1 + 1)' =
        U \cup (IF e.name = "skb_frag_unref" /\ e.frag = f /\ R # {} THEN {r + 1} ELSE {})
  BY <1>0 DEF RefsGrown
<1> HIDE DEF R, U
<1>6. Cardinality(RefsBefore(f, r + 1 + 1)') = Cardinality(R) + (IF e.name = "skb_frag_ref" /\ e.frag = f THEN 1 ELSE 0)
  <2>1. CASE e.name = "skb_frag_ref" /\ e.frag = f
    BY <2>1, <1>3, <1>4, Zenon
  <2>2. CASE ~ (e.name = "skb_frag_ref" /\ e.frag = f)
    <3>1. RefsBefore(f, r + 1 + 1)' = R
      BY <2>2, <1>4, Zenon
    <3> QED BY <2>2, <3>1, <1>2
  <2> QED BY <2>1, <2>2
<1>7. Cardinality(UnrefsBefore(f, r + 1 + 1)') = Cardinality(U) +
        (IF e.name = "skb_frag_unref" /\ e.frag = f /\ R # {} THEN 1 ELSE 0)
  <2>1. CASE e.name = "skb_frag_unref" /\ e.frag = f /\ R # {}
    BY <2>1, <1>3, <1>5, Zenon
  <2>2. CASE ~ (e.name = "skb_frag_unref" /\ e.frag = f /\ R # {})
    <3>1. UnrefsBefore(f, r + 1 + 1)' = U
      BY <2>2, <1>5, Zenon
    <3> QED BY <2>2, <3>1, <1>2
  <2> QED BY <2>1, <2>2
<1> QED
  BY <1>6, <1>7 DEF R, U, RefsCounted
-----------------------------------------------------------------------------
(* The dict of counts says what the first r events imply.                  *)
CountNow(r) ==
  \A f \in Frag :
    /\ f \in DOMAIN frag_ref_count <=> RefsBefore(f, r + 1) # {}
    /\ f \in DOMAIN frag_ref_count =>
         frag_ref_count[f] = Cardinality(RefsBefore(f, r + 1)) - Cardinality(UnrefsBefore(f, r + 1))

Counted == \A r \in Nat : r = Len(trace) => CountNow(r)

(* The three ways in which an event changes the dict of counts.            *)
CountsAfter(e) ==
  \/ e.name = "skb_frag_ref" /\ e.frag \in Frag
     /\ frag_ref_count' = Put(frag_ref_count, e.frag,
          IF e.frag \in DOMAIN frag_ref_count THEN frag_ref_count[e.frag] + 1 ELSE 1)
  \/ e.name = "skb_frag_unref" /\ e.frag \in Frag /\ frag_ref_count' = AfterUnref(e.frag)
  \/ e.name \notin {"skb_frag_ref", "skb_frag_unref"} /\ UNCHANGED frag_ref_count

(* The change of the dict, seen from one fragment.                         *)
LEMMA CountsAfterOne ==
  ASSUME Dicts, NEW e, CountsAfter(e), NEW f \in Frag
  PROVE  /\ f \in DOMAIN frag_ref_count' <=>
              f \in DOMAIN frag_ref_count \/ (e.name = "skb_frag_ref" /\ e.frag = f)
         /\ f \in DOMAIN frag_ref_count => frag_ref_count[f] \in Int
         /\ f \in DOMAIN frag_ref_count' =>
              frag_ref_count'[f] =
                IF f \notin DOMAIN frag_ref_count THEN 1
                ELSE IF e.name = "skb_frag_ref" /\ e.frag = f THEN frag_ref_count[f] + 1
                ELSE IF e.name = "skb_frag_unref" /\ e.frag = f THEN frag_ref_count[f] - 1
                ELSE frag_ref_count[f]
<1>1. DOMAIN frag_ref_count \subseteq Frag /\ frag_ref_count \in [DOMAIN frag_ref_count -> Int]
  BY DEF Dicts
<1>2. CASE e.name = "skb_frag_ref"
  BY <1>1, <1>2 DEF CountsAfter, Put
<1>3. CASE e.name = "skb_frag_unref"
  BY <1>1, <1>3 DEF CountsAfter, AfterUnref
<1>4. CASE e.name \notin {"skb_frag_ref", "skb_frag_unref"}
  BY <1>1, <1>4 DEF CountsAfter
<1> QED
  BY <1>2, <1>3, <1>4

(* The dict of counts keeps its shape (lines 50-59).                       *)
LEMMA CountsAfterType ==
  ASSUME Dicts, NEW e, CountsAfter(e)
  PROVE  (DOMAIN frag_ref_count \subseteq Frag /\ frag_ref_count \in [DOMAIN frag_ref_count -> Int])'
<1>1. DOMAIN frag_ref_count \subseteq Frag /\ frag_ref_count \in [DOMAIN frag_ref_count -> Int]
  BY DEF Dicts
<1>2. CASE e.name = "skb_frag_ref"
  BY <1>1, <1>2 DEF CountsAfter, Put
<1>3. CASE e.name = "skb_frag_unref"
  BY <1>1, <1>3 DEF CountsAfter, AfterUnref
<1>4. CASE e.name \notin {"skb_frag_ref", "skb_frag_unref"}
  BY <1>1, <1>4 DEF CountsAfter
<1> QED
  BY <1>2, <1>3, <1>4

(* The counts of the dict are those of the trace after every event: an     *)
(* unreference counts only once the fragment has been referenced (line     *)
(* 57).                                                                    *)
LEMMA CountedStep ==
  ASSUME Dicts, Counted, NEW e, Appended(e), CountsAfter(e)
  PROVE  Counted'
<1> SUFFICES ASSUME NEW m \in Nat, m = Len(trace), NEW f \in Frag
             PROVE  /\ f \in DOMAIN frag_ref_count' <=> RefsBefore(f, m + 1 + 1)' # {}
                    /\ f \in DOMAIN frag_ref_count' =>
                         frag_ref_count'[f] = Cardinality(RefsBefore(f, m + 1 + 1)')
                                              - Cardinality(UnrefsBefore(f, m + 1 + 1)')
  <2>1. Len(trace) \in Nat /\ Len(trace') = Len(trace) + 1
    BY AppendedTrace
  <2> QED BY <2>1 DEF Counted, CountNow
<1> DEFINE R == RefsBefore(f, m + 1)
           U == UnrefsBefore(f, m + 1)
           R1 == RefsBefore(f, m + 1 + 1)'
           U1 == UnrefsBefore(f, m + 1 + 1)'
           isRef == e.name = "skb_frag_ref" /\ e.frag = f
           isUnref == e.name = "skb_frag_unref" /\ e.frag = f
<1>1. /\ f \in DOMAIN frag_ref_count <=> R # {}
      /\ f \in DOMAIN frag_ref_count => frag_ref_count[f] = Cardinality(R) - Cardinality(U)
  BY DEF Counted, CountNow
<1>2. RefsGrown(e, f, m)
  BY RefsGrow
<1>3. RefsCounted(e, f, m)
  BY CardStep
<1>4. Cardinality(R) \in Nat /\ Cardinality(U) \in Nat
  BY RefsFinite
<1>5. R = {} => Cardinality(R) = 0 /\ Cardinality(U) = 0
  <2>1. \A j \in 1 .. (m + 1) - 1 : RefsBefore(f, j) \subseteq RefsBefore(f, m + 1)
    BY DEF RefsBefore
  <2>2. R = {} => U = {}
    BY <2>1 DEF UnrefsBefore
  <2> QED BY <2>2, FS_EmptySet, SMTT(30)
<1>6. /\ R1 = R \cup (IF isRef THEN {m + 1} ELSE {})
      /\ Cardinality(R1) = Cardinality(R) + (IF isRef THEN 1 ELSE 0)
      /\ Cardinality(U1) = Cardinality(U) + (IF isUnref /\ R # {} THEN 1 ELSE 0)
      /\ isRef => ~ isUnref
  BY <1>2, <1>3 DEF RefsGrown, RefsCounted
<1>7. /\ f \in DOMAIN frag_ref_count' <=> f \in DOMAIN frag_ref_count \/ isRef
      /\ f \in DOMAIN frag_ref_count' =>
           frag_ref_count'[f] =
             IF f \notin DOMAIN frag_ref_count THEN 1
             ELSE IF isRef THEN frag_ref_count[f] + 1
             ELSE IF isUnref THEN frag_ref_count[f] - 1
             ELSE frag_ref_count[f]
  BY CountsAfterOne
<1> HIDE DEF R, U, R1, U1, isRef, isUnref
<1>8. f \in DOMAIN frag_ref_count' <=> R1 # {}
  BY <1>1, <1>6, <1>7
<1>9. ASSUME f \in DOMAIN frag_ref_count'
      PROVE  frag_ref_count'[f] = Cardinality(R1) - Cardinality(U1)
  <2>1. CASE R = {}
    BY <1>1, <1>5, <1>6, <1>7, <1>9, <2>1
  <2>2. CASE R # {}
    BY <1>1, <1>4, <1>6, <1>7, <1>9, <2>2
  <2> QED BY <2>1, <2>2
<1> QED
  BY <1>8, <1>9 DEF R1, U1
-----------------------------------------------------------------------------
NewZeroing(g) == [time |-> Len(trace) + 1, count |-> CountOf(g)]

ZerosAfter(e, q, g) ==
  IF q \notin DOMAIN active_pages THEN << >>
  ELSE IF e.name = "skb_frag_zeroing" /\ e.page = q /\ e.frag = g
  THEN Append(ZerosOf(q, g), NewZeroing(g)) ELSE ZerosOf(q, g)

(* What an event does to the dict of pages, seen from outside.             *)
PagesAfter(e) ==
  /\ DOMAIN active_pages' =
       IF e.name = "mm_page_alloc" THEN DOMAIN active_pages \cup {e.page}
       ELSE IF e.name = "mm_page_free" THEN DOMAIN active_pages \ {e.page}
       ELSE DOMAIN active_pages
  /\ \A q \in DOMAIN active_pages', g \in Frag : ZerosOf(q, g)' = ZerosAfter(e, q, g)
  /\ failed' <=> e.name = "mm_page_alloc" /\ e.page \in DOMAIN active_pages

PageDict ==
  /\ DOMAIN active_pages \subseteq Page
  /\ active_pages \in [DOMAIN active_pages -> UNION {[F -> Seq(Zeroing)] : F \in SUBSET Frag}]

(* What the dict holds for a page and a fragment, and what line 49 adds.   *)
LEMMA ZerosType ==
  ASSUME Dicts, NEW q \in DOMAIN active_pages, NEW g \in Frag
  PROVE  /\ ZerosOf(q, g) \in Seq(Zeroing)
         /\ DOMAIN active_pages[q] \subseteq Frag
         /\ active_pages[q] \in [DOMAIN active_pages[q] -> Seq(Zeroing)]
         /\ NewZeroing(g) \in Zeroing
<1>1. active_pages[q] \in UNION {[F -> Seq(Zeroing)] : F \in SUBSET Frag}
  BY DEF Dicts
<1>2. PICK F \in SUBSET Frag : active_pages[q] \in [F -> Seq(Zeroing)]
  BY <1>1
<1>3. DOMAIN active_pages[q] = F
  BY <1>2
<1>4. << >> \in Seq(Zeroing)
  OBVIOUS
<1>5. ZerosOf(q, g) \in Seq(Zeroing)
  BY <1>2, <1>3, <1>4 DEF ZerosOf
<1>6. CountOf(g) \in Int
  BY DEF CountOf, Dicts
<1>7. Len(trace) + 1 \in Nat
  BY DEF Dicts
<1>8. NewZeroing(g) \in Zeroing
  BY <1>6, <1>7 DEF NewZeroing, Zeroing
<1> QED
  BY <1>2, <1>3, <1>5, <1>8

(* An allocated page starts with no zeroings; if it was in use the         *)
(* assertion at line 29 fails.                                             *)
LEMMA AllocPages ==
  ASSUME Dicts, ~ failed, NEW page \in Page, MmPageAlloc(page)
  PROVE  PagesAfter(Event("mm_page_alloc", page, NoFrag)) /\ PageDict'
<1> DEFINE e == Event("mm_page_alloc", page, NoFrag)
<1>1. e.name = "mm_page_alloc" /\ e.page = page
  BY DEF Event
<1>2. PageDict
  BY DEF Dicts, PageDict
<1> HIDE DEF e
<1>3. CASE page \in DOMAIN active_pages
  <2>1. active_pages' = active_pages /\ failed' = TRUE
    BY <1>3 DEF MmPageAlloc
  <2>2. \A q \in DOMAIN active_pages', g \in Frag : ZerosOf(q, g)' = ZerosAfter(e, q, g)
    BY <1>1, <2>1 DEF ZerosOf, ZerosAfter
  <2>3. DOMAIN active_pages' = DOMAIN active_pages \cup {e.page}
    BY <1>1, <1>3, <2>1
  <2>4. PagesAfter(e)
    BY <1>1, <1>3, <2>1, <2>2, <2>3 DEF PagesAfter
  <2>5. PageDict'
    BY <1>2, <2>1 DEF PageDict
  <2> QED BY <2>4, <2>5 DEF e
<1>4. CASE page \notin DOMAIN active_pages
  <2>1. active_pages' = Put(active_pages, page, EmptyDict) /\ failed' = failed
    BY <1>4 DEF MmPageAlloc
  <2>2. /\ DOMAIN active_pages' = DOMAIN active_pages \cup {page}
        /\ active_pages'[page] = EmptyDict
        /\ \A q \in DOMAIN active_pages : active_pages'[q] = active_pages[q]
        /\ active_pages' = [q \in DOMAIN active_pages \cup {page} |-> active_pages'[q]]
    BY <1>4, <2>1 DEF Put
  <2>3. DOMAIN EmptyDict = {} /\ EmptyDict \in [{} -> Seq(Zeroing)]
    BY DEF EmptyDict
  <2>4. \A q \in DOMAIN active_pages', g \in Frag : ZerosOf(q, g)' = ZerosAfter(e, q, g)
    BY <1>1, <1>4, <2>2, <2>3 DEF ZerosOf, ZerosAfter
  <2>5. PagesAfter(e)
    BY <1>1, <1>4, <2>1, <2>2, <2>4 DEF PagesAfter
  <2>6. EmptyDict \in UNION {[F -> Seq(Zeroing)] : F \in SUBSET Frag}
    BY <2>3, SMTT(30)
  <2>7. PageDict'
    BY <1>2, <2>2, <2>6 DEF PageDict
  <2> QED BY <2>5, <2>7 DEF e
<1> QED
  BY <1>3, <1>4

(* A freed page leaves the dict with its zeroings (line 36).               *)
LEMMA FreePages ==
  ASSUME Dicts, ~ failed, NEW page \in Page, MmPageFree(page)
  PROVE  PagesAfter(Event("mm_page_free", page, NoFrag)) /\ PageDict'
<1> DEFINE e == Event("mm_page_free", page, NoFrag)
<1>1. e.name = "mm_page_free" /\ e.page = page
  BY DEF Event
<1>2. PageDict
  BY DEF Dicts, PageDict
<1> HIDE DEF e
<1>3. /\ DOMAIN active_pages' = DOMAIN active_pages \ {page}
      /\ \A q \in DOMAIN active_pages' : active_pages'[q] = active_pages[q]
      /\ active_pages' = [q \in DOMAIN active_pages' |-> active_pages'[q]]
      /\ failed' = failed
  BY <1>2, Zenon DEF MmPageFree, PagesAfterFree, Pop, PageDict
<1>4. \A q \in DOMAIN active_pages', g \in Frag : ZerosOf(q, g)' = ZerosAfter(e, q, g)
  BY <1>1, <1>3 DEF ZerosOf, ZerosAfter
<1>5. PagesAfter(e)
  BY <1>1, <1>3, <1>4 DEF PagesAfter
<1>6. PageDict'
  BY <1>2, <1>3 DEF PageDict
<1> QED
  BY <1>5, <1>6 DEF e

(* A zeroing is added to its fragment of a page in use, and dropped for a  *)
(* page that is not (lines 40-49).                                         *)
LEMMA ZeroingPages ==
  ASSUME Dicts, ~ failed, NEW page \in Page, NEW frag \in Frag, SkbFragZeroing(page, frag)
  PROVE  PagesAfter(Event("skb_frag_zeroing", page, frag)) /\ PageDict'
<1> DEFINE e == Event("skb_frag_zeroing", page, frag)
<1>1. e.name = "skb_frag_zeroing" /\ e.page = page /\ e.frag = frag
  BY DEF Event
<1>2. PageDict
  BY DEF Dicts, PageDict
<1> HIDE DEF e
<1>3. CASE page \notin DOMAIN active_pages
  <2>1. active_pages' = active_pages /\ failed' = failed
    BY <1>3 DEF SkbFragZeroing
  <2>2. \A q \in DOMAIN active_pages', g \in Frag : ZerosOf(q, g)' = ZerosAfter(e, q, g)
    BY <1>1, <1>3, <2>1 DEF ZerosOf, ZerosAfter
  <2>3. PagesAfter(e)
    BY <1>1, <2>1, <2>2 DEF PagesAfter
  <2>4. PageDict'
    BY <1>2, <2>1 DEF PageDict
  <2> QED BY <2>3, <2>4 DEF e
<1>4. CASE page \in DOMAIN active_pages
  <2> DEFINE zeros == Append(ZerosOf(page, frag), NewZeroing(frag))
             d == Put(active_pages[page], frag, zeros)
  <2>1. active_pages' = [active_pages EXCEPT ![page] = d] /\ failed' = failed
    BY <1>4 DEF SkbFragZeroing, NewZeroing
  <2>2. /\ ZerosOf(page, frag) \in Seq(Zeroing) /\ NewZeroing(frag) \in Zeroing
        /\ DOMAIN active_pages[page] \subseteq Frag
        /\ active_pages[page] \in [DOMAIN active_pages[page] -> Seq(Zeroing)]
    BY <1>4, ZerosType
  <2>3. zeros \in Seq(Zeroing)
    BY <2>2
  <2> HIDE DEF zeros
  <2>4. /\ DOMAIN d = DOMAIN active_pages[page] \cup {frag}
        /\ d[frag] = zeros
        /\ \A g \in DOMAIN active_pages[page] : g # frag => d[g] = active_pages[page][g]
        /\ d \in [DOMAIN active_pages[page] \cup {frag} -> Seq(Zeroing)]
    BY <2>2, <2>3 DEF Put
  <2> HIDE DEF d
  <2>5. /\ DOMAIN active_pages' = DOMAIN active_pages
        /\ active_pages'[page] = d
        /\ \A q \in DOMAIN active_pages : q # page => active_pages'[q] = active_pages[q]
        /\ active_pages' = [q \in DOMAIN active_pages |-> active_pages'[q]]
    BY <1>2, <1>4, <2>1, Zenon DEF PageDict
  <2>6. ASSUME NEW q \in DOMAIN active_pages', NEW g \in Frag
        PROVE  ZerosOf(q, g)' = ZerosAfter(e, q, g)
    <3>1. CASE q # page
      BY <1>1, <2>5, <3>1 DEF ZerosOf, ZerosAfter
    <3>2. CASE q = page /\ g # frag
      BY <1>1, <2>4, <2>5, <3>2 DEF ZerosOf, ZerosAfter
    <3>3. CASE q = page /\ g = frag
      <4>1. ZerosOf(q, g)' = zeros
        BY <2>4, <2>5, <3>3 DEF ZerosOf
      <4>2. ZerosAfter(e, q, g) = zeros
        BY <1>1, <1>4, <3>3 DEF ZerosAfter, zeros
      <4> QED BY <4>1, <4>2
    <3> QED BY <3>1, <3>2, <3>3
  <2>7. PagesAfter(e)
    BY <1>1, <2>1, <2>5, <2>6 DEF PagesAfter
  <2>8. d \in UNION {[F -> Seq(Zeroing)] : F \in SUBSET Frag}
    BY <2>2, <2>4, Zenon
  <2>9. PageDict'
    BY <1>2, <2>5, <2>8, Zenon DEF PageDict
  <2> QED BY <2>7, <2>9 DEF e
<1> QED
  BY <1>3, <1>4

(* Reference counting leaves the pages alone.                              *)
LEMMA OtherPages ==
  ASSUME Dicts, ~ failed, NEW e, e.name \in {"skb_frag_ref", "skb_frag_unref"},
         UNCHANGED <<active_pages, failed>>
  PROVE  PagesAfter(e) /\ PageDict'
<1>1. PageDict'
  BY DEF Dicts, PageDict
<1>2. \A q \in DOMAIN active_pages', g \in Frag : ZerosOf(q, g)' = ZerosAfter(e, q, g)
  BY DEF ZerosOf, ZerosAfter
<1> QED
  BY <1>1, <1>2 DEF PagesAfter
-----------------------------------------------------------------------------
(* The count to be shown with a zeroing at time t.                         *)
TrueCount(f, t) ==
  IF RefsBefore(f, t) = {} THEN -1
  ELSE Cardinality(RefsBefore(f, t)) - Cardinality(UnrefsBefore(f, t))

Remembered(q, g) == {ZerosOf(q, g)[k] : k \in DOMAIN ZerosOf(q, g)}

(* Every zeroing remembered is an event of the trace with its count.       *)
Dated(r) ==
  \A q \in DOMAIN active_pages, g \in Frag : \A z \in Remembered(q, g) :
    z.time \in 1 .. r /\ z.count = TrueCount(g, z.time)

AllDated == \A r \in Nat : r = Len(trace) => Dated(r)

(* If every remembered zeroing has its true count, the counts shown are    *)
(* right.                                                                  *)
LEMMA DatedImpliesCounts ==
  ASSUME Dicts, AllDated
  PROVE  CountsTrue
<1> SUFFICES ASSUME NEW page \in DOMAIN active_pages, NEW frag \in DOMAIN active_pages[page],
                    NEW k \in DOMAIN active_pages[page][frag]
             PROVE  active_pages[page][frag][k].count
                      = TrueCount(frag, active_pages[page][frag][k].time)
  BY DEF CountsTrue, TrueCount
<1>1. Len(trace) \in Nat
  BY DEF Dicts
<1>2. Dated(Len(trace))
  BY <1>1 DEF AllDated
<1>4. frag \in Frag
  <2>1. active_pages[page] \in UNION {[F -> Seq(Zeroing)] : F \in SUBSET Frag}
    BY DEF Dicts
  <2> QED BY <2>1
<1>5. ZerosOf(page, frag) = active_pages[page][frag]
  BY DEF ZerosOf
<1>6. active_pages[page][frag][k] \in Remembered(page, frag)
  BY <1>5 DEF Remembered
<1> QED
  BY <1>2, <1>4, <1>6 DEF Dated

(* A zeroing keeps its count whatever comes later.                         *)
LEMMA DatedStep ==
  ASSUME Dicts, Counted, AllDated, NEW e, Appended(e), PagesAfter(e)
  PROVE  AllDated'
<1> SUFFICES ASSUME NEW m \in Nat, m = Len(trace),
                    NEW q \in DOMAIN active_pages', NEW g \in Frag, NEW z \in Remembered(q, g)'
             PROVE  z.time \in 1 .. m + 1 /\ z.count = TrueCount(g, z.time)'
  <2>1. Len(trace) \in Nat /\ Len(trace') = Len(trace) + 1
    BY AppendedTrace
  <2> QED BY <2>1 DEF AllDated, Dated
<1>1. Dated(m)
  BY DEF AllDated
<1>2. \A t \in 1 .. m + 1 : TrueCount(g, t)' = TrueCount(g, t)
  BY RefsStay DEF TrueCount
<1>3. ZerosOf(q, g)' = ZerosAfter(e, q, g)
  BY DEF PagesAfter
<1>4. PICK k \in DOMAIN ZerosOf(q, g)' : z = ZerosOf(q, g)'[k]
  BY DEF Remembered
<1>5. z.time \in 1 .. m + 1 /\ z.count = TrueCount(g, z.time)
  <2>1. q \in DOMAIN active_pages
    BY <1>3 DEF ZerosAfter
  <2>2. CASE k \in DOMAIN ZerosOf(q, g) /\ z = ZerosOf(q, g)[k]
    BY <1>1, <2>1, <2>2 DEF Dated, Remembered
  <2>3. CASE z = NewZeroing(g)
    <3>1. z.time = m + 1 /\ z.count = CountOf(g)
      BY <2>3 DEF NewZeroing
    <3>2. CountNow(m)
      BY DEF Counted
    <3>3. CountOf(g) = TrueCount(g, m + 1)
      BY <3>2 DEF CountNow, CountOf, TrueCount
    <3> QED BY <3>1, <3>3
  <2>4. ZerosOf(q, g) \in Seq(Zeroing) /\ NewZeroing(g) \in Zeroing
    BY <2>1, ZerosType
  <2>5. \/ k \in DOMAIN ZerosOf(q, g) /\ z = ZerosOf(q, g)[k]
        \/ z = NewZeroing(g)
    <3>1. CASE ZerosOf(q, g)' = ZerosOf(q, g)
      BY <3>1, <1>4
    <3>2. CASE ZerosOf(q, g)' = Append(ZerosOf(q, g), NewZeroing(g))
      BY <3>2, <1>4, <2>4
    <3> QED BY <3>1, <3>2, <1>3, <2>1 DEF ZerosAfter
  <2> QED BY <2>2, <2>3, <2>5
<1>6. TrueCount(g, z.time)' = TrueCount(g, z.time)
  BY <1>2, <1>5
<1> QED
  BY <1>5, <1>6
-----------------------------------------------------------------------------
(* Uses and zeroings of a page up to an old event stay what they were.     *)
LEMMA UsesStay ==
  ASSUME Dicts, NEW e, Appended(e), NEW r, r = Len(trace), NEW q, NEW f, NEW b \in 1 .. r
  PROVE  /\ InUse(q, b, r + 1)' <=> InUse(q, b, r + 1)
         /\ ZeroedIn(q, f, b, r + 1)' = ZeroedIn(q, f, b, r + 1)
<1>1. r \in Nat /\ \A j \in 1 .. r : trace'[j] = trace[j]
  BY AppendedTrace
<1>2. \A j \in b + 1 .. (r + 1) - 1 : j \in 1 .. r
  BY <1>1
<1>3. InUse(q, b, r + 1)' <=> InUse(q, b, r + 1)
  BY <1>1, <1>2 DEF InUse, Is
<1>4. ZeroedIn(q, f, b, r + 1)' = ZeroedIn(q, f, b, r + 1)
  BY <1>1, <1>2 DEF ZeroedIn, Is
<1> QED
  BY <1>3, <1>4

UsesGrown(e, r, q, f, b) ==
  /\ InUse(q, b, r + 1 + 1)' <=> InUse(q, b, r + 1) /\ ~ (e.name = "mm_page_free" /\ e.page = q)
  /\ ZeroedIn(q, f, b, r + 1 + 1)' =
       ZeroedIn(q, f, b, r + 1) \cup
         (IF e.name = "skb_frag_zeroing" /\ e.page = q /\ e.frag = f THEN {r + 1} ELSE {})

(* A use goes on unless the new event frees its page, with one more        *)
(* zeroing if the event is one.                                            *)
LEMMA UsesGrow ==
  ASSUME Dicts, NEW e, Appended(e), NEW r, r = Len(trace), NEW q, NEW f, NEW b \in 1 .. r
  PROVE  UsesGrown(e, r, q, f, b)
<1>1. r \in Nat /\ trace'[r + 1] = e /\ \A j \in 1 .. r : trace'[j] = trace[j]
  BY AppendedTrace
<1>2. b + 1 .. (r + 1 + 1) - 1 = (b + 1 .. (r + 1) - 1) \cup {r + 1}
  BY <1>1
<1>3. \A j \in b + 1 .. (r + 1) - 1 : j \in 1 .. r
  BY <1>1
<1>4. InUse(q, b, r + 1 + 1)' <=> InUse(q, b, r + 1) /\ ~ (e.name = "mm_page_free" /\ e.page = q)
  BY <1>1, <1>2, <1>3 DEF InUse, Is
<1>5. ZeroedIn(q, f, b, r + 1 + 1)' =
        ZeroedIn(q, f, b, r + 1) \cup
          (IF e.name = "skb_frag_zeroing" /\ e.page = q /\ e.frag = f THEN {r + 1} ELSE {})
  BY <1>1, <1>2, <1>3 DEF ZeroedIn, Is
<1> QED
  BY <1>4, <1>5 DEF UsesGrown

(* A use that the new event begins.                                        *)
LEMMA NewUse ==
  ASSUME Dicts, NEW e, Appended(e), NEW r, r = Len(trace), NEW q, NEW f
  PROVE  /\ InUse(q, r + 1, r + 1 + 1)' <=> e.name = "mm_page_alloc" /\ e.page = q
         /\ ZeroedIn(q, f, r + 1, r + 1 + 1)' = {}
<1>1. r \in Nat /\ trace'[r + 1] = e
  BY AppendedTrace
<1>2. (r + 1) + 1 .. (r + 1 + 1) - 1 = {}
  BY <1>1
<1> QED
  BY <1>1, <1>2 DEF InUse, ZeroedIn, Is
-----------------------------------------------------------------------------
Times(q, g) == {z.time : z \in Remembered(q, g)}

(* The entry of page q has the zeroings since event a.                     *)
Tracks(q, g, a, r) ==
  /\ Times(q, g) = ZeroedIn(q, g, a, r + 1)
  /\ Len(ZerosOf(q, g)) = Cardinality(ZeroedIn(q, g, a, r + 1))

OnlyUse(q, a, r) ==
  /\ InUse(q, a, r + 1)
  /\ \A b \in 1 .. r : InUse(q, b, r + 1) => b = a

(* The pages in the dict are those in use, each in one use only.           *)
UsesTrue(r) ==
  \A q \in Page :
    /\ q \in DOMAIN active_pages =>
         \E a \in 1 .. r : OnlyUse(q, a, r) /\ \A g \in Frag : Tracks(q, g, a, r)
    /\ q \notin DOMAIN active_pages => \A b \in 1 .. r : ~ InUse(q, b, r + 1)

Uses == ~ failed => \A r \in Nat : r = Len(trace) => UsesTrue(r)

(* An entry that is in the dict before and after the event.                *)
LEMMA TracksStep ==
  ASSUME Dicts, NEW e, Appended(e), PagesAfter(e), NEW m \in Nat, m = Len(trace),
         NEW q \in DOMAIN active_pages, q \in DOMAIN active_pages', NEW g \in Frag,
         NEW a \in 1 .. m, Tracks(q, g, a, m)
  PROVE  Tracks(q, g, a, m + 1)'
<1> DEFINE Z == ZerosOf(q, g)
           Z1 == ZerosOf(q, g)'
           S == ZeroedIn(q, g, a, m + 1)
           S1 == ZeroedIn(q, g, a, m + 1 + 1)'
           T == Times(q, g)
           T1 == Times(q, g)'
           new == NewZeroing(g)
           now == e.name = "skb_frag_zeroing" /\ e.page = q /\ e.frag = g
<1>1. T = S /\ Len(Z) = Cardinality(S)
  BY DEF Tracks
<1>2. Z1 = IF now THEN Append(Z, new) ELSE Z
  BY DEF PagesAfter, ZerosAfter
<1>3. S1 = S \cup (IF now THEN {m + 1} ELSE {})
  <2>1. UsesGrown(e, m, q, g, a)
    BY UsesGrow
  <2> QED BY <2>1 DEF UsesGrown
<1>4. Z \in Seq(Zeroing) /\ new \in Zeroing /\ new.time = m + 1
  <2>1. Z \in Seq(Zeroing) /\ new \in Zeroing
    BY ZerosType
  <2> QED BY <2>1 DEF NewZeroing
<1>5. T = {Z[k].time : k \in DOMAIN Z} /\ T1 = {Z1[k].time : k \in DOMAIN Z1}
  BY DEF Times, Remembered
<1>6. S \subseteq 1 .. m /\ m + 1 \notin S
  BY DEF ZeroedIn
<1>7. IsFiniteSet(S)
  <2>1. IsFiniteSet(1 .. m)
    BY FS_Interval
  <2> QED BY <1>6, <2>1, FS_Subset
<1>8. Cardinality(S \cup {m + 1}) = Cardinality(S) + 1
  BY <1>6, <1>7, FS_AddElement, Zenon
<1> HIDE DEF Z, Z1, S, S1, T, T1, new, now
<1>9. T1 = S1 /\ Len(Z1) = Cardinality(S1)
  <2>1. CASE now
    <3>1. Z1 = Append(Z, new) /\ S1 = S \cup {m + 1}
      BY <1>2, <1>3, <2>1
    <3>2. Len(Z1) = Len(Z) + 1 /\ Z1[Len(Z) + 1] = new /\ \A k \in 1 .. Len(Z) : Z1[k] = Z[k]
      BY <3>1, <1>4
    <3>3. DOMAIN Z = 1 .. Len(Z) /\ DOMAIN Z1 = (1 .. Len(Z)) \cup {Len(Z) + 1} /\ Len(Z) \in Nat
      BY <3>1, <3>2, <1>4
    <3>4. T1 = T \cup {m + 1}
      BY <3>2, <3>3, <1>4, <1>5
    <3> QED BY <3>1, <3>2, <3>4, <1>1, <1>8
  <2>2. CASE ~ now
    <3>1. Z1 = Z /\ S1 = S
      BY <1>2, <1>3, <2>2
    <3> QED BY <3>1, <1>1, <1>5
  <2> QED BY <2>1, <2>2
<1> QED
  BY <1>9 DEF Tracks, Z1, S1, T1

(* After every event the dict holds the pages in use, with the zeroings of *)
(* that use, until the assertion at line 29 has failed.                    *)
LEMMA UsesStep ==
  ASSUME Dicts, Uses, ~ failed, NEW e, Appended(e), PagesAfter(e)
  PROVE  Uses'
<1> SUFFICES ASSUME ~ failed', NEW m \in Nat, m = Len(trace), NEW q \in Page
             PROVE  /\ q \in DOMAIN active_pages' =>
                         \E a \in 1 .. m + 1 :
                           OnlyUse(q, a, m + 1)' /\ \A g \in Frag : Tracks(q, g, a, m + 1)'
                    /\ q \notin DOMAIN active_pages' =>
                         \A b \in 1 .. m + 1 : ~ InUse(q, b, m + 1 + 1)'
  <2>1. Len(trace) \in Nat /\ Len(trace') = Len(trace) + 1
    BY AppendedTrace
  <2> QED BY <2>1 DEF Uses, UsesTrue
<1> DEFINE alloc == e.name = "mm_page_alloc" /\ e.page = q
           free == e.name = "mm_page_free" /\ e.page = q
<1>1. /\ q \in DOMAIN active_pages =>
           \E a \in 1 .. m : OnlyUse(q, a, m) /\ \A g \in Frag : Tracks(q, g, a, m)
      /\ q \notin DOMAIN active_pages => \A b \in 1 .. m : ~ InUse(q, b, m + 1)
  BY DEF Uses, UsesTrue
<1>2. \A b \in 1 .. m : InUse(q, b, m + 1 + 1)' <=> InUse(q, b, m + 1) /\ ~ free
  <2>1. \A b \in 1 .. m : UsesGrown(e, m, q, q, b)
    BY UsesGrow
  <2> QED BY <2>1 DEF UsesGrown
<1>3. InUse(q, m + 1, m + 1 + 1)' <=> alloc
  BY NewUse, SMTT(30)
<1>4. /\ q \in DOMAIN active_pages' <=> (q \in DOMAIN active_pages /\ ~ free) \/ alloc
      /\ ~ (alloc /\ q \in DOMAIN active_pages)
      /\ ~ (alloc /\ free)
  BY DEF PagesAfter
<1>5. 1 .. m + 1 = (1 .. m) \cup {m + 1}
  OBVIOUS
<1> HIDE DEF alloc, free
<1>6. CASE q \in DOMAIN active_pages /\ q \in DOMAIN active_pages'
  <2>1. PICK a \in 1 .. m : OnlyUse(q, a, m) /\ \A g \in Frag : Tracks(q, g, a, m)
    BY <1>1, <1>6
  <2>2. \A g \in Frag : Tracks(q, g, a, m + 1)'
    BY <1>6, <2>1, TracksStep
  <2>3. OnlyUse(q, a, m + 1)'
    BY <1>2, <1>3, <1>4, <1>5, <1>6, <2>1 DEF OnlyUse
  <2> QED BY <1>5, <1>6, <2>2, <2>3
<1>7. CASE q \notin DOMAIN active_pages /\ q \in DOMAIN active_pages'
  <2>1. ASSUME NEW g \in Frag
        PROVE  Tracks(q, g, m + 1, m + 1)'
    <3>1. ZerosOf(q, g)' = << >>
      BY <1>7 DEF PagesAfter, ZerosAfter
    <3>2. ZeroedIn(q, g, m + 1, m + 1 + 1)' = {}
      BY NewUse
    <3>3. Times(q, g)' = {}
      BY <3>1 DEF Times, Remembered
    <3> QED BY <3>1, <3>2, <3>3, FS_EmptySet DEF Tracks
  <2>2. OnlyUse(q, m + 1, m + 1)'
    BY <1>1, <1>2, <1>3, <1>4, <1>5, <1>7 DEF OnlyUse
  <2> QED BY <1>5, <1>7, <2>1, <2>2
<1>8. CASE q \notin DOMAIN active_pages'
  BY <1>1, <1>2, <1>3, <1>4, <1>5, <1>8
<1> QED
  BY <1>6, <1>7, <1>8
-----------------------------------------------------------------------------
(* The lines printed when page was freed by event r.                       *)
ReportsTrue(r, page) == Reported(printed) = {z \in Zeroings(page, r) : Cardinality(z[2]) > 1}

AllReports ==
  \A r, page :
    r = Len(trace) /\ r > 0 /\ Is(r, "mm_page_free") /\ trace[r].page = page => ReportsTrue(r, page)

(* The property follows from its form for a given event and page.          *)
LEMMA ReportsImplied ==
  ASSUME AllReports
  PROVE  ReportsDoubleZeroing
BY DEF AllReports, ReportsTrue, ReportsDoubleZeroing

(* Freeing a page prints the double zeroings of the use that ends (lines   *)
(* 31-39).                                                                 *)
LEMMA ReportsStep ==
  ASSUME Dicts, Uses, ~ failed, NEW page \in Page, MmPageFree(page),
         Appended(Event("mm_page_free", page, NoFrag))
  PROVE  AllReports'
<1> DEFINE e == Event("mm_page_free", page, NoFrag)
<1> SUFFICES ASSUME NEW m \in Nat, m = Len(trace)
             PROVE  Reported(printed') = {z \in Zeroings(page, m + 1)' : Cardinality(z[2]) > 1}
  <2>1. Len(trace) \in Nat /\ Len(trace') = Len(trace) + 1 /\ trace'[Len(trace) + 1] = e
    BY AppendedTrace
  <2>2. e.page = page
    BY DEF Event
  <2>3. PICK m \in Nat : m = Len(trace)
    BY <2>1
  <2>4. ReportsTrue(m + 1, page)'
    BY <2>3 DEF ReportsTrue
  <2> QED BY <2>1, <2>2, <2>3, <2>4 DEF AllReports
<1>1. \A b \in 1 .. (m + 1) - 1, f \in Frag :
        /\ InUse(page, b, m + 1)' <=> InUse(page, b, m + 1)
        /\ ZeroedIn(page, f, b, m + 1)' = ZeroedIn(page, f, b, m + 1)
  BY UsesStay
<1>2. Zeroings(page, m + 1)' = Zeroings(page, m + 1)
  BY <1>1 DEF Zeroings
<1>3. /\ page \in DOMAIN active_pages =>
           \E a \in 1 .. m : OnlyUse(page, a, m) /\ \A g \in Frag : Tracks(page, g, a, m)
      /\ page \notin DOMAIN active_pages => \A b \in 1 .. m : ~ InUse(page, b, m + 1)
  BY DEF Uses, UsesTrue
<1>4. (m + 1) - 1 = m
  OBVIOUS
<1>5. CASE page \notin DOMAIN active_pages
  <2>1. printed' = {}
    BY <1>5 DEF MmPageFree
  <2>2. Zeroings(page, m + 1) = {}
    BY <1>3, <1>4, <1>5 DEF Zeroings
  <2> QED BY <1>2, <2>1, <2>2 DEF Reported
<1>6. CASE page \in DOMAIN active_pages
  <2>1. PICK a \in 1 .. m : OnlyUse(page, a, m) /\ \A g \in Frag : Tracks(page, g, a, m)
    BY <1>3, <1>6
  <2> DEFINE S(f) == ZeroedIn(page, f, a, m + 1)
             d == active_pages[page]
             Long == {f \in DOMAIN d : Len(d[f]) > 1}
  <2>2. {b \in 1 .. (m + 1) - 1 : InUse(page, b, m + 1)} = {a}
    BY <1>4, <2>1 DEF OnlyUse
  <2>3. Zeroings(page, m + 1) = {<<f, S(f)>> : f \in Frag}
    BY <2>2 DEF Zeroings
  <2>4. printed' = {[page |-> page, frag |-> f, zeros |-> d[f]] : f \in Long}
    BY <1>6 DEF MmPageFree, Lines, Repeated
  <2>5. DOMAIN d \subseteq Frag
    <3>1. d \in UNION {[F -> Seq(Zeroing)] : F \in SUBSET Frag}
      BY <1>6 DEF Dicts
    <3> QED BY <3>1
  <2>6. ASSUME NEW f \in DOMAIN d
        PROVE  {d[f][k].time : k \in DOMAIN d[f]} = S(f) /\ Len(d[f]) = Cardinality(S(f))
    <3>1. ZerosOf(page, f) = d[f]
      BY DEF ZerosOf
    <3>2. Tracks(page, f, a, m)
      BY <2>1, <2>5
    <3> QED BY <3>1, <3>2 DEF Tracks, Times, Remembered
  <2>7. ASSUME NEW f \in Frag \ DOMAIN d
        PROVE  ~ (Cardinality(S(f)) > 1)
    <3>1. ZerosOf(page, f) = << >>
      BY DEF ZerosOf
    <3>2. Tracks(page, f, a, m)
      BY <2>1
    <3> QED BY <3>1, <3>2 DEF Tracks
  <2> HIDE DEF S, d
  <2>8. Reported(printed') = {<<f, S(f)>> : f \in Long}
    <3> DEFINE L(f) == [page |-> page, frag |-> f, zeros |-> d[f]]
               R(l) == <<l.frag, {l.zeros[k].time : k \in DOMAIN l.zeros}>>
    <3>1. \A f \in Long : R(L(f)) = <<f, S(f)>>
      <4> SUFFICES ASSUME NEW f \in Long PROVE R(L(f)) = <<f, S(f)>>
        OBVIOUS
      <4>1. L(f).frag = f /\ L(f).zeros = d[f]
        OBVIOUS
      <4>2. {d[f][k].time : k \in DOMAIN d[f]} = S(f)
        BY <2>6
      <4> HIDE DEF L
      <4> QED BY <4>1, <4>2
    <3>2. printed' = {L(f) : f \in Long}
      BY <2>4
    <3>3. Reported(printed') = {R(l) : l \in printed'}
      BY DEF Reported
    <3> HIDE DEF L, R, Long
    <3> QED BY <3>1, <3>2, <3>3
  <2>9. {z \in {<<f, S(f)>> : f \in Frag} : Cardinality(z[2]) > 1} = {<<f, S(f)>> : f \in Long}
    <3>1. \A f \in Frag : Cardinality(S(f)) > 1 <=> f \in Long
      BY <2>5, <2>6, <2>7
    <3>2. \A f \in Frag : <<f, S(f)>>[2] = S(f)
      OBVIOUS
    <3>3. Long \subseteq Frag
      BY <2>5
    <3> HIDE DEF Long
    <3> QED BY <3>1, <3>2, <3>3
  <2> QED BY <1>2, <2>3, <2>8, <2>9
<1> QED
  BY <1>5, <1>6

(* Any other event reports nothing of a page.                              *)
LEMMA OtherReports ==
  ASSUME Dicts, NEW e, Appended(e), e.name # "mm_page_free"
  PROVE  AllReports'
BY AppendedTrace DEF AllReports, Is
-----------------------------------------------------------------------------
(* The inductive invariant.                                               *)
IInv == Dicts /\ Counted /\ AllDated /\ Uses /\ AllReports

(* The invariant holds of empty dicts and an empty trace (lines 24-25).    *)
LEMMA InvInit == Init => IInv
<1> SUFFICES ASSUME Init PROVE IInv
  OBVIOUS
<1> USE DEF Init
<1>1. Dicts
  <2>1. \A T : EmptyDict \in [{} -> T] /\ DOMAIN EmptyDict = {}
    BY DEF EmptyDict
  <2>2. trace \in Seq(EventSet)
    OBVIOUS
  <2> QED BY <2>1, <2>2 DEF Dicts
<1>2. DOMAIN active_pages = {} /\ DOMAIN frag_ref_count = {} /\ Len(trace) = 0
  BY DEF EmptyDict
<1>3. \A f \in Frag : RefsBefore(f, 0 + 1) = {}
  BY DEF RefsBefore
<1>4. Counted
  BY <1>2, <1>3 DEF Counted, CountNow
<1>5. AllDated /\ Uses
  BY <1>2 DEF AllDated, Dated, Uses, UsesTrue
<1>6. AllReports
  BY <1>2 DEF AllReports
<1> QED
  BY <1>1, <1>4, <1>5, <1>6 DEF IInv

(* What each action is, seen from outside.                                 *)
Handled(e) == Appended(e) /\ CountsAfter(e) /\ PagesAfter(e) /\ PageDict'

(* The parts of the invariant follow from what the action does, seen from  *)
(* outside.                                                                *)
LEMMA HandledStep ==
  ASSUME IInv, ~ failed, NEW e, Handled(e), AllReports'
  PROVE  IInv'
<1>1. Counted'
  BY CountedStep DEF IInv, Handled
<1>2. AllDated'
  BY DatedStep DEF IInv, Handled
<1>3. Uses'
  BY UsesStep DEF IInv, Handled
<1>4. Dicts'
  <2>1. trace' \in Seq(EventSet)
    BY AppendedTrace DEF IInv, Handled
  <2>2. (DOMAIN frag_ref_count \subseteq Frag /\ frag_ref_count \in [DOMAIN frag_ref_count -> Int])'
    BY CountsAfterType DEF IInv, Handled
  <2> QED BY <2>1, <2>2 DEF Dicts, Handled, PageDict
<1> QED
  BY <1>1, <1>2, <1>3, <1>4 DEF IInv

(* Every branch of the loop keeps the invariant.                           *)
LEMMA InvStep == IInv /\ [Next]_vars => IInv'
<1> SUFFICES ASSUME IInv, [Next]_vars PROVE IInv'
  OBVIOUS
<1>0. Dicts /\ Uses
  BY DEF IInv
<1>1. ASSUME NEW page \in Page, MmPageAlloc(page) PROVE IInv'
  <2> DEFINE e == Event("mm_page_alloc", page, NoFrag)
  <2>1. ~ failed /\ Appended(e) /\ e.name = "mm_page_alloc"
    BY <1>1 DEF MmPageAlloc, Take, Appended, Event, EventSet
  <2>2. CountsAfter(e)
    BY <1>1, <2>1 DEF MmPageAlloc, CountsAfter
  <2>3. PagesAfter(e) /\ PageDict'
    BY <1>0, <1>1, <2>1, AllocPages
  <2>4. AllReports'
    BY <1>0, <2>1, OtherReports
  <2> HIDE DEF e
  <2> QED BY <2>1, <2>2, <2>3, <2>4, HandledStep DEF Handled
<1>2. ASSUME NEW page \in Page, MmPageFree(page) PROVE IInv'
  <2> DEFINE e == Event("mm_page_free", page, NoFrag)
  <2>1. ~ failed /\ Appended(e) /\ e.name = "mm_page_free"
    BY <1>2 DEF MmPageFree, Take, Appended, Event, EventSet
  <2>2. CountsAfter(e)
    BY <1>2, <2>1 DEF MmPageFree, CountsAfter
  <2>3. PagesAfter(e) /\ PageDict'
    BY <1>0, <1>2, <2>1, FreePages
  <2>4. AllReports'
    BY <1>0, <1>2, <2>1, ReportsStep
  <2> HIDE DEF e
  <2> QED BY <2>1, <2>2, <2>3, <2>4, HandledStep DEF Handled
<1>3. ASSUME NEW page \in Page, NEW frag \in Frag, SkbFragZeroing(page, frag) PROVE IInv'
  <2> DEFINE e == Event("skb_frag_zeroing", page, frag)
  <2>1. ~ failed /\ Appended(e) /\ e.name = "skb_frag_zeroing"
    BY <1>3 DEF SkbFragZeroing, Take, Appended, Event, EventSet
  <2>2. CountsAfter(e)
    BY <1>3, <2>1 DEF SkbFragZeroing, CountsAfter
  <2>3. PagesAfter(e) /\ PageDict'
    BY <1>0, <1>3, <2>1, ZeroingPages
  <2>4. AllReports'
    BY <1>0, <2>1, OtherReports
  <2> HIDE DEF e
  <2> QED BY <2>1, <2>2, <2>3, <2>4, HandledStep DEF Handled
<1>4. ASSUME NEW frag \in Frag, SkbFragRef(frag) PROVE IInv'
  <2> DEFINE e == Event("skb_frag_ref", NoPage, frag)
  <2>1. ~ failed /\ Appended(e) /\ e.name = "skb_frag_ref" /\ e.frag = frag
    BY <1>4 DEF SkbFragRef, Take, Appended, Event, EventSet
  <2> HIDE DEF e
  <2>2. CountsAfter(e)
    BY <1>4, <2>1 DEF SkbFragRef, CountsAfter
  <2>3. PagesAfter(e) /\ PageDict'
    BY <1>0, <1>4, <2>1, OtherPages DEF SkbFragRef
  <2>4. AllReports'
    BY <1>0, <2>1, OtherReports
  <2> QED BY <2>1, <2>2, <2>3, <2>4, HandledStep DEF Handled
<1>5. ASSUME NEW frag \in Frag, SkbFragUnref(frag) PROVE IInv'
  <2> DEFINE e == Event("skb_frag_unref", NoPage, frag)
  <2>1. ~ failed /\ Appended(e) /\ e.name = "skb_frag_unref" /\ e.frag = frag
    BY <1>5 DEF SkbFragUnref, Take, Appended, Event, EventSet
  <2> HIDE DEF e
  <2>2. CountsAfter(e)
    BY <1>5, <2>1 DEF SkbFragUnref, CountsAfter
  <2>3. PagesAfter(e) /\ PageDict'
    BY <1>0, <1>5, <2>1, OtherPages DEF SkbFragUnref
  <2>4. AllReports'
    BY <1>0, <2>1, OtherReports
  <2> QED BY <2>1, <2>2, <2>3, <2>4, HandledStep DEF Handled
<1>6. CASE UNCHANGED vars
  <2> USE <1>6 DEF vars
  <2>1. Dicts'
    BY <1>0 DEF Dicts
  <2>2. \A f, k : RefsBefore(f, k)' = RefsBefore(f, k)
    BY DEF RefsBefore, Is
  <2>3. \A f, k : UnrefsBefore(f, k)' = UnrefsBefore(f, k)
    BY <2>2 DEF UnrefsBefore, Is
  <2>4. Counted'
    BY <2>2, <2>3 DEF IInv, Counted, CountNow
  <2>5. \A q, g : ZerosOf(q, g)' = ZerosOf(q, g) /\ Remembered(q, g)' = Remembered(q, g)
    BY DEF ZerosOf, Remembered
  <2>6. AllDated'
    BY <2>2, <2>3, <2>5, SMTT(30) DEF IInv, AllDated, Dated, TrueCount
  <2>7. \A q, f, b, k :
          (InUse(q, b, k)' <=> InUse(q, b, k)) /\ ZeroedIn(q, f, b, k)' = ZeroedIn(q, f, b, k)
    BY DEF InUse, ZeroedIn, Is
  <2>8. Uses'
    <3>1. \A q, a, r : OnlyUse(q, a, r)' <=> OnlyUse(q, a, r)
      BY <2>7 DEF OnlyUse
    <3>2. \A q, g, a, r : Tracks(q, g, a, r)' <=> Tracks(q, g, a, r)
      BY <2>5, <2>7 DEF Tracks, Times
    <3>3. \A r : UsesTrue(r) => UsesTrue(r)'
      BY <2>7, <3>1, <3>2 DEF UsesTrue
    <3> QED BY <3>3 DEF IInv, Uses
  <2>9. AllReports'
    <3>1. \A page, r : Zeroings(page, r)' = Zeroings(page, r)
      BY <2>7 DEF Zeroings
    <3>2. \A page, r : ReportsTrue(r, page) => ReportsTrue(r, page)'
      BY <3>1 DEF ReportsTrue
    <3> QED BY <3>2 DEF IInv, AllReports, Is
  <2> QED BY <2>1, <2>4, <2>6, <2>8, <2>9 DEF IInv
<1> QED
  BY <1>1, <1>2, <1>3, <1>4, <1>5, <1>6 DEF Next

(* For any pages and fragments and traces of any length: what is printed   *)
(* when a page is freed are exactly the double zeroings of that use of it. *)
THEOREM ReportsExact == Spec => []ReportsDoubleZeroing
<1>1. IInv => ReportsDoubleZeroing
  BY ReportsImplied DEF IInv
<1> QED
  BY InvInit, InvStep, <1>1, PTL DEF Spec

(* For traces of any length: the reference count stored with a zeroing is  *)
(* what the trace up to it implies, also when the address is used again.   *)
THEOREM CountsExact == Spec => []CountsTrue
<1>1. IInv => CountsTrue
  BY DatedImpliesCounts DEF IInv
<1> QED
  BY InvInit, InvStep, <1>1, PTL DEF Spec
-----------------------------------------------------------------------------
(* The datagram checker.                                                   *)

(* The bytes counted as wrong form a finite set, every zeroed byte among   *)
(* them; when the first byte is intact there are no others.                *)
LEMMA WrongBytes ==
  ASSUME UdpTypeOK, NEW d \in Datagram
  PROVE  /\ IsFiniteSet(Wrong(d))
         /\ Cardinality(Wrong(d)) \in Nat
         /\ Cardinality(d.zeroed \cap (0 .. n - 1)) \in Nat
         /\ Cardinality(d.zeroed \cap (0 .. n - 1)) <= Cardinality(Wrong(d))
         /\ 0 \notin d.zeroed => Wrong(d) = d.zeroed \cap (0 .. n - 1)
<1> DEFINE seen == d.zeroed \cap (0 .. n - 1)
<1>1. n \in Nat
  BY SizeAssumption DEF n
<1>2. IsFiniteSet(0 .. n - 1)
  BY <1>1, FS_Interval
<1>3. Start(d) \in 0 .. 3
  BY DEF Start, UdpTypeOK
<1>4. \A k \in 0 .. n - 1 : (Start(d) + k) % 4 \in 0 .. 3
  BY <1>1, <1>3
<1>5. seen \subseteq Wrong(d)
  BY <1>4 DEF Wrong, Byte, Zero
<1>6. ASSUME 0 \notin d.zeroed PROVE Wrong(d) \subseteq seen
  <2>1. Start(d) = d.first
    <3>1. Byte(d, 0) = d.first
      BY <1>6 DEF Byte, Datagram
    <3> QED
      BY <3>1 DEF Start, Datagram
  <2> QED
    BY <2>1 DEF Wrong, Byte
<1>7. IsFiniteSet(Wrong(d)) /\ IsFiniteSet(seen)
  BY <1>2, FS_Subset, Zenon DEF Wrong
<1>8. Cardinality(seen) <= Cardinality(Wrong(d))
  BY <1>5, <1>7, FS_Subset
<1> QED
  BY <1>5, <1>6, <1>7, <1>8, FS_CardinalityType

(* The positions in the pattern stay within it and the counters natural.   *)
THEOREM UdpTypeCorrect == UdpSpec => []UdpTypeOK
<1>1. UdpInit => UdpTypeOK
  BY PacketsAssumption DEF UdpInit, UdpTypeOK
<1>2. UdpTypeOK /\ [UdpNext]_udpvars => UdpTypeOK'
  <2> SUFFICES ASSUME UdpTypeOK, [UdpNext]_udpvars PROVE UdpTypeOK'
    OBVIOUS
  <2>1. CASE SendPacket
    <3>1. msg_idx' \in 0 .. 3
      BY <2>1, SizeAssumption DEF SendPacket, UdpTypeOK
    <3>2. i <= packets => [packet |-> i, first |-> msg_idx, zeroed |-> {}] \in Datagram
      BY PacketsAssumption DEF UdpTypeOK, Datagram
    <3>3. net' \subseteq Datagram
      <4>1. \/ net' = net \cup {[packet |-> i, first |-> msg_idx, zeroed |-> {}]}
            \/ net' = net
        BY <2>1, Zenon DEF SendPacket
      <4>2. net \subseteq Datagram /\ [packet |-> i, first |-> msg_idx, zeroed |-> {}] \in Datagram
        BY <2>1, <3>2, Zenon DEF SendPacket, UdpTypeOK
      <4> QED
        BY <4>1, <4>2, Zenon
    <3>4. i' \in 1 .. packets + 1
      BY <2>1, PacketsAssumption DEF SendPacket, UdpTypeOK
    <3> QED
      BY <2>1, <3>1, <3>3, <3>4 DEF SendPacket, UdpTypeOK, svars
  <2>2. CASE Close
    BY <2>2 DEF Close, UdpTypeOK, svars
  <2>3. CASE RecvError
    BY <2>3 DEF RecvError, UdpTypeOK, cvars
  <2>4. ASSUME NEW d \in net, Lose(d) PROVE UdpTypeOK'
    BY <2>4 DEF Lose, UdpTypeOK, cvars, svars
  <2>5. ASSUME NEW d \in net, NEW k \in 0 .. ClientBufSize - 1, ZeroByte(d, k)
        PROVE  UdpTypeOK'
    <3>1. [d EXCEPT !.zeroed = @ \cup {k}] \in Datagram
      BY DEF UdpTypeOK, Datagram
    <3> QED
      BY <2>5, <3>1, Zenon DEF ZeroByte, UdpTypeOK, cvars, svars
  <2>6. ASSUME NEW d \in net, Receive(d) PROVE UdpTypeOK'
    <3>1. d \in Datagram
      BY DEF UdpTypeOK
    <3>2. n \in Nat /\ Start(d) \in 0 .. 3
      BY SizeAssumption DEF n, Start, UdpTypeOK
    <3>3. msg_index' \in 0 .. 3
      BY <2>6, <3>2 DEF Receive, NextIndex
    <3>4. errors' \in Nat /\ zeroes' \in Nat
      BY <2>6, <3>1, WrongBytes DEF Receive, UdpTypeOK
    <3>5. received' \in Nat /\ blind' \in Nat /\ net' \subseteq Datagram
      BY <2>6 DEF Receive, UdpTypeOK
    <3> QED
      BY <2>6, <3>3, <3>4, <3>5 DEF Receive, UdpTypeOK, cvars
  <2>7. CASE UNCHANGED udpvars
    BY <2>7 DEF udpvars, cvars, svars, UdpTypeOK
  <2> QED
    BY <2>1, <2>2, <2>3, <2>4, <2>5, <2>6, <2>7 DEF UdpNext
<1> QED
  BY <1>1, <1>2, PTL DEF UdpSpec

(* What a step does to the counters.                                       *)
LEMMA Counters ==
  ASSUME UdpTypeOK, [UdpNext]_udpvars
  PROVE  \/ UNCHANGED <<errors, zeroes, blind>>
         \/ \E d \in net : Receive(d)
BY DEF UdpNext, udpvars, svars, SendPacket, Close, RecvError, Lose, ZeroByte

(* For every buffer size and every behaviour of the network, no zeroed     *)
(* byte the server looks at goes uncounted.                                *)
THEOREM UdpUndercounts == UdpSpec => []NeverUndercounts
<1>1. UdpInit => NeverUndercounts
  BY DEF UdpInit, NeverUndercounts
<1>2. UdpTypeOK /\ NeverUndercounts /\ [UdpNext]_udpvars => NeverUndercounts'
  <2> SUFFICES ASSUME UdpTypeOK, NeverUndercounts, [UdpNext]_udpvars PROVE NeverUndercounts'
    OBVIOUS
  <2>1. ASSUME NEW d \in net, Receive(d) PROVE NeverUndercounts'
    <3>1. d \in Datagram
      BY DEF UdpTypeOK
    <3> QED
      BY <2>1, <3>1, WrongBytes DEF Receive, NeverUndercounts, UdpTypeOK
  <2> QED
    BY <2>1, Counters DEF NeverUndercounts
<1> QED
  BY <1>1, <1>2, UdpTypeCorrect, PTL DEF UdpSpec

(* For every buffer size and every behaviour of the network, only zeroed   *)
(* bytes are counted while first bytes arrive intact.                      *)
THEOREM UdpExact == UdpSpec => []ExactAfterResync
<1>1. UdpInit => ExactAfterResync
  BY DEF UdpInit, ExactAfterResync
<1>2. UdpTypeOK /\ ExactAfterResync /\ [UdpNext]_udpvars => ExactAfterResync'
  <2> SUFFICES ASSUME UdpTypeOK, ExactAfterResync, [UdpNext]_udpvars PROVE ExactAfterResync'
    OBVIOUS
  <2>1. ASSUME NEW d \in net, Receive(d) PROVE ExactAfterResync'
    <3>1. d \in Datagram
      BY DEF UdpTypeOK
    <3>2. CASE 0 \in d.zeroed
      BY <2>1, <3>2 DEF Receive, ExactAfterResync, UdpTypeOK
    <3>3. CASE 0 \notin d.zeroed
      <4>1. Wrong(d) = d.zeroed \cap (0 .. n - 1)
        BY <3>1, <3>3, WrongBytes, Zenon
      <4> QED
        BY <2>1, <3>3, <4>1 DEF Receive, ExactAfterResync
    <3> QED
      BY <3>2, <3>3
  <2> QED
    BY <2>1, Counters DEF ExactAfterResync
<1> QED
  BY <1>1, <1>2, UdpTypeCorrect, PTL DEF UdpSpec

(* Client and server are at the start of the pattern at every datagram.    *)
Aligned ==
  /\ msg_idx = 0 /\ msg_index = 0
  /\ \A d \in net : d.first = 0
  /\ errors = zeroes

(* With buffers of a multiple of four bytes, such as the 64000 and 1024 of *)
(* the two programs, the count is exact even when first bytes are zeroed.  *)
THEOREM UdpAlignedExact ==
  ASSUME ClientBufSize % 4 = 0, ServerBufSize % 4 = 0
  PROVE  UdpSpec => [](errors = zeroes)
<1>1. UdpInit => Aligned
  BY DEF UdpInit, Aligned
<1>2. UdpTypeOK /\ Aligned /\ [UdpNext]_udpvars => Aligned'
  <2> SUFFICES ASSUME UdpTypeOK, Aligned, [UdpNext]_udpvars PROVE Aligned'
    OBVIOUS
  <2>1. CASE SendPacket
    <3>1. msg_idx' = 0
      BY <2>1, SizeAssumption DEF SendPacket, Aligned
    <3> QED
      BY <2>1, <3>1 DEF SendPacket, Aligned, svars
  <2>2. ASSUME NEW d \in net, Receive(d) PROVE Aligned'
    <3>1. d \in Datagram /\ d.first = 0
      BY DEF UdpTypeOK, Aligned
    <3>2. n \in Nat /\ n % 4 = 0
      BY SizeAssumption DEF n
    <3>3. Start(d) = 0
      BY <3>1 DEF Start, Byte, Zero, Aligned
    <3>4. msg_index' = 0
      BY <2>2, <3>2, <3>3 DEF Receive, NextIndex
    <3>5. Wrong(d) = d.zeroed \cap (0 .. n - 1)
      BY <3>1, <3>2, <3>3 DEF Wrong, Byte, Zero
    <3> QED
      BY <2>2, <3>4, <3>5 DEF Receive, Aligned, cvars
  <2>3. ASSUME NEW d \in net, NEW k \in 0 .. ClientBufSize - 1, ZeroByte(d, k)
        PROVE  Aligned'
    <3>1. [d EXCEPT !.zeroed = @ \cup {k}].first = 0
      BY DEF UdpTypeOK, Datagram, Aligned
    <3> QED
      BY <2>3, <3>1, Zenon DEF ZeroByte, Aligned, cvars, svars
  <2>4. ASSUME NEW d \in net, Lose(d) PROVE Aligned'
    BY <2>4 DEF Lose, Aligned, cvars, svars
  <2>5. CASE Close \/ RecvError \/ UNCHANGED udpvars
    BY <2>5 DEF Close, RecvError, udpvars, cvars, svars, Aligned
  <2> QED
    BY <2>1, <2>2, <2>3, <2>4, <2>5 DEF UdpNext
<1>3. Aligned => errors = zeroes
  BY DEF Aligned
<1> QED
  BY <1>1, <1>2, <1>3, UdpTypeCorrect, PTL DEF UdpSpec
=============================================================================
