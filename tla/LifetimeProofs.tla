--------------------------- MODULE LifetimeProofs ---------------------------
(***************************************************************************)
(* The lifetimes behind the analyzer's dicts: each entry stands for the    *)
(* lifetime its memory is in (LifeOf), for any kernel that is metered.     *)
(* Here this is proved of the events up to the release of a head, which    *)
(* allocate memory, write to it, or only leave a name or a call site; the  *)
(* rest, and the refinement of the meter, are in LifetimeMeterProofs.      *)
(***************************************************************************)
EXTENDS TraceAnalysisProofs
(* A leaf that cites no prover is for Zenon.                               *)
USE Zenon

(* The lifetime that an entry stands for.                                  *)
LifeOf(e, page_free) ==
  [phase |-> IF e.free_time # None THEN "freed"
             ELSE IF e.data_write_time # None THEN "written" ELSE "allocated",
   alloc |-> e.alloc_time, write |-> e.data_write_time, free |-> e.free_time,
   page_free |-> page_free, alloc_func |-> e.alloc_func, free_func |-> e.free_func]

(* The lifetime of a head from kmalloc, by the dicts AH and FH.            *)
HeadLife(l, h, AH, FH) ==
  /\ h \in DOMAIN AH => l = LifeOf(AH[h], None)
  /\ h \in DOMAIN FH => l = LifeOf(FH[h], None)
  /\ h \notin DOMAIN AH \cup DOMAIN FH => l = M!Unknown

(* The lifetime of the fragment f of a page with these entries.            *)
LifeIn(l, f, frags, page_free) ==
  /\ \A k \in DOMAIN frags : frags[k].ptr = f => l = LifeOf(frags[k], page_free)
  /\ ~ HasFrag(frags, f) => l = M!Unknown

(* The lifetime of a fragment of page p, by the dicts AP and FP.           *)
FragLife(l, f, p, AP, FP) ==
  /\ p \in DOMAIN AP => LifeIn(l, f, AP[p].frags, None)
  /\ p \in DOMAIN FP => LifeIn(l, f, FP[p].frags, FP[p].free_time)
  /\ p \notin DOMAIN AP \cup DOMAIN FP => l = M!Unknown

(* life is a function on all memory; the lifetimes are those the tables    *)
(* hold.                                                                   *)
IsLife == life = [p \in Ptr |-> life[p]]
HeadLives == \A h \in Kmem : HeadLife(life[h], h, active_skb_ptrs, freed_skb_ptrs)
FragLives == \A f \in Frag : FragLife(life[f], f, PageOf[f], active_pages, freed_pages)

(* Memory of a head that has an entry has been allocated when it is        *)
(* reserved and written when the sk_buff has it, and not been freed.       *)
Phases ==
  /\ \A p \in Reserved : life[p].phase \in {"unknown", "allocated"}
  /\ \A p \in InSkb : life[p].phase \in {"unknown", "written"}

(* The entry of a head has an sk_buff, without clones the one that has the *)
(* head.                                                                   *)
SkbsKnown ==
  \A h \in DOMAIN active_skb_ptrs :
    /\ h \in InSkb => active_skb_ptrs[h].skb_ptr # None
    /\ active_skb_ptrs[h].skb_ptr # None /\ "clones" \notin kernel.features =>
         head_of[active_skb_ptrs[h].skb_ptr] = h

(* The call site of a release is recorded, when the head has a lifetime.   *)
SitesKnown ==
  \A r \in Releases :
    \/ life[r.ptr] = M!Unknown
    \/ r.skb \in DOMAIN consume_skb_locations /\ consume_skb_locations[r.skb] = r.loc

(* The lifetimes the tables hold are the true ones.                        *)
Lives == IsLife /\ HeadLives /\ FragLives /\ Phases /\ SkbsKnown /\ SitesKnown

(* The inductive invariant behind the refinement of the meter.             *)
MetersInv == failure = "none" /\ Metered => Lives

(* A step of the meter, but for the time.                                  *)
Moves ==
  \/ \E ptr \in Ptr, func \in Func : M!Alloc(ptr, func) \/ M!Attribute(ptr, func) \/ M!Free(ptr, func)
  \/ \E ptr \in Ptr : M!Write(ptr)
  \/ \E S \in SUBSET Ptr : M!PageFree(S) \/ M!Reuse(S)

(* What a metered kernel does not do, and which failure remains.           *)
LEMMA MeteredFeatures ==
  ASSUME Metered
  PROVE  /\ kernel.features \cap {"untraced_free", "untraced_kmalloc", "stolen_heads",
                                  "recycled_pages"} = {}
         /\ "with_frags" \in kernel.features => "clones" \notin kernel.features
         /\ Plain
         /\ \A f : Explained(f) => f = "KeyError_167"
<1>1. kernel.features \cap {"untraced_free", "untraced_kmalloc", "stolen_heads",
                            "recycled_pages"} = {}
  BY DEF Metered
<1> QED
  BY <1>1, SMTT(30) DEF Metered, Explained, Causes, Plain

(* A lifetime by its fields, and what the meter does to them.              *)
Life(phase, alloc, write, free, page_free, alloc_func, free_func) ==
  [phase |-> phase, alloc |-> alloc, write |-> write, free |-> free, page_free |-> page_free,
   alloc_func |-> alloc_func, free_func |-> free_func]

(* The meter's Allocated, by fields.                                       *)
LEMMA LifeAllocated ==
  ASSUME NEW p, NEW a, NEW w, NEW f, NEW g, NEW af, NEW ff, NEW t, NEW func
  PROVE  M!Allocated(Life(p, a, w, f, g, af, ff), t, func) = Life("allocated", t, w, f, g, func, ff)
<1> DEFINE l == Life(p, a, w, f, g, af, ff)
<1>1. M!Allocated(l, t, func) =
        [[[l EXCEPT !.phase = "allocated"] EXCEPT !.alloc = t] EXCEPT !.alloc_func = func]
  BY DEF M!Allocated
<1>2. [l EXCEPT !.phase = "allocated"] = Life("allocated", a, w, f, g, af, ff)
  BY SMTT(30) DEF Life
<1>3. [Life("allocated", a, w, f, g, af, ff) EXCEPT !.alloc = t] =
        Life("allocated", t, w, f, g, af, ff)
  BY SMTT(30) DEF Life
<1>4. [Life("allocated", t, w, f, g, af, ff) EXCEPT !.alloc_func = func] =
        Life("allocated", t, w, f, g, func, ff)
  BY SMTT(30) DEF Life
<1> QED
  BY <1>1, <1>2, <1>3, <1>4

(* The meter's Written, by fields.                                         *)
LEMMA LifeWritten ==
  ASSUME NEW p, NEW a, NEW w, NEW f, NEW g, NEW af, NEW ff, NEW t
  PROVE  M!Written(Life(p, a, w, f, g, af, ff), t) = Life("written", a, t, f, g, af, ff)
<1> DEFINE l == Life(p, a, w, f, g, af, ff)
<1>1. M!Written(l, t) = [[l EXCEPT !.phase = "written"] EXCEPT !.write = t]
  BY DEF M!Written
<1>2. [l EXCEPT !.phase = "written"] = Life("written", a, w, f, g, af, ff)
  BY SMTT(30) DEF Life
<1>3. [Life("written", a, w, f, g, af, ff) EXCEPT !.write = t] = Life("written", a, t, f, g, af, ff)
  BY SMTT(30) DEF Life
<1> QED
  BY <1>1, <1>2, <1>3

(* The meter's Freed, by fields.                                           *)
LEMMA LifeFreed ==
  ASSUME NEW p, NEW a, NEW w, NEW f, NEW g, NEW af, NEW ff, NEW t, NEW func
  PROVE  M!Freed(Life(p, a, w, f, g, af, ff), t, func) = Life("freed", a, w, t, g, af, func)
<1> DEFINE l == Life(p, a, w, f, g, af, ff)
<1>1. M!Freed(l, t, func) =
        [[[l EXCEPT !.phase = "freed"] EXCEPT !.free = t] EXCEPT !.free_func = func]
  BY DEF M!Freed
<1>2. [l EXCEPT !.phase = "freed"] = Life("freed", a, w, f, g, af, ff)
  BY SMTT(30) DEF Life
<1>3. [Life("freed", a, w, f, g, af, ff) EXCEPT !.free = t] = Life("freed", a, w, t, g, af, ff)
  BY SMTT(30) DEF Life
<1>4. [Life("freed", a, w, t, g, af, ff) EXCEPT !.free_func = func] =
        Life("freed", a, w, t, g, af, func)
  BY SMTT(30) DEF Life
<1> QED
  BY <1>1, <1>2, <1>3, <1>4

(* The meter's Attribute, by fields.                                       *)
LEMMA LifeAttributed ==
  ASSUME NEW p, NEW a, NEW w, NEW f, NEW g, NEW af, NEW ff, NEW func
  PROVE  [Life(p, a, w, f, g, af, ff) EXCEPT !.alloc_func = func] = Life(p, a, w, f, g, func, ff)
BY SMTT(30) DEF Life

(* What the operations on entries do to the lifetimes they stand for.      *)
LEMMA LifeOfNew ==
  ASSUME NEW t, NEW ptr, NEW loc
  PROVE  LifeOf(A!NewEntry(t, ptr, loc), None) = M!Allocated(M!Unknown, t, loc)
<1>1. M!Unknown = Life("unknown", None, None, None, None, None, None)
  BY DEF M!Unknown, Life
<1>2. LifeOf(A!NewEntry(t, ptr, loc), None) = Life("allocated", t, None, None, None, loc, None)
  BY DEF LifeOf, A!NewEntry, Life
<1> QED
  BY <1>1, <1>2, LifeAllocated, SMTT(30)

(* finalize_skb_around continues the lifetime as the meter does.           *)
LEMMA LifeOfWritten ==
  ASSUME NEW e \in A!Entry, NEW t \in Nat, NEW skb \in Skb, LifeOf(e, None).phase = "allocated"
  PROVE  LifeOf(WroteTo(e, t, skb), None) = M!Written(LifeOf(e, None), t)
<1>1. e.free_time = None /\ e.data_write_time = None /\ t # None
  BY NoneIsUnset DEF LifeOf
<1>2. LifeOf(e, None) = Life("allocated", e.alloc_time, None, None, None, e.alloc_func, e.free_func)
  BY <1>1 DEF LifeOf, Life
<1>3. /\ WroteTo(e, t, skb).free_time = None /\ WroteTo(e, t, skb).data_write_time = t
      /\ WroteTo(e, t, skb).alloc_time = e.alloc_time
      /\ WroteTo(e, t, skb).alloc_func = e.alloc_func /\ WroteTo(e, t, skb).free_func = e.free_func
  BY <1>1 DEF WroteTo, A!Entry
<1>4. LifeOf(WroteTo(e, t, skb), None) =
        Life("written", e.alloc_time, t, None, None, e.alloc_func, e.free_func)
  BY <1>1, <1>3 DEF LifeOf, Life
<1> QED
  BY <1>2, <1>4, LifeWritten, SMTT(30)

(* The events of skb_free_head continue it as the meter does.              *)
LEMMA LifeOfFreed ==
  ASSUME NEW e \in A!Entry, NEW t \in Nat, NEW func
  PROVE  LifeOf(FreedAs(e, t, func), None) = M!Freed(LifeOf(e, None), t, func)
<1> DEFINE phase == LifeOf(e, None).phase
<1>1. t # None
  BY NoneIsUnset
<1>2. LifeOf(e, None) =
        Life(phase, e.alloc_time, e.data_write_time, e.free_time, None, e.alloc_func, e.free_func)
  BY DEF LifeOf, Life
<1>3. /\ FreedAs(e, t, func).free_time = t /\ FreedAs(e, t, func).data_write_time = e.data_write_time
      /\ FreedAs(e, t, func).alloc_time = e.alloc_time
      /\ FreedAs(e, t, func).alloc_func = e.alloc_func /\ FreedAs(e, t, func).free_func = func
  BY DEF FreedAs, A!Entry
<1>4. LifeOf(FreedAs(e, t, func), None) =
        Life("freed", e.alloc_time, e.data_write_time, t, None, e.alloc_func, func)
  BY <1>1, <1>3 DEF LifeOf, Life
<1> QED
  BY <1>2, <1>4, LifeFreed, SMTT(30)

(* alloc_skb_with_frags continues it as the meter does.                    *)
LEMMA LifeOfAttributed ==
  ASSUME NEW e \in A!Entry, NEW loc
  PROVE  LifeOf([e EXCEPT !.alloc_func = loc], None) = [LifeOf(e, None) EXCEPT !.alloc_func = loc]
<1> DEFINE phase == LifeOf(e, None).phase
           n == [e EXCEPT !.alloc_func = loc]
<1>1. LifeOf(e, None) =
        Life(phase, e.alloc_time, e.data_write_time, e.free_time, None, e.alloc_func, e.free_func)
  BY DEF LifeOf, Life
<1>2. /\ n.free_time = e.free_time /\ n.data_write_time = e.data_write_time
      /\ n.alloc_time = e.alloc_time /\ n.alloc_func = loc /\ n.free_func = e.free_func
  BY DEF A!Entry
<1>3. LifeOf(n, None).phase = phase
  BY <1>2 DEF LifeOf
<1>4. LifeOf(n, None) =
        Life(phase, e.alloc_time, e.data_write_time, e.free_time, None, loc, e.free_func)
  BY <1>2, <1>3 DEF LifeOf, Life
<1> QED
  BY <1>1, <1>4, LifeAttributed, SMTT(30)

(* mm_page_free continues it as the meter does.                            *)
LEMMA LifeOfPageFreed ==
  ASSUME NEW e, NEW t
  PROVE  [LifeOf(e, None) EXCEPT !.page_free = t] = LifeOf(e, t)
BY SMTT(30) DEF LifeOf

(* The phase of a lifetime, by the entry's fields.                         *)
LEMMA LifePhases ==
  ASSUME NEW e, NEW pf
  PROVE  /\ LifeOf(e, pf) # M!Unknown /\ LifeOf(e, pf).phase # "unknown"
         /\ LifeOf(e, pf).page_free = pf /\ M!Unknown.phase = "unknown"
         /\ e.free_time # None <=> LifeOf(e, pf).phase = "freed"
         /\ e.free_time = None /\ e.data_write_time # None <=> LifeOf(e, pf).phase = "written"
<1>1. LifeOf(e, pf).phase # "unknown" /\ M!Unknown.phase = "unknown"
  BY DEF LifeOf, M!Unknown
<1>2. e.free_time # None <=> LifeOf(e, pf).phase = "freed"
  BY DEF LifeOf
<1>3. e.free_time = None /\ e.data_write_time # None <=> LifeOf(e, pf).phase = "written"
  BY DEF LifeOf
<1>4. LifeOf(e, pf).page_free = pf
  BY DEF LifeOf
<1> QED
  BY <1>1, <1>2, <1>3, <1>4

(* The row that is printed for an entry is the report of its lifetime.     *)
Shown(r) ==
  [ptr |-> r.ptr, lifetime |-> r.lifetime, use_time |-> r.use_time,
    free_time |-> r.free_time, page_free_time |-> r.page_free_time,
    none_page_free_time |-> r.none_page_free_time, real_use_time |-> r.real_use_time,
    alloc_func |-> r.alloc_func, free_func |-> r.free_func]

(* The columns of a row that the meter reports are the true durations and  *)
(* functions, computed from the same lifetime.                             *)
LEMMA RowShown ==
  ASSUME NEW e \in A!Entry, e.free_time # None, NEW t \in Nat, NEW pf \in Nat \cup {None},
         NEW type, NEW ptr, NEW page
  PROVE  Shown(A!Row(type, ptr, e, page, t, pf)) = M!Lifetime(ptr, LifeOf(e, pf), t)
<1>1. e.free_time \in Nat
  BY DEF A!Entry, A!Time
<1>2. pf # None => (t - e.free_time) - (t - pf) = pf - e.free_time
  BY <1>1, SMTT(30)
<1> QED
  BY <1>2 DEF Shown, A!Row, A!RealUseTime, M!Lifetime, LifeOf
-----------------------------------------------------------------------------
(* One lemma for each step of the meter.                                   *)

(* The meter does nothing.                                                 *)
LEMMA NoReport ==
  ASSUME IsLife, UNCHANGED life, DOMAIN rows' = {} PROVE Moves
<1>1. Report' = {}
  BY DEF Report
<1>2. M!Reuse({})
  BY <1>1 DEF M!Reuse, IsLife
<1> QED
  BY <1>2 DEF Moves

(* One lifetime goes on.                                                   *)
LEMMA LifeStep ==
  ASSUME IsLife, NEW ptr \in Ptr, NEW l, Becomes(ptr, l)
  PROVE  IsLife' /\ life'[ptr] = l /\ \A p \in Ptr \ {ptr} : life'[p] = life[p]
BY DEF IsLife, Becomes

(* Lifetimes end.                                                          *)
LEMMA LivesEnd ==
  ASSUME IsLife, NEW S \in SUBSET Ptr, AllUnknown(S)
  PROVE  /\ IsLife' /\ \A p \in Ptr \ S : life'[p] = life[p]
         /\ \A p \in S : life'[p] = IF life[p].phase = "freed" THEN M!Unknown ELSE life[p]
BY DEF IsLife, AllUnknown, Phase

(* No head from kmalloc is touched.                                        *)
LEMMA HeadLivesKept ==
  ASSUME HeadLives, UNCHANGED <<active_skb_ptrs, freed_skb_ptrs>>,
         \A h \in Kmem : life'[h] = life[h]
  PROVE  HeadLives'
BY DEF HeadLives

(* No fragment is touched.                                                 *)
LEMMA FragLivesKept ==
  ASSUME FragLives, UNCHANGED <<active_pages, freed_pages>>,
         \A f \in Frag : life'[f] = life[f]
  PROVE  FragLives'
BY DEF FragLives

(* No memory is taken.                                                     *)
LEMMA PhasesKept ==
  ASSUME Phases, Reserved' \subseteq Reserved, InSkb' \subseteq InSkb,
         \A p \in Reserved \cup InSkb : life'[p] = life[p] \/ life'[p] = M!Unknown
  PROVE  Phases'
BY SMTT(30) DEF Phases, M!Unknown

(* No sk_buff gets or loses a head.                                        *)
LEMMA SkbsKept ==
  ASSUME SkbsKnown, UNCHANGED <<active_skb_ptrs, kernel>>, InSkb' \subseteq InSkb,
         "clones" \notin kernel.features => UNCHANGED head_of
  PROVE  SkbsKnown'
BY DEF SkbsKnown

(* No release begins, and no lifetime of a head that is being released.    *)
LEMMA SitesKept ==
  ASSUME SitesKnown, Releases' \subseteq Releases, UNCHANGED consume_skb_locations,
         \A r \in Releases : \/ life'[r.ptr] = life[r.ptr] \/ life'[r.ptr] = M!Unknown
                             \/ life[r.ptr] # M!Unknown
  PROVE  SitesKnown'
BY DEF SitesKnown

(* Memory in use that has no entry has no lifetime.                        *)
LEMMA NoEntry ==
  ASSUME KernelInv, Good, Lives, Metered
  PROVE  /\ \A h \in Kmem \cap used : /\ h \notin DOMAIN freed_skb_ptrs
                                      /\ h \notin DOMAIN active_skb_ptrs => life[h] = M!Unknown
         /\ \A f \in Frag \cap used :
              /\ PageOf[f] \notin DOMAIN freed_pages
              /\ PageOf[f] \notin DOMAIN active_pages => life[f] = M!Unknown
<1>1. ASSUME NEW h \in Kmem \cap used
      PROVE  /\ h \notin DOMAIN freed_skb_ptrs
             /\ h \notin DOMAIN active_skb_ptrs => life[h] = M!Unknown
  BY MeteredFeatures DEF Good, HeadsInv, Lives, HeadLives, HeadLife
<1>2. ASSUME NEW f \in Frag \cap used
      PROVE  /\ PageOf[f] \notin DOMAIN freed_pages
             /\ PageOf[f] \notin DOMAIN active_pages => life[f] = M!Unknown
  <2>1. PageOf[f] \in page_used
    BY DEF KernelInv, MemoryConsistent
  <2>2. PageOf[f] \notin DOMAIN freed_pages
    BY <2>1 DEF Good, PagesInv
  <2> QED
    BY <2>2 DEF Lives, FragLives, FragLife
<1> QED
  BY <1>1, <1>2

(* kmalloc: the memory of a freed head is used again.                      *)
LEMMA KmallocMeters ==
  ASSUME KernelInv, Good, Lives, Metered, NEW t \in Nat, NEW ptr \in Kmem, ptr \notin used,
         A!Kmalloc(t, ptr), failure' = "none", AllUnknown({ptr}), UNCHANGED <<kernel, head_of>>,
         Reserved' = Reserved, InSkb' = InSkb, Releases' = Releases
  PROVE  Moves /\ Lives'
<1>0. ptr \in Ptr /\ ptr \notin Frag /\ ptr \notin Reserved \cup InSkb /\ ptr \notin DOMAIN active_skb_ptrs
  BY PtrAssumption, HeldMemory DEF Ptr, Good, HeadsInv
<1>1. /\ now' = t /\ UNCHANGED <<active_skb_ptrs, skb_order, active_pages, freed_pages,
                                 consume_skb_locations>>
      /\ Popped(freed_skb_ptrs, freed_skb_ptrs', ptr)
      /\ IF ptr \in DOMAIN freed_skb_ptrs
         THEN rows' = <<A!Row("kmalloc", ptr, freed_skb_ptrs[ptr], None, t, None)>>
         ELSE rows' = << >>
  BY <1>0, KmallocEffect DEF Good
<1>2. /\ IsLife' /\ \A p \in Ptr \ {ptr} : life'[p] = life[p]
      /\ life'[ptr] = IF life[ptr].phase = "freed" THEN M!Unknown ELSE life[ptr]
  BY <1>0, LivesEnd DEF Lives
<1>3. HeadLife(life[ptr], ptr, active_skb_ptrs, freed_skb_ptrs)
  BY DEF Lives, HeadLives
<1>4. ASSUME ptr \in DOMAIN freed_skb_ptrs
      PROVE  /\ freed_skb_ptrs[ptr] \in A!Entry /\ freed_skb_ptrs[ptr].free_time # None
             /\ life[ptr] = LifeOf(freed_skb_ptrs[ptr], None) /\ life[ptr].phase = "freed"
  <2>1. freed_skb_ptrs[ptr] \in A!Entry /\ freed_skb_ptrs[ptr].free_time # None
    BY <1>4 DEF Good, Tables, HeadsTyped, A!IsDict, FreedHead, A!Released
  <2>2. life[ptr] = LifeOf(freed_skb_ptrs[ptr], None)
    BY <1>3, <1>4 DEF HeadLife
  <2> QED
    BY <2>1, <2>2, LifePhases, SMTT(30)
<1>5. life'[ptr] = M!Unknown
  <2>1. CASE ptr \in DOMAIN freed_skb_ptrs
    BY <1>2, <1>4, <2>1
  <2>2. CASE ptr \notin DOMAIN freed_skb_ptrs
    <3>1. life[ptr] = M!Unknown
      BY <1>0, <1>3, <2>2 DEF HeadLife
    <3> QED
      BY <1>2, <3>1
  <2> QED
    BY <2>1, <2>2
<1>6. Moves
  <2>1. CASE ptr \in DOMAIN freed_skb_ptrs
    <3> DEFINE row == A!Row("kmalloc", ptr, freed_skb_ptrs[ptr], None, t, None)
               lifetime == M!Lifetime(ptr, life[ptr], now')
    <3>1. Shown(row) = lifetime
      <4>1. None \in Nat \cup {None}
        OBVIOUS
      <4>2. \A e \in A!Entry : e.free_time # None =>
              Shown(A!Row("kmalloc", ptr, e, None, t, None)) = M!Lifetime(ptr, LifeOf(e, None), t)
        <5>1. ASSUME NEW e \in A!Entry, e.free_time # None, NEW type, NEW page, NEW pf \in Nat \cup {None}
              PROVE  Shown(A!Row(type, ptr, e, page, t, pf)) = M!Lifetime(ptr, LifeOf(e, pf), t)
          BY <5>1, RowShown, SMTT(30)
        <5> QED
          BY <4>1, <5>1
      <4>3. Shown(row) = M!Lifetime(ptr, LifeOf(freed_skb_ptrs[ptr], None), t)
        BY <1>4, <2>1, <4>2
      <4> HIDE DEF row
      <4> QED
        BY <1>1, <1>4, <2>1, <4>3
    <3>2. rows' = <<row>>
      BY <1>1, <2>1
    <3> HIDE DEF row
    <3>3. \A x : x \in Report' <=> \E k \in DOMAIN rows' : x = Shown(rows'[k])
      BY DEF Report, Shown
    <3>4. DOMAIN rows' = {1} /\ rows'[1] = row
      BY <3>2, SMTT(30)
    <3>5. Report' = {lifetime}
      BY <3>1, <3>3, <3>4
    <3>6. life' = [p \in Ptr |-> IF p \in {ptr} THEN M!Unknown ELSE life[p]]
      BY <1>2, <1>5 DEF IsLife
    <3>7. M!Reuse({ptr})
      BY <1>4, <2>1, <3>5, <3>6 DEF M!Reuse
    <3> QED
      BY <1>0, <3>7 DEF Moves
  <2>2. CASE ptr \notin DOMAIN freed_skb_ptrs
    <3>1. DOMAIN rows' = {}
      BY <1>1, <2>2, SMTT(30)
    <3>2. life[ptr] = M!Unknown
      BY <1>0, <1>3, <2>2 DEF HeadLife
    <3>3. life' = life
      BY <1>2, <1>5, <3>2 DEF Lives, IsLife
    <3> QED
      BY <3>1, <3>3, NoReport DEF Lives
  <2> QED
    BY <2>1, <2>2, SMTT(30)
<1>7. HeadLives'
  <2> SUFFICES ASSUME NEW h \in Kmem
               PROVE  HeadLife(life'[h], h, active_skb_ptrs', freed_skb_ptrs')
    BY DEF HeadLives
  <2>1. CASE h = ptr
    BY <1>0, <1>1, <1>5, <2>1 DEF HeadLife, Popped
  <2>2. CASE h # ptr
    <3>1. HeadLife(life[h], h, active_skb_ptrs, freed_skb_ptrs) /\ life'[h] = life[h]
      BY <1>2, <2>2 DEF Lives, HeadLives, Ptr
    <3> QED
      BY <1>1, <2>2, <3>1 DEF HeadLife, Popped
  <2> QED
    BY <2>1, <2>2
<1>8. FragLives'
  BY <1>0, <1>1, <1>2, FragLivesKept DEF Lives, Ptr
<1>9. \A p \in Ptr : life'[p] = life[p] \/ life'[p] = M!Unknown
  BY <1>2, <1>5
<1>10. Phases' /\ SkbsKnown' /\ SitesKnown'
  <2>1. Reserved \cup InSkb \subseteq Ptr /\ \A r \in Releases : r.ptr \in Ptr
    BY ReleaseFacts DEF Reserved, InSkb
  <2> QED
    BY <1>1, <1>9, <2>1, PhasesKept, SkbsKept, SitesKept DEF Lives
<1> QED
  BY <1>2, <1>6, <1>7, <1>8, <1>10 DEF Lives

(* skb_head_kmalloc: a lifetime begins.                                    *)
LEMMA HeadKmallocMeters ==
  ASSUME KernelInv, Good, Lives, Metered, NEW t \in Nat, NEW ptr \in Kmem, ptr \in used,
         ptr \notin Reserved \cup InSkb, NEW loc \in Loc,
         A!SkbHeadKmalloc(t, ptr, loc), failure' = "none",
         Becomes(ptr, M!Allocated(M!Unknown, t, loc)), UNCHANGED <<kernel, head_of>>,
         Reserved' = Reserved \cup {ptr}, InSkb' = InSkb, Releases' = Releases
  PROVE  Moves /\ Lives'
<1> DEFINE e == A!NewEntry(t, ptr, loc)
<1>0. ptr \in Ptr /\ ptr \notin Frag /\ ptr \notin DOMAIN active_skb_ptrs
  BY PtrAssumption DEF Ptr, Good, HeadsInv
<1>1. /\ now' = t /\ rows' = << >>
      /\ UNCHANGED <<freed_skb_ptrs, active_pages, freed_pages, consume_skb_locations>>
      /\ Assigned(active_skb_ptrs, active_skb_ptrs', ptr, e)
  BY <1>0, SkbHeadKmallocEffect DEF Good
<1>2. /\ IsLife' /\ \A p \in Ptr \ {ptr} : life'[p] = life[p]
      /\ life'[ptr] = LifeOf(e, None)
  BY <1>0, LifeStep, LifeOfNew DEF Lives
<1>3. life[ptr] = M!Unknown /\ ptr \notin DOMAIN freed_skb_ptrs
  BY <1>0, NoEntry
<1>4. Moves
  <2>1. Report' = {}
    BY <1>1, SMTT(30) DEF Report
  <2>2. life' = [life EXCEPT ![ptr] = M!Allocated(life[ptr], now', loc)]
    BY <1>1, <1>3 DEF Becomes
  <2>3. M!Alloc(ptr, loc)
    BY <1>3, <2>1, <2>2, LifePhases DEF M!Alloc, M!Step
  <2> QED
    BY <1>0, <2>3 DEF Moves, Func
<1>5. e.skb_ptr = None /\ LifeOf(e, None).phase = "allocated"
  BY DEF A!NewEntry, LifeOf
<1> HIDE DEF e
<1>6. HeadLives'
  <2> SUFFICES ASSUME NEW h \in Kmem
               PROVE  HeadLife(life'[h], h, active_skb_ptrs', freed_skb_ptrs')
    BY DEF HeadLives
  <2>1. CASE h = ptr
    BY <1>1, <1>2, <1>3, <2>1 DEF HeadLife, Assigned
  <2>2. CASE h # ptr
    <3>1. HeadLife(life[h], h, active_skb_ptrs, freed_skb_ptrs) /\ life'[h] = life[h]
      BY <1>2, <2>2 DEF Lives, HeadLives, Ptr
    <3> QED
      BY <1>1, <2>2, <3>1 DEF HeadLife, Assigned
  <2> QED
    BY <2>1, <2>2
<1>7. FragLives'
  BY <1>0, <1>1, <1>2, FragLivesKept DEF Lives, Ptr
<1>8. Reserved \cup InSkb \subseteq Ptr /\ \A r \in Releases : r.ptr \in InSkb
  BY ReleaseFacts DEF Reserved, InSkb
<1>9. Phases'
  BY <1>2, <1>5, <1>8 DEF Lives, Phases
<1>10. SkbsKnown'
  BY <1>1, <1>5 DEF Lives, SkbsKnown, Assigned
<1>11. SitesKnown'
  BY <1>1, <1>2, <1>8, SitesKept DEF Lives
<1> QED
  BY <1>2, <1>4, <1>6, <1>7, <1>9, <1>10, <1>11 DEF Lives

(* One fragment of a page changes, and its lifetime with it.               *)
LEMMA FragLivesChanged ==
  ASSUME Good, Metered, FragLives, NEW page \in DOMAIN active_pages,
         NEW k \in DOMAIN active_pages[page].frags, NEW e,
         FragChanged(active_pages, active_pages', page, k, e),
         e.ptr = active_pages[page].frags[k].ptr, UNCHANGED freed_pages,
         life'[e.ptr] = LifeOf(e, None), \A f \in Frag \ {e.ptr} : life'[f] = life[f]
  PROVE  FragLives'
<1> DEFINE old == active_pages[page].frags
           new == active_pages'[page].frags
<1>1. /\ DOMAIN active_pages' = DOMAIN active_pages
      /\ \A p \in DOMAIN active_pages \ {page} : active_pages'[p] = active_pages[p]
  BY DEF FragChanged
<1>2. /\ DOMAIN new = DOMAIN old /\ new[k] = e /\ k \in DOMAIN old /\ old[k].ptr = e.ptr
      /\ \A j \in DOMAIN old \ {k} : new[j] = old[j]
  BY DEF FragChanged
<1>3. FragsTrue(old, handed, used, Reserved, InSkb) /\ InPage(page, old)
  BY MeteredFeatures DEF Good, FragsInv, PagesInv
<1>4. page \notin DOMAIN freed_pages
  BY DEF Good, PagesInv
<1> HIDE DEF old, new
<1>5. \A j \in DOMAIN old \ {k} : old[j].ptr # e.ptr
  BY <1>2, <1>3 DEF FragsTrue
<1>6. PageOf[e.ptr] = page
  BY <1>2, <1>3 DEF InPage
<1> SUFFICES ASSUME NEW f \in Frag
             PROVE  FragLife(life'[f], f, PageOf[f], active_pages', freed_pages')
  BY DEF FragLives
<1>7. FragLife(life[f], f, PageOf[f], active_pages, freed_pages)
  BY DEF FragLives
<1>8. CASE f = e.ptr
  <2>1. LifeIn(life'[f], f, new, None)
    BY <1>2, <1>5, <1>8 DEF LifeIn, HasFrag
  <2> QED
    BY <1>1, <1>4, <1>6, <1>8, <2>1 DEF FragLife, new
<1>9. CASE f # e.ptr /\ PageOf[f] = page
  <2>1. LifeIn(life[f], f, old, None)
    BY <1>7, <1>9 DEF FragLife, old
  <2>2. LifeIn(life'[f], f, new, None)
    BY <1>2, <1>9, <2>1, SMTT(30) DEF LifeIn, HasFrag
  <2> QED
    BY <1>1, <1>4, <1>9, <2>2 DEF FragLife, new
<1>10. CASE f # e.ptr /\ PageOf[f] # page
  <2>1. life'[f] = life[f]
    BY <1>10
  <2> QED
    BY <1>1, <1>7, <1>10, <2>1, SMTT(30) DEF FragLife
<1> QED
  BY <1>8, <1>9, <1>10

(* The entry of a head changes, and its lifetime with it.                  *)
LEMMA HeadLivesChanged ==
  ASSUME HeadLives, NEW ptr \in DOMAIN active_skb_ptrs, ptr \notin DOMAIN freed_skb_ptrs, NEW e,
         Assigned(active_skb_ptrs, active_skb_ptrs', ptr, e), UNCHANGED freed_skb_ptrs,
         life'[ptr] = LifeOf(e, None), \A h \in Kmem \ {ptr} : life'[h] = life[h]
  PROVE  HeadLives'
<1> SUFFICES ASSUME NEW h \in Kmem
             PROVE  HeadLife(life'[h], h, active_skb_ptrs', freed_skb_ptrs')
  BY DEF HeadLives
<1>1. CASE h = ptr
  BY <1>1 DEF HeadLife, Assigned
<1>2. CASE h # ptr
  <2>1. HeadLife(life[h], h, active_skb_ptrs, freed_skb_ptrs) /\ life'[h] = life[h]
    BY <1>2 DEF HeadLives
  <2> QED
    BY <1>2, <2>1 DEF HeadLife, Assigned
<1> QED
  BY <1>1, <1>2

(* napi_alloc_frag, netdev_alloc_frag                                      *)
LEMMA AllocFragMeters ==
  ASSUME KernelInv, Good, Lives, Metered, NEW t \in Nat, NEW ptr \in Frag, NEW loc \in Loc,
         ptr \notin handed, PageOf[ptr] \in page_used, ptr \notin used,
         A!AllocFrag(t, PageOf[ptr], ptr, loc), failure' = "none",
         IF PageOf[ptr] \in seen THEN Becomes(ptr, M!Allocated(M!Unknown, t, loc))
         ELSE UNCHANGED life,
         UNCHANGED <<kernel, head_of>>,
         Reserved' = Reserved \cup {ptr}, InSkb' = InSkb, Releases' = Releases
  PROVE  Moves /\ Lives'
<1> DEFINE page == PageOf[ptr]
           e == A!NewEntry(t, ptr, loc)
<1>0. ptr \in Ptr /\ ptr \notin Kmem /\ page \in Page /\ ptr \notin Reserved \cup InSkb
  BY PtrAssumption, HeldMemory DEF Ptr
<1>1. /\ now' = t /\ rows' = << >>
      /\ UNCHANGED <<active_skb_ptrs, freed_skb_ptrs, freed_pages, consume_skb_locations>>
      /\ IF page \in DOMAIN active_pages
         THEN FragAdded(active_pages, active_pages', page, e) ELSE UNCHANGED active_pages
  BY <1>0, AllocFragEffect DEF Good
<1>2. DOMAIN active_pages = seen /\ page \notin DOMAIN freed_pages
  BY DEF Good, PagesInv
<1>3. Reserved \cup InSkb \subseteq Ptr /\ \A r \in Releases : r.ptr \in InSkb
  BY ReleaseFacts DEF Reserved, InSkb
<1>4. life[ptr] = M!Unknown
  <2>1. CASE page \in DOMAIN active_pages
    <3>1. FragsTrue(active_pages[page].frags, handed, used, Reserved, InSkb)
      BY <2>1, MeteredFeatures DEF Good, FragsInv
    <3>2. ~ HasFrag(active_pages[page].frags, ptr)
      BY <3>1 DEF FragsTrue, HasFrag
    <3> QED
      BY <2>1, <3>2, SMTT(30) DEF Lives, FragLives, FragLife, LifeIn
  <2>2. CASE page \notin DOMAIN active_pages
    BY <1>2, <2>2 DEF Lives, FragLives, FragLife
  <2> QED
    BY <2>1, <2>2
<1>5. e.ptr = ptr /\ LifeOf(e, None).phase = "allocated" /\ e \in A!Entry
  BY <1>0, NewEntryIs DEF A!NewEntry, LifeOf, ActiveHead
<1>6. M!Unknown.phase = "unknown"
  BY DEF M!Unknown
<1>7. CASE page \notin DOMAIN active_pages
  <2>1. UNCHANGED <<life, active_pages>> /\ DOMAIN rows' = {}
    BY <1>1, <1>2, <1>7, SMTT(30)
  <2>2. Moves
    BY <2>1, NoReport DEF Lives
  <2>3. HeadLives' /\ FragLives' /\ IsLife'
    BY <1>1, <2>1, HeadLivesKept, FragLivesKept DEF Lives, IsLife
  <2>4. Phases'
    BY <1>4, <1>6, <2>1 DEF Lives, Phases
  <2>5. SkbsKnown' /\ SitesKnown'
    BY <1>1, <2>1, SkbsKept, SitesKept DEF Lives
  <2> QED
    BY <2>2, <2>3, <2>4, <2>5 DEF Lives
<1>8. CASE page \in DOMAIN active_pages
  <2>1. Becomes(ptr, M!Allocated(M!Unknown, t, loc))
    BY <1>2, <1>8
  <2>2. /\ IsLife' /\ \A p \in Ptr \ {ptr} : life'[p] = life[p]
        /\ life'[ptr] = LifeOf(e, None)
    BY <1>0, <2>1, LifeStep, LifeOfNew, SMTT(30) DEF Lives
  <2>3. Moves
    <3>1. Report' = {}
      BY <1>1, SMTT(30) DEF Report
    <3>2. life' = [life EXCEPT ![ptr] = M!Allocated(life[ptr], now', loc)]
      <4>1. now' = t
        BY <1>1, SMTT(30)
      <4> QED
        BY <1>4, <2>1, <4>1 DEF Becomes
    <3>3. M!Alloc(ptr, loc)
      BY <1>4, <1>6, <3>1, <3>2 DEF M!Alloc, M!Step
    <3> QED
      BY <1>0, <3>3 DEF Moves, Func
  <2> DEFINE old == active_pages[page].frags
             new == active_pages'[page].frags
             n == Len(old) + 1
  <2>4. /\ DOMAIN active_pages' = DOMAIN active_pages
        /\ \A p \in DOMAIN active_pages \ {page} : active_pages'[p] = active_pages[p]
        /\ new = Append(old, e)
    BY <1>1, <1>8 DEF FragAdded
  <2>5. old \in Seq(A!Entry)
    BY <1>8, ActiveFrags DEF Good
  <2> HIDE DEF e, new, old
  <2>6. /\ DOMAIN new = DOMAIN old \cup {n} /\ n \notin DOMAIN old
        /\ new[n] = e /\ \A k \in DOMAIN old : new[k] = old[k]
    BY <1>5, <2>4, <2>5, AppendElements, SMTT(30)
  <2> HIDE DEF n
  <2>7. ~ HasFrag(old, ptr)
    <3>1. FragsTrue(old, handed, used, Reserved, InSkb)
      BY <1>8, MeteredFeatures DEF Good, FragsInv, old
    <3> QED
      BY <3>1 DEF FragsTrue, HasFrag
  <2>8. FragLives'
    <3> SUFFICES ASSUME NEW f \in Frag
                 PROVE  FragLife(life'[f], f, PageOf[f], active_pages', freed_pages')
      BY DEF FragLives
    <3>1. FragLife(life[f], f, PageOf[f], active_pages, freed_pages)
      BY DEF Lives, FragLives
    <3>2. CASE f = ptr
      <4>1. LifeIn(life'[f], f, new, None)
        BY <1>5, <2>2, <2>6, <2>7, <3>2 DEF LifeIn, HasFrag
      <4> QED
        BY <1>1, <1>2, <1>8, <2>4, <3>2, <4>1 DEF FragLife, new
    <3>3. CASE f # ptr /\ PageOf[f] = page
      <4>1. LifeIn(life[f], f, old, None) /\ life'[f] = life[f]
        BY <1>8, <2>2, <3>1, <3>3 DEF FragLife, old, Ptr
      <4>2. LifeIn(life'[f], f, new, None)
        BY <1>5, <2>6, <3>3, <4>1 DEF LifeIn, HasFrag
      <4> QED
        BY <1>1, <1>2, <1>8, <2>4, <3>3, <4>2 DEF FragLife, new
    <3>4. CASE f # ptr /\ PageOf[f] # page
      <4>1. life'[f] = life[f]
        BY <2>2, <3>4 DEF Ptr
      <4> QED
        BY <1>1, <2>4, <3>1, <3>4, <4>1 DEF FragLife
    <3> QED
      BY <3>2, <3>3, <3>4
  <2>9. HeadLives'
    BY <1>0, <1>1, <2>2, HeadLivesKept DEF Lives, Ptr
  <2>10. Phases'
    BY <1>0, <1>3, <1>5, <2>2 DEF Lives, Phases
  <2>11. SkbsKnown' /\ SitesKnown'
    BY <1>0, <1>1, <1>3, <2>2, SkbsKept, SitesKept DEF Lives
  <2> QED
    BY <2>2, <2>3, <2>8, <2>9, <2>10, <2>11 DEF Lives
<1> QED
  BY <1>7, <1>8

(* The meter sees the first write.                                         *)
LEMMA WriteMoves ==
  ASSUME Lives, NEW ptr \in Ptr, now' \in Nat, rows' = << >>, life[ptr].phase = "allocated",
         Becomes(ptr, M!Written(life[ptr], now'))
  PROVE  Moves
<1>1. Report' = {}
  BY SMTT(30) DEF Report
<1>2. M!Write(ptr)
  BY <1>1 DEF M!Write, M!Step, Becomes
<1> QED
  BY <1>2 DEF Moves

(* The call sites that are known stay so when no lifetime of a head that   *)
(* is being released begins.                                               *)
LEMMA FinalizeOthers ==
  ASSUME KernelInv, Lives, NEW ptr \in Reserved, IsLife',
         \A p \in Ptr \ {ptr} : life'[p] = life[p],
         life'[ptr].phase \in {"unknown", "written"},
         Reserved' = Reserved \ {ptr}, InSkb' = InSkb \cup {ptr}, Releases' = Releases,
         UNCHANGED consume_skb_locations
  PROVE  Phases' /\ SitesKnown'
<1>1. Reserved \cup InSkb \subseteq Ptr /\ \A r \in Releases : r.ptr \in InSkb
  BY ReleaseFacts DEF Reserved, InSkb
<1>2. ptr \notin InSkb
  BY HeldMemory
<1>3. Phases'
  BY <1>1 DEF Lives, Phases
<1>4. SitesKnown'
  BY <1>1, <1>2, SitesKept DEF Lives
<1> QED
  BY <1>3, <1>4

(* An entry gets its sk_buff.                                              *)
LEMMA FinalizeSkbs ==
  ASSUME KernelInv, Good, SkbsKnown, NEW ptr \in Ptr, NEW skb \in Skb, UNCHANGED kernel,
         head_of[skb] = None, head_of' = [head_of EXCEPT ![skb] = ptr],
         InSkb' = InSkb \cup {ptr},
         \/ ptr \notin DOMAIN active_skb_ptrs /\ UNCHANGED active_skb_ptrs
         \/ /\ ptr \in DOMAIN active_skb_ptrs
            /\ \E e : /\ Assigned(active_skb_ptrs, active_skb_ptrs', ptr, e)
                      /\ e.skb_ptr = skb
  PROVE  SkbsKnown'
<1>0. head_of \in [Skb -> used \cup {None}] /\ skb # None
  BY NoneIsNull DEF KernelInv, MemoryConsistent
<1>1. ASSUME NEW h \in DOMAIN active_skb_ptrs, h # ptr, "clones" \notin kernel.features,
             active_skb_ptrs[h].skb_ptr # None
      PROVE  head_of'[active_skb_ptrs[h].skb_ptr] = h
  <2>1. h \in Ptr /\ active_skb_ptrs[h].skb_ptr \in Skb
    BY <1>1 DEF Good, Tables, HeadsTyped, A!IsDict, ActiveHead, A!Entry
  <2>2. head_of[active_skb_ptrs[h].skb_ptr] = h /\ h # None
    BY <1>1, <2>1, NoneIsNull DEF SkbsKnown
  <2> QED
    BY <1>0, <2>1, <2>2
<1>2. CASE ptr \notin DOMAIN active_skb_ptrs /\ UNCHANGED active_skb_ptrs
  BY <1>1, <1>2 DEF SkbsKnown
<1>3. ASSUME ptr \in DOMAIN active_skb_ptrs, NEW e,
             Assigned(active_skb_ptrs, active_skb_ptrs', ptr, e), e.skb_ptr = skb
      PROVE  SkbsKnown'
  <2>1. head_of'[skb] = ptr
    BY <1>0
  <2>2. /\ DOMAIN active_skb_ptrs' = DOMAIN active_skb_ptrs /\ active_skb_ptrs'[ptr] = e
        /\ \A h \in DOMAIN active_skb_ptrs \ {ptr} : active_skb_ptrs'[h] = active_skb_ptrs[h]
    BY <1>3 DEF Assigned
  <2> QED
    BY <1>0, <1>1, <1>3, <2>1, <2>2 DEF SkbsKnown
<1> QED
  BY <1>2, <1>3

(* finalize_skb_around: the first write of the lifetime.                   *)
LEMMA FinalizeMeters ==
  ASSUME KernelInv, Good, Lives, Metered, NEW t \in Nat, NEW skb \in Skb, NEW ptr \in Reserved,
         A!FinalizeSkbAround(t, skb, ptr), failure' = "none",
         IF life[ptr].phase = "allocated" THEN Becomes(ptr, M!Written(life[ptr], t))
         ELSE UNCHANGED life,
         UNCHANGED kernel,
         head_of[skb] = None, head_of' = [head_of EXCEPT ![skb] = ptr],
         Reserved' = Reserved \ {ptr}, InSkb' = InSkb \cup {ptr}, Releases' = Releases
  PROVE  Moves /\ Lives'
<1>0. ptr \in Ptr /\ ptr \in used /\ ptr \notin InSkb
  BY HeldMemory DEF Reserved
<1>1. /\ now' = t /\ rows' = << >>
      /\ UNCHANGED <<freed_skb_ptrs, freed_pages, consume_skb_locations>>
      /\ \/ \E page \in DOMAIN active_pages : \E k \in DOMAIN active_pages[page].frags :
              /\ active_pages[page].frags[k].ptr = ptr
              /\ FragChanged(active_pages, active_pages', page, k,
                             WroteTo(active_pages[page].frags[k], t, skb))
              /\ UNCHANGED active_skb_ptrs
         \/ /\ \A p \in DOMAIN active_pages : \A k \in DOMAIN active_pages[p].frags :
                 active_pages[p].frags[k].ptr # ptr
            /\ IF ptr \in DOMAIN active_skb_ptrs
               THEN Assigned(active_skb_ptrs, active_skb_ptrs', ptr,
                             WroteTo(active_skb_ptrs[ptr], t, skb))
               ELSE UNCHANGED active_skb_ptrs
            /\ UNCHANGED active_pages
  BY <1>0, FinalizeEffect DEF Good
<1>2. life[ptr].phase \in {"unknown", "allocated"}
  BY DEF Lives, Phases
<1>3. ASSUME NEW e \in A!Entry, life[ptr] = LifeOf(e, None)
      PROVE  /\ Moves /\ IsLife' /\ \A p \in Ptr \ {ptr} : life'[p] = life[p]
             /\ life'[ptr] = LifeOf(WroteTo(e, t, skb), None)
             /\ Phases' /\ SitesKnown'
  <2>1. life[ptr].phase = "allocated"
    BY <1>2, <1>3, LifePhases, SMTT(30)
  <2>2. Becomes(ptr, M!Written(life[ptr], t))
    BY <2>1
  <2>3. Moves
    BY <1>0, <1>1, <2>1, <2>2, WriteMoves
  <2>4. IsLife' /\ life'[ptr] = M!Written(life[ptr], t) /\ \A p \in Ptr \ {ptr} : life'[p] = life[p]
    BY <1>0, <2>2, LifeStep DEF Lives
  <2>5. life'[ptr] = LifeOf(WroteTo(e, t, skb), None)
    BY <1>3, <2>1, <2>4, LifeOfWritten
  <2>6. life'[ptr].phase = "written"
    <3>1. WroteTo(e, t, skb).free_time = None /\ WroteTo(e, t, skb).data_write_time = t
      <4>1. e.free_time = None
        BY <1>3, <2>1, SMTT(30) DEF LifeOf
      <4> QED
        BY <4>1 DEF WroteTo, A!Entry
    <3> QED
      BY <2>5, <3>1, NoneIsUnset, SMTT(30) DEF LifeOf
  <2> QED
    BY <1>1, <2>3, <2>4, <2>5, <2>6, FinalizeOthers
<1>4. CASE \E page \in DOMAIN active_pages : \E k \in DOMAIN active_pages[page].frags :
              /\ active_pages[page].frags[k].ptr = ptr
              /\ FragChanged(active_pages, active_pages', page, k,
                             WroteTo(active_pages[page].frags[k], t, skb))
              /\ UNCHANGED active_skb_ptrs
  <2>0. PICK page \in DOMAIN active_pages : \E k \in DOMAIN active_pages[page].frags :
              /\ active_pages[page].frags[k].ptr = ptr
              /\ FragChanged(active_pages, active_pages', page, k,
                             WroteTo(active_pages[page].frags[k], t, skb))
              /\ UNCHANGED active_skb_ptrs
    BY <1>4
  <2>1. PICK k \in DOMAIN active_pages[page].frags :
              /\ active_pages[page].frags[k].ptr = ptr
              /\ FragChanged(active_pages, active_pages', page, k,
                             WroteTo(active_pages[page].frags[k], t, skb))
              /\ UNCHANGED active_skb_ptrs
    BY <2>0
  <2> DEFINE old == active_pages[page].frags[k]
             e == WroteTo(old, t, skb)
  <2>2. old \in A!Entry
    BY ActiveFrags, FragElement DEF Good
  <2>3. ptr \in Frag /\ PageOf[ptr] = page /\ ptr \notin Kmem
    BY <2>1, PtrAssumption, SMTT(30) DEF Good, PagesInv, InPage
  <2>4. life[ptr] = LifeOf(old, None)
    <3>1. LifeIn(life[ptr], ptr, active_pages[page].frags, None)
      BY <2>3 DEF Lives, FragLives, FragLife
    <3> QED
      BY <2>1, <3>1 DEF LifeIn
  <2>5. /\ Moves /\ IsLife' /\ \A p \in Ptr \ {ptr} : life'[p] = life[p]
        /\ life'[ptr] = LifeOf(e, None) /\ Phases' /\ SitesKnown'
    <3> HIDE DEF old
    <3> QED
      BY <1>3, <2>2, <2>4
  <2>6. e.ptr = ptr
    BY <2>1, <2>2 DEF WroteTo, A!Entry
  <2>7. FragChanged(active_pages, active_pages', page, k, e) /\ UNCHANGED active_skb_ptrs
    BY <2>1
  <2> HIDE DEF e
  <2>8. FragLives'
    BY <1>1, <2>1, <2>5, <2>6, <2>7, FragLivesChanged DEF Lives, Ptr
  <2>9. HeadLives'
    BY <1>1, <2>3, <2>5, <2>7, HeadLivesKept DEF Lives, Ptr
  <2>10. SkbsKnown'
    <3>1. ptr \notin DOMAIN active_skb_ptrs
      BY <2>3 DEF Good, HeadsInv
    <3> QED
      BY <1>0, <2>7, <3>1, FinalizeSkbs DEF Lives
  <2> QED
    BY <2>5, <2>8, <2>9, <2>10 DEF Lives
<1>5. CASE /\ \A p \in DOMAIN active_pages : \A k \in DOMAIN active_pages[p].frags :
                 active_pages[p].frags[k].ptr # ptr
           /\ IF ptr \in DOMAIN active_skb_ptrs
               THEN Assigned(active_skb_ptrs, active_skb_ptrs', ptr,
                             WroteTo(active_skb_ptrs[ptr], t, skb))
               ELSE UNCHANGED active_skb_ptrs
           /\ UNCHANGED active_pages
  <2>1. CASE ptr \in DOMAIN active_skb_ptrs
    <3> DEFINE old == active_skb_ptrs[ptr]
               e == WroteTo(old, t, skb)
    <3>1. ptr \in Kmem /\ ptr \notin Frag /\ ptr \notin DOMAIN freed_skb_ptrs
      BY <1>0, <2>1, NoEntry, PtrAssumption DEF Good, HeadsInv
    <3>2. old \in A!Entry
      BY <2>1 DEF Good, Tables, HeadsTyped, A!IsDict, ActiveHead
    <3>3. life[ptr] = LifeOf(old, None)
      BY <2>1, <3>1 DEF Lives, HeadLives, HeadLife
    <3>4. /\ Moves /\ IsLife' /\ \A p \in Ptr \ {ptr} : life'[p] = life[p]
          /\ life'[ptr] = LifeOf(e, None) /\ Phases' /\ SitesKnown'
      <4> HIDE DEF old
      <4> QED
        BY <1>3, <3>2, <3>3
    <3>5. Assigned(active_skb_ptrs, active_skb_ptrs', ptr, e)
      BY <1>5, <2>1
    <3>6. e.skb_ptr = skb
      BY <3>2 DEF WroteTo, A!Entry
    <3> HIDE DEF e
    <3>7. HeadLives'
      BY <1>1, <2>1, <3>1, <3>4, <3>5, HeadLivesChanged DEF Lives, Ptr
    <3>8. FragLives'
      BY <1>1, <1>5, <3>1, <3>4, FragLivesKept DEF Lives, Ptr
    <3>9. SkbsKnown'
      BY <1>0, <2>1, <3>5, <3>6, FinalizeSkbs DEF Lives
    <3> QED
      BY <3>4, <3>7, <3>8, <3>9 DEF Lives
  <2>2. CASE ptr \notin DOMAIN active_skb_ptrs
    <3>1. UNCHANGED <<active_skb_ptrs, active_pages>>
      BY <1>5, <2>2
    <3>2. life[ptr] = M!Unknown
      <4>1. CASE ptr \in Kmem
        BY <1>0, <2>2, <4>1, NoEntry
      <4>2. CASE ptr \in Frag /\ PageOf[ptr] \notin DOMAIN active_pages
        BY <1>0, <4>2, NoEntry
      <4>3. CASE ptr \in Frag /\ PageOf[ptr] \in DOMAIN active_pages
        <5>1. LifeIn(life[ptr], ptr, active_pages[PageOf[ptr]].frags, None)
          BY <4>3 DEF Lives, FragLives, FragLife
        <5>2. ~ HasFrag(active_pages[PageOf[ptr]].frags, ptr)
          BY <1>5, <4>3 DEF HasFrag
        <5> QED
          BY <5>1, <5>2 DEF LifeIn
      <4> QED
        BY <1>0, <4>1, <4>2, <4>3 DEF Ptr
    <3>3. M!Unknown.phase = "unknown"
      BY DEF M!Unknown
    <3>4. UNCHANGED life
      BY <3>2, <3>3
    <3>5. Moves
      <4>1. DOMAIN rows' = {}
        BY <1>1, SMTT(30)
      <4> QED
        BY <3>4, <4>1, NoReport DEF Lives
    <3>6. IsLife' /\ HeadLives' /\ FragLives'
      BY <1>1, <3>1, <3>4, HeadLivesKept, FragLivesKept DEF Lives, IsLife
    <3>7. Phases' /\ SitesKnown'
      BY <1>1, <3>2, <3>3, <3>4, <3>6, FinalizeOthers
    <3>8. SkbsKnown'
      BY <1>0, <2>2, <3>1, FinalizeSkbs DEF Lives
    <3> QED
      BY <3>5, <3>6, <3>7, <3>8 DEF Lives
  <2> QED
    BY <2>1, <2>2
<1> QED
  BY <1>1, <1>4, <1>5

(* The meter sees alloc_skb_with_frags.                                    *)
LEMMA AttributeMoves ==
  ASSUME Lives, NEW ptr \in Ptr, NEW loc \in Loc, rows' = << >>,
         IF life[ptr].phase = "written"
         THEN Becomes(ptr, [life[ptr] EXCEPT !.alloc_func = loc]) ELSE UNCHANGED life
  PROVE  Moves
<1>1. Report' = {} /\ DOMAIN rows' = {}
  BY SMTT(30) DEF Report
<1>2. CASE life[ptr].phase = "written"
  <2>1. M!Attribute(ptr, loc)
    BY <1>1, <1>2 DEF M!Attribute, M!Step, Becomes
  <2> QED
    BY <2>1 DEF Moves, Func
<1>3. CASE life[ptr].phase # "written"
  BY <1>1, <1>3, NoReport DEF Lives
<1> QED
  BY <1>2, <1>3

(* The search of line 167 finds the entry of the head, if it has one.      *)
LEMMA SearchFinds ==
  ASSUME KernelInv, Good, SkbsKnown, "clones" \notin kernel.features,
         NEW skb \in Skb, NEW ptr \in Kmem \cap InSkb, head_of[skb] = ptr
  PROVE  /\ \A k \in DOMAIN skb_order : A!Matches(k, skb) => skb_order[k] = ptr
         /\ ptr \in DOMAIN active_skb_ptrs => \E k \in A!Visited(skb) : A!Matches(k, skb)
<1>1. /\ skb_order \in Seq(Ptr)
      /\ \A k \in DOMAIN skb_order : skb_order[k] \in DOMAIN active_skb_ptrs
      /\ \A h \in DOMAIN active_skb_ptrs : \E k \in DOMAIN skb_order : skb_order[k] = h
      /\ \A j, k \in DOMAIN skb_order : skb_order[j] = skb_order[k] => j = k
  BY DEF Good, Tables, OrderInv
<1>2. skb # None /\ ptr # None
  BY NoneIsNull DEF Ptr
<1>3. ASSUME NEW k \in DOMAIN skb_order, A!Matches(k, skb) PROVE skb_order[k] = ptr
  BY <1>1, <1>2, <1>3 DEF A!Matches, SkbsKnown
<1>4. ASSUME ptr \in DOMAIN active_skb_ptrs PROVE \E k \in A!Visited(skb) : A!Matches(k, skb)
  <2>1. PICK k \in DOMAIN skb_order : skb_order[k] = ptr
    BY <1>1, <1>4
  <2>2. active_skb_ptrs[ptr].skb_ptr \in Skb /\ head_of[active_skb_ptrs[ptr].skb_ptr] = ptr
    <3>1. active_skb_ptrs[ptr].skb_ptr # None
      BY <1>4 DEF SkbsKnown
    <3>2. active_skb_ptrs[ptr].skb_ptr \in Skb
      BY <1>4, <3>1 DEF Good, Tables, HeadsTyped, A!IsDict, ActiveHead, A!Entry
    <3> QED
      BY <1>4, <3>1, <3>2 DEF SkbsKnown
  <2>3. active_skb_ptrs[ptr].skb_ptr = skb
    BY <1>2, <2>2 DEF KernelInv, MemoryConsistent, Shared
  <2>4. A!Matches(k, skb)
    BY <2>1, <2>3 DEF A!Matches
  <2>5. ASSUME NEW j \in 1 .. k - 1, A!Matches(j, skb) PROVE FALSE
    <3>1. j \in DOMAIN skb_order /\ j # k
      BY <1>1, <2>1, SMTT(30)
    <3> QED
      BY <1>1, <1>3, <2>1, <2>5, <3>1
  <2> QED
    BY <2>1, <2>4, <2>5 DEF A!Visited
<1> QED
  BY <1>3, <1>4

(* alloc_skb_with_frags                                                    *)
LEMMA WithFragsMeters ==
  ASSUME KernelInv, Good, Lives, Metered, "with_frags" \in kernel.features,
         NEW t \in Nat, NEW skb \in Skb, NEW ptr \in Kmem \cap InSkb, head_of[skb] = ptr,
         NEW loc \in Loc, A!AllocSkbWithFrags(t, skb, loc), failure' = "none",
         IF life[ptr].phase = "written"
         THEN Becomes(ptr, [life[ptr] EXCEPT !.alloc_func = loc]) ELSE UNCHANGED life,
         UNCHANGED <<kernel, head_of>>,
         Reserved' = Reserved, InSkb' = InSkb, Releases' = Releases
  PROVE  Moves /\ Lives'
<1>0. /\ ptr \in Ptr /\ ptr \notin Frag /\ ptr \in used /\ ptr \notin DOMAIN freed_skb_ptrs
      /\ "clones" \notin kernel.features
  BY PtrAssumption, HeldMemory, NoEntry, MeteredFeatures DEF Ptr
<1>1. /\ rows' = << >>
      /\ UNCHANGED <<active_pages, freed_skb_ptrs, freed_pages, consume_skb_locations>>
      /\ \/ /\ \A k \in A!Visited(skb) : ~ A!Matches(k, skb)
            /\ UNCHANGED active_skb_ptrs
         \/ \E k \in DOMAIN skb_order :
              /\ A!Matches(k, skb)
              /\ Assigned(active_skb_ptrs, active_skb_ptrs', skb_order[k],
                          [active_skb_ptrs[skb_order[k]] EXCEPT !.alloc_func = loc])
  BY AllocSkbWithFragsEffect DEF Good
<1>2. /\ \A k \in DOMAIN skb_order : A!Matches(k, skb) => skb_order[k] = ptr
      /\ ptr \in DOMAIN active_skb_ptrs => \E k \in A!Visited(skb) : A!Matches(k, skb)
  BY <1>0, SearchFinds DEF Lives
<1>3. Moves
  BY <1>0, <1>1, AttributeMoves
<1>4. Reserved \cup InSkb \subseteq Ptr /\ \A r \in Releases : r.ptr \in InSkb
  BY ReleaseFacts DEF Reserved, InSkb
<1>5. CASE /\ \A k \in A!Visited(skb) : ~ A!Matches(k, skb)
           /\ UNCHANGED active_skb_ptrs
  <2>1. life[ptr] = M!Unknown
    BY <1>0, <1>2, <1>5, NoEntry
  <2>2. UNCHANGED life
    BY <2>1, SMTT(30) DEF M!Unknown
  <2>3. HeadLives' /\ FragLives' /\ IsLife'
    BY <1>1, <1>5, <2>2, HeadLivesKept, FragLivesKept DEF Lives, IsLife
  <2>4. Phases' /\ SkbsKnown' /\ SitesKnown'
    BY <1>1, <1>5, <2>2, PhasesKept, SkbsKept, SitesKept DEF Lives
  <2> QED
    BY <1>3, <2>3, <2>4 DEF Lives
<1>6. CASE \E k \in DOMAIN skb_order :
              /\ A!Matches(k, skb)
              /\ Assigned(active_skb_ptrs, active_skb_ptrs', skb_order[k],
                          [active_skb_ptrs[skb_order[k]] EXCEPT !.alloc_func = loc])
  <2> DEFINE old == active_skb_ptrs[ptr]
             e == [old EXCEPT !.alloc_func = loc]
  <2>1. Assigned(active_skb_ptrs, active_skb_ptrs', ptr, e) /\ ptr \in DOMAIN active_skb_ptrs
    <3>1. PICK k \in DOMAIN skb_order :
              /\ A!Matches(k, skb)
              /\ Assigned(active_skb_ptrs, active_skb_ptrs', skb_order[k],
                          [active_skb_ptrs[skb_order[k]] EXCEPT !.alloc_func = loc])
      BY <1>6
    <3>2. skb_order[k] = ptr /\ ptr \in DOMAIN active_skb_ptrs
      BY <1>2, <3>1 DEF Good, Tables, OrderInv
    <3> QED
      BY <3>1, <3>2
  <2>2. old \in A!Entry
    BY <2>1 DEF Good, Tables, HeadsTyped, A!IsDict, ActiveHead
  <2>3. life[ptr] = LifeOf(old, None)
    BY <2>1 DEF Lives, HeadLives, HeadLife
  <2>4. life[ptr].phase = "written"
    <3>1. life[ptr].phase \in {"unknown", "written"}
      BY DEF Lives, Phases
    <3> QED
      BY <2>3, <3>1, LifePhases, SMTT(30)
  <2>5. /\ IsLife' /\ life'[ptr] = [life[ptr] EXCEPT !.alloc_func = loc]
        /\ \A p \in Ptr \ {ptr} : life'[p] = life[p]
    BY <1>0, <2>4, LifeStep DEF Lives
  <2>6. e.skb_ptr = old.skb_ptr /\ e.free_time = old.free_time
        /\ e.data_write_time = old.data_write_time
    BY <2>2 DEF A!Entry
  <2>7. life'[ptr] = LifeOf(e, None)
    <3> HIDE DEF old
    <3> QED
      BY <2>2, <2>3, <2>5, LifeOfAttributed, SMTT(30)
  <2>8. life'[ptr].phase = "written"
    BY <2>3, <2>4, <2>6, <2>7, SMTT(30) DEF LifeOf
  <2> HIDE DEF e
  <2>9. HeadLives'
    BY <1>0, <1>1, <2>1, <2>5, <2>7, HeadLivesChanged DEF Lives, Ptr
  <2>10. FragLives'
    BY <1>0, <1>1, <2>5, FragLivesKept DEF Lives, Ptr
  <2>11. Phases'
    <3>1. ptr \notin Reserved
      BY HeldMemory
    <3> QED
      BY <1>4, <2>5, <2>8, <3>1 DEF Lives, Phases
  <2>12. SkbsKnown'
    BY <2>1, <2>6, SMTT(30) DEF Lives, SkbsKnown, Assigned
  <2>13. SitesKnown'
    <3>1. life[ptr] # M!Unknown
      BY <2>3, LifePhases, SMTT(30)
    <3> QED
      BY <1>1, <1>4, <2>5, <3>1, SitesKept DEF Lives
  <2> QED
    BY <1>3, <2>5, <2>9, <2>10, <2>11, <2>12, <2>13 DEF Lives
<1> QED
  BY <1>1, <1>5, <1>6

(* consume_skb, kfree_skb: the call site is recorded.                      *)
LEMMA ConsumeMeters ==
  ASSUME KernelInv, Good, Lives, Metered, NEW t \in Nat, NEW skb \in Skb, NEW loc \in Loc,
         NEW new, new.skb = skb, new.loc = loc, ~ Busy(skb),
         A!ConsumeSkb(t, skb, loc), UNCHANGED <<kernel, head_of, life>>,
         Reserved' = Reserved, InSkb' = InSkb, Releases' = Releases \cup {new}
  PROVE  Moves /\ Lives'
<1>1. /\ rows' = << >> /\ UNCHANGED <<active_skb_ptrs, active_pages, freed_skb_ptrs, freed_pages>>
      /\ Assigned(consume_skb_locations, consume_skb_locations', skb, loc)
  BY ConsumeSkbEffect DEF Good
<1>2. Moves
  <2>1. DOMAIN rows' = {}
    BY <1>1, SMTT(30)
  <2> QED
    BY <2>1, NoReport DEF Lives
<1>3. HeadLives' /\ FragLives' /\ IsLife'
  BY <1>1, HeadLivesKept, FragLivesKept DEF Lives, IsLife
<1>4. Phases' /\ SkbsKnown'
  BY <1>1, PhasesKept, SkbsKept DEF Lives
<1>5. \A r \in Releases : r.skb # skb
  BY ReleaseFacts
<1>6. SitesKnown'
  BY <1>1, <1>5 DEF Lives, SitesKnown, Assigned
<1> QED
  BY <1>2, <1>3, <1>4, <1>6 DEF Lives
=============================================================================
