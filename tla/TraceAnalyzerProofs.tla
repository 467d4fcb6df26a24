------------------------ MODULE TraceAnalyzerProofs ------------------------
(***************************************************************************)
(* Proofs about the event loop of analyze_trace.py for any trace: any      *)
(* number of addresses, pages, sk_buffs and call sites, and events in any  *)
(* order.                                                                  *)
(***************************************************************************)
EXTENDS TraceAnalyzer, TLAPS

(***************************************************************************)
(* The inductive invariant strengthens the type of every dict with the     *)
(* order of the timestamps in its entries, none of which is later than n.  *)
(***************************************************************************)
ActiveHead(n) ==
  {e \in Entry :
     /\ Unfreed(e)
     /\ e.alloc_time <= n
     /\ e.data_write_time # None =>
          e.alloc_time <= e.data_write_time /\ e.data_write_time <= n}

FreedHead(n) ==
  {e \in Entry :
     /\ Released(e)
     /\ e.alloc_time <= e.free_time
     /\ e.free_time <= n
     /\ e.data_write_time # None =>
          e.alloc_time <= e.data_write_time /\ e.data_write_time <= e.free_time}

DatedFrag(n) ==
  {e \in Entry :
     /\ e.alloc_time <= n
     /\ e.free_time # None => e.alloc_time <= e.free_time /\ e.free_time <= n}

ActivePage(n) ==
  {e \in PageEntry : e.free_time = None /\ e.frags \in Seq(DatedFrag(n))}

GonePage(n) ==
  {e \in PageEntry :
     /\ e.free_time # None
     /\ e.free_time <= n
     /\ e.frags \in Seq(DatedFrag(e.free_time))}

Heads(n) ==
  /\ IsDict(active_skb_ptrs, Ptr, ActiveHead(n))
  /\ IsDict(freed_skb_ptrs, Ptr, FreedHead(n))

Pages(n) ==
  /\ IsDict(active_pages, Page, ActivePage(n))
  /\ IsDict(freed_pages, Page, GonePage(n))
  /\ DOMAIN active_pages \cap DOMAIN freed_pages = {}

Rest ==
  /\ skb_order \in Seq(Ptr)
  /\ IsDict(consume_skb_locations, Skb, Loc)
  /\ failure \in Failure \ {"assert_103", "assert_152"}

IInv == now \in Nat /\ Heads(now) /\ Pages(now) /\ Rest /\ DurationsOrdered
-----------------------------------------------------------------------------
(* None is not a value of any key.                                         *)
LEMMA NoneIsNone ==
  /\ \A t \in Nat : t # None
  /\ \A skb \in Skb : skb # None
  /\ \A location \in Loc \cup {"NOT FOUND"} : location # None
BY NoneAssumption, Zenon

(* Equal timestamps are in order.                                          *)
LEMMA LeqReflexive == \A t \in Nat : t <= t
OBVIOUS

(* d[key] = value and d.pop(key) keep a dict of the same type.             *)
LEMMA PutIsDict ==
  ASSUME NEW Key, NEW Value, NEW d, IsDict(d, Key, Value),
         NEW key \in Key, NEW value \in Value
  PROVE  /\ IsDict(Put(d, key, value), Key, Value)
         /\ DOMAIN Put(d, key, value) = DOMAIN d \cup {key}
BY DEF IsDict, Put

(* Removing a key from a dict leaves a dict of the same values.            *)
LEMMA PopIsDict ==
  ASSUME NEW Key, NEW Value, NEW d, IsDict(d, Key, Value), NEW key
  PROVE  /\ IsDict(Pop(d, key), Key, Value)
         /\ DOMAIN Pop(d, key) = DOMAIN d \ {key}
BY DEF IsDict, Pop

(* Assigning to a key of an entry: the entry of one key is replaced.       *)
LEMMA UpdateIsDict ==
  ASSUME NEW Key, NEW Value, NEW d, IsDict(d, Key, Value),
         NEW key \in DOMAIN d, NEW value \in Value
  PROVE  /\ IsDict([d EXCEPT ![key] = value], Key, Value)
         /\ DOMAIN [d EXCEPT ![key] = value] = DOMAIN d
BY DEF IsDict

(* A dict is a dict of any larger set of values.                           *)
LEMMA DictWeaken ==
  ASSUME NEW Key, NEW Value, NEW Wider, Value \subseteq Wider,
         NEW d, IsDict(d, Key, Value)
  PROVE  IsDict(d, Key, Wider)
BY DEF IsDict

(* A sequence is still one of wider type, or after an update or an append. *)
LEMMA SeqFacts ==
  ASSUME NEW S, NEW s \in Seq(S)
  PROVE  /\ \A T : S \subseteq T => s \in Seq(T)
         /\ \A k \in DOMAIN s, x \in S : [s EXCEPT ![k] = x] \in Seq(S)
         /\ \A x \in S : Append(s, x) \in Seq(S)
OBVIOUS

(* Removing a key from a dict's order.                                     *)
LEMMA WithoutType ==
  ASSUME NEW order \in Seq(Ptr), NEW key
  PROVE  Without(order, key) \in Seq(Ptr)
<1> DEFINE k == CHOOSE j \in DOMAIN order : order[j] = key
           n == Len(order) - 1
<1>1. CASE Len(order) = 0
  BY <1>1 DEF Without
<1>2. CASE Len(order) # 0
  <2>1. n \in Nat
    BY <1>2
  <2> HIDE DEF k
  <2>2. \A j \in 1 .. n : (IF j < k THEN order[j] ELSE order[j + 1]) \in Ptr
    BY <2>1
  <2>3. [j \in 1 .. n |-> IF j < k THEN order[j] ELSE order[j + 1]] \in [1 .. n -> Ptr]
    BY <2>2
  <2> QED
    BY <2>1, <2>3 DEF Without, k
<1> QED
  BY <1>1, <1>2
-----------------------------------------------------------------------------
(* The times of an entry are numbers where they are set.                   *)
LEMMA EntryTimes ==
  ASSUME NEW e \in Entry
  PROVE  /\ e.alloc_time \in Nat
         /\ e.data_write_time # None => e.data_write_time \in Nat
         /\ e.free_time # None => e.free_time \in Nat
BY Zenon DEF Entry, Time

(* Entries stay well dated as time passes.                                 *)
LEMMA Aging ==
  ASSUME NEW n \in Nat, NEW m \in Nat, n <= m
  PROVE  /\ ActiveHead(n) \subseteq ActiveHead(m)
         /\ FreedHead(n) \subseteq FreedHead(m)
         /\ DatedFrag(n) \subseteq DatedFrag(m)
         /\ ActivePage(n) \subseteq ActivePage(m)
         /\ GonePage(n) \subseteq GonePage(m)
<1>1. ActiveHead(n) \subseteq ActiveHead(m)
  <2> SUFFICES ASSUME NEW e \in ActiveHead(n) PROVE e \in ActiveHead(m)
    OBVIOUS
  <2> QED
    BY EntryTimes DEF ActiveHead
<1>2. FreedHead(n) \subseteq FreedHead(m)
  <2> SUFFICES ASSUME NEW e \in FreedHead(n) PROVE e \in FreedHead(m)
    OBVIOUS
  <2> QED
    BY EntryTimes DEF FreedHead, Released
<1>3. DatedFrag(n) \subseteq DatedFrag(m)
  <2> SUFFICES ASSUME NEW e \in DatedFrag(n) PROVE e \in DatedFrag(m)
    OBVIOUS
  <2> QED
    BY EntryTimes DEF DatedFrag
<1>4. ActivePage(n) \subseteq ActivePage(m)
  BY <1>3, SeqFacts DEF ActivePage
<1>5. GonePage(n) \subseteq GonePage(m)
  <2> SUFFICES ASSUME NEW e \in GonePage(n) PROVE e \in GonePage(m)
    OBVIOUS
  <2>1. e.free_time \in Nat
    BY DEF GonePage, PageEntry, Time
  <2> QED
    BY <2>1 DEF GonePage
<1> QED
  BY <1>1, <1>2, <1>3, <1>4, <1>5

(* Entries of heads stay dated when the time advances.                     *)
LEMMA HeadsAging ==
  ASSUME NEW n \in Nat, NEW m \in Nat, n <= m, Heads(n)
  PROVE  Heads(m)
BY Aging, DictWeaken DEF Heads

(* Entries of pages stay dated when the time advances.                     *)
LEMMA PagesAging ==
  ASSUME NEW n \in Nat, NEW m \in Nat, n <= m, Pages(n)
  PROVE  Pages(m)
BY Aging, DictWeaken DEF Pages
-----------------------------------------------------------------------------
(* What an event leaves alone stays well typed and well dated.             *)
LEMMA HeadsKept ==
  ASSUME IInv, now' \in Nat, now <= now', UNCHANGED <<active_skb_ptrs, freed_skb_ptrs>>
  PROVE  Heads(now)'
<1>1. Heads(now')
  BY HeadsAging DEF IInv
<1> QED
  BY <1>1 DEF Heads, IsDict

(* Branches that leave the pages alone keep what is known of them.         *)
LEMMA PagesKept ==
  ASSUME IInv, now' \in Nat, now <= now', UNCHANGED <<active_pages, freed_pages>>
  PROVE  Pages(now)'
<1>1. Pages(now')
  BY PagesAging DEF IInv
<1> QED
  BY <1>1 DEF Pages, IsDict

(* Branches that leave the other state alone keep what is known of it.     *)
LEMMA RestKept ==
  ASSUME IInv, UNCHANGED <<skb_order, consume_skb_locations>>,
         failure' \in Failure \ {"assert_103", "assert_152"}
  PROVE  Rest'
BY DEF IInv, Rest, IsDict

(* An event that reports nothing reports no wrong duration.                *)
LEMMA NoRows ==
  ASSUME rows' = << >>
  PROVE  DurationsOrdered'
BY DEF DurationsOrdered

(* An event that is ignored, or that ends the program.                     *)
LEMMA Ignored ==
  ASSUME IInv, now' \in Nat, now <= now', UNCHANGED dicts, rows' = << >>,
         failure' \in Failure \ {"assert_103", "assert_152"}
  PROVE  IInv'
<1>1. Heads(now)'
  BY HeadsKept DEF dicts
<1>2. Pages(now)'
  BY PagesKept DEF dicts
<1>3. Rest'
  BY RestKept DEF dicts
<1> QED
  BY <1>1, <1>2, <1>3, NoRows DEF IInv

(* The type part of the invariant at the time of the event.                *)
LEMMA AtEvent ==
  ASSUME IInv, NEW t \in Nat, now <= t
  PROVE  Heads(t) /\ Pages(t)
BY HeadsAging, PagesAging DEF IInv

(* A new entry is well dated as a head and as a fragment.                  *)
LEMMA NewEntryDated ==
  ASSUME NEW t \in Nat, NEW ptr \in Ptr, NEW location \in Loc
  PROVE  NewEntry(t, ptr, location) \in ActiveHead(t) \cap DatedFrag(t)
BY DEF NewEntry, ActiveHead, DatedFrag, Entry, Unfreed, Time

(* A page that is allocated now is well dated.                             *)
LEMMA FreshPageDated ==
  ASSUME NEW t \in Nat
  PROVE  [alloc_time |-> t, frags |-> << >>, free_time |-> None] \in ActivePage(t)
<1>1. << >> \in Seq(Entry) /\ << >> \in Seq(DatedFrag(t))
  OBVIOUS
<1> QED
  BY <1>1, Zenon DEF ActivePage, PageEntry, Time

(* A page that is freed now is well dated.                                 *)
LEMMA FreedPageDated ==
  ASSUME NEW t \in Nat, NEW entry \in ActivePage(t)
  PROVE  FreedPage(t, entry) \in GonePage(t)
<1>1. entry \in PageEntry /\ entry.frags \in Seq(DatedFrag(t))
  BY DEF ActivePage
<1>2. FreedPage(t, entry) \in PageEntry
  BY <1>1 DEF FreedPage, PageEntry, Time
<1>3. FreedPage(t, entry).free_time = t /\ FreedPage(t, entry).frags = entry.frags
  BY <1>1 DEF FreedPage, PageEntry
<1> DEFINE f == FreedPage(t, entry)
<1> HIDE DEF f
<1>4. f \in PageEntry /\ f.free_time = t /\ f.frags \in Seq(DatedFrag(f.free_time))
  BY <1>1, <1>2, <1>3 DEF f
<1>5. f.free_time # None /\ f.free_time <= t
  <2>1. t # None
    BY NoneIsNone, Zenon
  <2>2. t <= t
    OBVIOUS
  <2> QED
    BY <1>4, <2>1, <2>2, Zenon
<1>6. f \in GonePage(t)
  BY <1>4, <1>5 DEF GonePage
<1> QED
  BY <1>6 DEF f

(* Replacing one fragment of an active page.                               *)
LEMMA FragUpdate ==
  ASSUME NEW t \in Nat, NEW entry \in ActivePage(t),
         NEW k \in DOMAIN entry.frags, NEW frag \in DatedFrag(t)
  PROVE  [entry EXCEPT !.frags = [entry.frags EXCEPT ![k] = frag]] \in ActivePage(t)
<1>1. entry \in PageEntry /\ entry.frags \in Seq(DatedFrag(t)) /\ entry.free_time = None
  BY DEF ActivePage
<1>2. [entry.frags EXCEPT ![k] = frag] \in Seq(DatedFrag(t))
  BY <1>1, SeqFacts
<1>3. [entry.frags EXCEPT ![k] = frag] \in Seq(Entry)
  BY <1>2, SeqFacts DEF DatedFrag
<1> QED
  BY <1>1, <1>2, <1>3 DEF ActivePage, PageEntry
-----------------------------------------------------------------------------

(* The napi_alloc_frag branch preserves the invariant.                     *)
LEMMA StepAllocFrag ==
  ASSUME IInv, NEW t \in Nat, now <= t, NEW ptr \in Ptr, NEW page \in Page, NEW location \in Loc,
         AllocFrag(t, page, ptr, location)
  PROVE  IInv'
<1>0. now' = t /\ failure = "none"
  BY DEF AllocFrag, Take
<1>1. CASE Raise("assert_81")
  BY <1>0, <1>1, Ignored DEF Raise, Failure
<1>2. CASE Continue
  BY <1>0, <1>2, Ignored DEF Continue, Silent, Appends, Failure
<1>3. CASE /\ page \notin DOMAIN freed_pages
           /\ page \in DOMAIN active_pages
           /\ active_pages' = [active_pages EXCEPT ![page].frags =
                                 Append(@, NewEntry(t, ptr, location))]
           /\ Silent
           /\ UNCHANGED <<active_skb_ptrs, skb_order, freed_skb_ptrs, freed_pages,
                          consume_skb_locations>>
  <2> DEFINE old == active_pages[page]
             new == [old EXCEPT !.frags = Append(@, NewEntry(t, ptr, location))]
  <2>1. Pages(t)
    BY AtEvent
  <2>2. old \in ActivePage(t)
    BY <1>3, <2>1 DEF Pages, IsDict
  <2>3. Append(old.frags, NewEntry(t, ptr, location)) \in Seq(DatedFrag(t))
    BY <2>2, NewEntryDated, SeqFacts DEF ActivePage
  <2>4. new \in ActivePage(t)
    BY <2>2, <2>3, SeqFacts, Zenon DEF ActivePage, PageEntry, DatedFrag
  <2>5. active_pages' = [active_pages EXCEPT ![page] = new]
    BY <1>3
  <2> HIDE DEF old, new
  <2>6. IsDict(active_pages', Page, ActivePage(t)) /\ DOMAIN active_pages' = DOMAIN active_pages
    <3>1. IsDict(active_pages, Page, ActivePage(t)) /\ page \in DOMAIN active_pages
      BY <1>3, <2>1 DEF Pages
    <3>2. /\ IsDict([active_pages EXCEPT ![page] = new], Page, ActivePage(t))
          /\ DOMAIN [active_pages EXCEPT ![page] = new] = DOMAIN active_pages
      BY <2>4, <3>1, UpdateIsDict
    <3> QED
      BY <2>5, <3>2
  <2>7. Pages(now)'
    BY <1>0, <1>3, <2>1, <2>6 DEF Pages, IsDict
  <2> QED
    BY <1>0, <1>3, <2>7, HeadsKept, RestKept, NoRows DEF IInv, Silent, Appends, Failure
<1> QED
  BY <1>1, <1>2, <1>3 DEF AllocFrag

(* The mm_page_free branch preserves the invariant.                        *)
LEMMA StepMmPageFree ==
  ASSUME IInv, NEW t \in Nat, now <= t, NEW page \in Page, MmPageFree(t, page)
  PROVE  IInv'
<1>0. now' = t /\ failure = "none"
  BY DEF MmPageFree, Take
<1>1. CASE Continue
  BY <1>0, <1>1, Ignored DEF Continue, Silent, Appends, Failure
<1>2. CASE page \in DOMAIN active_pages /\ page \in DOMAIN freed_pages
  BY <1>2 DEF IInv, Pages
<1>3. CASE /\ page \in DOMAIN active_pages
           /\ active_pages' = Pop(active_pages, page)
           /\ freed_pages' =
                IF active_pages[page].frags = << >> THEN freed_pages
                ELSE Put(freed_pages, page, FreedPage(t, active_pages[page]))
           /\ Silent
           /\ UNCHANGED <<active_skb_ptrs, skb_order, freed_skb_ptrs, consume_skb_locations>>
  <2>1. Pages(t)
    BY AtEvent
  <2>2. active_pages[page] \in ActivePage(t)
    BY <1>3, <2>1 DEF Pages, IsDict
  <2>3. FreedPage(t, active_pages[page]) \in GonePage(t)
    BY <2>2, FreedPageDated
  <2>4. /\ IsDict(active_pages', Page, ActivePage(t))
        /\ DOMAIN active_pages' = DOMAIN active_pages \ {page}
    <3>1. IsDict(active_pages, Page, ActivePage(t))
      BY <2>1 DEF Pages
    <3>2. /\ IsDict(Pop(active_pages, page), Page, ActivePage(t))
          /\ DOMAIN Pop(active_pages, page) = DOMAIN active_pages \ {page}
      BY <3>1, PopIsDict
    <3> QED
      BY <1>3, <3>2
  <2>5. /\ IsDict(freed_pages', Page, GonePage(t))
        /\ DOMAIN freed_pages' \subseteq DOMAIN freed_pages \cup {page}
    <3>1. CASE active_pages[page].frags = << >>
      BY <1>3, <2>1, <3>1 DEF Pages
    <3>2. CASE active_pages[page].frags # << >>
      <4>1. IsDict(freed_pages, Page, GonePage(t))
        BY <2>1 DEF Pages
      <4>2. ASSUME NEW gone \in GonePage(t)
            PROVE  /\ IsDict(Put(freed_pages, page, gone), Page, GonePage(t))
                   /\ DOMAIN Put(freed_pages, page, gone) = DOMAIN freed_pages \cup {page}
        BY <4>1 DEF IsDict, Put
      <4>3. freed_pages' = Put(freed_pages, page, FreedPage(t, active_pages[page]))
        BY <1>3, <3>2
      <4> QED
        BY <2>3, <4>2, <4>3
    <3> QED
      BY <3>1, <3>2
  <2>6. Pages(now)'
    BY <1>0, <2>1, <2>4, <2>5 DEF Pages, IsDict
  <2> QED
    BY <1>0, <1>3, <2>6, HeadsKept, RestKept, NoRows DEF IInv, Silent, Appends, Failure
<1> QED
  BY <1>1, <1>2, <1>3 DEF MmPageFree, ActiveAfterFree

(* The consume_skb branch preserves the invariant.                         *)
LEMMA StepConsumeSkb ==
  ASSUME IInv, NEW t \in Nat, now <= t, NEW skb \in Skb, NEW location \in Loc,
         ConsumeSkb(t, skb, location)
  PROVE  IInv'
<1>0. now' = t /\ failure = "none" /\ failure' = failure /\ rows' = << >>
  BY Zenon DEF ConsumeSkb, Take, Appends
<1>1. IsDict(consume_skb_locations', Skb, Loc)
  BY PutIsDict, Zenon DEF IInv, Rest, ConsumeSkb, LocationsWith
<1>2. Rest'
  BY <1>0, <1>1, Zenon DEF IInv, Rest, ConsumeSkb, IsDict, Failure
<1>3. Heads(now)' /\ Pages(now)'
  BY <1>0, HeadsKept, PagesKept, Zenon DEF ConsumeSkb
<1> QED
  BY <1>0, <1>2, <1>3, NoRows DEF IInv

(* The skb_head_kmalloc branch preserves the invariant.                    *)
LEMMA StepSkbHeadKmalloc ==
  ASSUME IInv, NEW t \in Nat, now <= t, NEW ptr \in Ptr, NEW location \in Loc,
         SkbHeadKmalloc(t, ptr, location)
  PROVE  IInv'
<1>0. now' = t /\ failure = "none"
  BY DEF SkbHeadKmalloc, Take
<1>1. CASE Raise("assert_157")
  BY <1>0, <1>1, Ignored DEF Raise, Failure
<1>2. CASE /\ active_skb_ptrs' = Put(active_skb_ptrs, ptr, NewEntry(t, ptr, location))
           /\ skb_order' = IF ptr \in DOMAIN active_skb_ptrs THEN skb_order
                           ELSE Append(skb_order, ptr)
           /\ freed_skb_ptrs' = FreedAfterKmalloc(ptr)
           /\ Silent
           /\ UNCHANGED <<active_pages, freed_pages, consume_skb_locations>>
  <2> DEFINE new == NewEntry(t, ptr, location)
  <2>1. IsDict(active_skb_ptrs, Ptr, ActiveHead(t)) /\ IsDict(freed_skb_ptrs, Ptr, FreedHead(t))
    BY AtEvent DEF Heads
  <2>2. new \in ActiveHead(t) /\ active_skb_ptrs' = Put(active_skb_ptrs, ptr, new)
    BY <1>2, NewEntryDated
  <2> HIDE DEF new
  <2>3. IsDict(Put(active_skb_ptrs, ptr, new), Ptr, ActiveHead(t))
    BY <2>1, <2>2, PutIsDict, Zenon
  <2>4. Heads(now)'
    BY <1>0, <1>2, <2>1, <2>2, <2>3 DEF Heads, FreedAfterKmalloc
  <2>5. skb_order' \in Seq(Ptr)
    BY <1>2, SeqFacts DEF IInv, Rest
  <2>6. Rest'
    BY <1>0, <1>2, <2>5 DEF IInv, Rest, IsDict, Silent, Appends, Failure
  <2> QED
    BY <1>0, <1>2, <2>4, <2>6, PagesKept, NoRows DEF IInv, Silent, Appends
<1> QED
  BY <1>1, <1>2 DEF SkbHeadKmalloc

(* The alloc_skb_with_frags branch preserves the invariant.                *)
LEMMA StepAllocSkbWithFrags ==
  ASSUME IInv, NEW t \in Nat, now <= t, NEW skb \in Skb, NEW location \in Loc,
         AllocSkbWithFrags(t, skb, location)
  PROVE  IInv'
<1>0. now' = t /\ failure = "none"
  BY DEF AllocSkbWithFrags, Take
<1>1. CASE Raise("KeyError_167")
  BY <1>0, <1>1, Ignored DEF Raise, Failure
<1>2. CASE Continue
  BY <1>0, <1>2, Ignored DEF Continue, Silent, Appends, Failure
<1>3. CASE /\ \E k \in Visited(skb) :
                active_skb_ptrs' =
                  [active_skb_ptrs EXCEPT ![skb_order[k]].alloc_func = location]
           /\ Silent
           /\ UNCHANGED <<skb_order, active_pages, freed_skb_ptrs, freed_pages,
                          consume_skb_locations>>
  <2>1. IsDict(active_skb_ptrs, Ptr, ActiveHead(t)) /\ IsDict(freed_skb_ptrs, Ptr, FreedHead(t))
    BY AtEvent DEF Heads
  <2>2. PICK p : active_skb_ptrs' = [active_skb_ptrs EXCEPT ![p].alloc_func = location]
    BY <1>3, Zenon
  <2>3. IsDict(active_skb_ptrs', Ptr, ActiveHead(t))
    <3>1. CASE p \in DOMAIN active_skb_ptrs
      <4> DEFINE new == [active_skb_ptrs[p] EXCEPT !.alloc_func = location]
      <4>1. active_skb_ptrs[p] \in ActiveHead(t)
        BY <2>1, <3>1 DEF IsDict
      <4>2. new \in ActiveHead(t)
        BY <4>1, Zenon DEF ActiveHead, Entry, Unfreed
      <4>3. active_skb_ptrs' = [active_skb_ptrs EXCEPT ![p] = new]
        BY <2>2
      <4> HIDE DEF new
      <4>4. IsDict([active_skb_ptrs EXCEPT ![p] = new], Ptr, ActiveHead(t))
        BY <2>1, <3>1, <4>2, UpdateIsDict
      <4> QED
        BY <4>3, <4>4
    <3>2. CASE p \notin DOMAIN active_skb_ptrs
      BY <2>1, <2>2, <3>2, Zenon DEF IsDict
    <3> QED
      BY <3>1, <3>2
  <2>4. Heads(now)'
    BY <1>0, <1>3, <2>1, <2>3 DEF Heads
  <2> QED
    BY <1>0, <1>3, <2>4, PagesKept, RestKept, NoRows DEF IInv, Silent, Appends, Failure
<1> QED
  BY <1>1, <1>2, <1>3 DEF AllocSkbWithFrags, WithAllocFunc

(* A head that is freed now is well dated.                                 *)
LEMMA FreedHeadDated ==
  ASSUME NEW t \in Nat, NEW entry \in ActiveHead(t), NEW func \in Loc \cup {"NOT FOUND"}
  PROVE  [entry EXCEPT !.free_time = t, !.free_func = func] \in FreedHead(t)
<1> DEFINE f == [entry EXCEPT !.free_time = t, !.free_func = func]
<1>1. entry \in Entry
  BY Zenon DEF ActiveHead
<1>2. f \in Entry
  BY <1>1, Zenon DEF Entry, Time
<1>3. /\ f.free_time = t /\ f.free_func = func
      /\ f.alloc_time = entry.alloc_time /\ f.data_write_time = entry.data_write_time
  BY <1>1, Zenon DEF Entry
<1> HIDE DEF f
<1>4. t # None /\ func # None
  BY NoneIsNone, Zenon
<1>5. Released(f)
  BY <1>3, <1>4, Zenon DEF Released
<1>6. f.alloc_time <= f.free_time /\ f.free_time <= t
  <2>1. entry.alloc_time <= t
    BY Zenon DEF ActiveHead
  <2> QED
    BY <1>3, <2>1, LeqReflexive, Zenon
<1>7. f.data_write_time # None =>
        f.alloc_time <= f.data_write_time /\ f.data_write_time <= f.free_time
  BY <1>3, Zenon DEF ActiveHead
<1>8. f \in FreedHead(t)
  BY <1>2, <1>5, <1>6, <1>7, Zenon DEF FreedHead
<1> QED
  BY <1>8, Zenon DEF f

(* The free function is a call site or NOT FOUND.                          *)
LEMMA FreeFuncType ==
  ASSUME IInv, NEW skb
  PROVE  FreeFunc(skb) \in Loc \cup {"NOT FOUND"}
BY Zenon DEF IInv, Rest, IsDict, FreeFunc

(* The skb_head_kfree branch preserves the invariant.                      *)
LEMMA StepSkbHeadKfree ==
  ASSUME IInv, NEW t \in Nat, now <= t, NEW skb \in Skb, NEW ptr \in Ptr,
         SkbHeadKfree(t, skb, ptr)
  PROVE  IInv'
<1>0. now' = t /\ failure = "none"
  BY Zenon DEF SkbHeadKfree, Take
<1>1. CASE Raise("assert_173")
  BY <1>0, <1>1, Ignored DEF Raise, Failure
<1>2. CASE Continue
  BY <1>0, <1>2, Ignored DEF Continue, Silent, Appends, Failure
<1>3. CASE /\ ptr \in DOMAIN active_skb_ptrs
           /\ freed_skb_ptrs' = Put(freed_skb_ptrs, ptr,
                [active_skb_ptrs[ptr] EXCEPT !.free_time = t, !.free_func = FreeFunc(skb)])
           /\ active_skb_ptrs' = Pop(active_skb_ptrs, ptr)
           /\ skb_order' = Without(skb_order, ptr)
           /\ consume_skb_locations' = LocationsWithout(skb)
           /\ Appends(<< >>)
           /\ UNCHANGED <<active_pages, freed_pages>>
  <2> DEFINE gone == [active_skb_ptrs[ptr] EXCEPT !.free_time = t, !.free_func = FreeFunc(skb)]
  <2>1. IsDict(active_skb_ptrs, Ptr, ActiveHead(t)) /\ IsDict(freed_skb_ptrs, Ptr, FreedHead(t))
    BY AtEvent DEF Heads
  <2>2. active_skb_ptrs[ptr] \in ActiveHead(t)
    BY <1>3, <2>1, SMTT(30) DEF IsDict
  <2>3. gone \in FreedHead(t) /\ freed_skb_ptrs' = Put(freed_skb_ptrs, ptr, gone)
    BY <1>3, <2>2, FreeFuncType, FreedHeadDated, Zenon
  <2> HIDE DEF gone
  <2>4. IsDict(Put(freed_skb_ptrs, ptr, gone), Ptr, FreedHead(t))
    BY <2>1, <2>3, PutIsDict, Zenon
  <2>5. IsDict(Pop(active_skb_ptrs, ptr), Ptr, ActiveHead(t))
    BY <2>1, PopIsDict, Zenon
  <2>6. Heads(now)'
    BY <1>0, <1>3, <2>3, <2>4, <2>5 DEF Heads
  <2>7. IsDict(consume_skb_locations', Skb, Loc)
    BY <1>3, PopIsDict, Zenon DEF IInv, Rest, LocationsWithout
  <2>8. skb_order' \in Seq(Ptr)
    BY <1>3, WithoutType DEF IInv, Rest
  <2>9. Rest'
    BY <1>0, <1>3, <2>7, <2>8 DEF Rest, Appends, Failure
  <2> QED
    BY <1>0, <1>3, <2>6, <2>9, PagesKept, NoRows DEF IInv, Appends
<1> QED
  BY <1>1, <1>2, <1>3, Zenon DEF SkbHeadKfree

(* A row computed from a freed head that was written to has its durations  *)
(* in order.                                                               *)
LEMMA StepKmalloc ==
  ASSUME IInv, NEW t \in Nat, now <= t, NEW ptr \in Ptr, Kmalloc(t, ptr)
  PROVE  IInv'
<1>0. now' = t /\ failure = "none"
  BY DEF Kmalloc, Take
<1>1. CASE Continue
  BY <1>0, <1>1, Ignored DEF Continue, Silent, Appends, Failure
<1>2. CASE Raise("KeyError_199")
  BY <1>0, <1>2, Ignored DEF Raise, Failure
<1>3. CASE /\ ptr \in DOMAIN freed_skb_ptrs
           /\ Complete(freed_skb_ptrs[ptr])
           /\ Appends(<<Row("kmalloc", ptr, freed_skb_ptrs[ptr], None, t, None)>>)
           /\ freed_skb_ptrs' = FreedAfterReuse(ptr)
           /\ UNCHANGED <<active_skb_ptrs, skb_order, active_pages, freed_pages,
                          consume_skb_locations>>
  <2> DEFINE e == freed_skb_ptrs[ptr]
  <2>1. IsDict(active_skb_ptrs, Ptr, ActiveHead(t)) /\ IsDict(freed_skb_ptrs, Ptr, FreedHead(t))
    BY AtEvent DEF Heads
  <2>2. IsDict(Pop(freed_skb_ptrs, ptr), Ptr, FreedHead(t))
    BY <2>1, PopIsDict, Zenon
  <2>3. Heads(now)'
    BY <1>0, <1>3, <2>1, <2>2 DEF Heads, FreedAfterReuse
  <2>4. e \in FreedHead(t) /\ e.free_time # None /\ e.data_write_time # None
    BY <1>3, <2>1 DEF IsDict, Complete
  <2> HIDE DEF e
  <2>5. /\ e.alloc_time \in Nat /\ e.data_write_time \in Nat /\ e.free_time \in Nat
        /\ e.alloc_time <= e.data_write_time /\ e.data_write_time <= e.free_time
        /\ e.free_time <= t
    BY <2>4, EntryTimes DEF FreedHead
  <2>6. rows' = <<Row("kmalloc", ptr, e, None, t, None)>>
    BY <1>3 DEF Appends, e
  <2>7. DurationsOrdered'
    <3> DEFINE r == Row("kmalloc", ptr, e, None, t, None)
    <3>1. /\ r.type = "kmalloc" /\ r.use_time = e.free_time - e.alloc_time
          /\ r.free_time = t - e.free_time
          /\ r.real_use_time = e.free_time - e.data_write_time
      BY DEF Row, RealUseTime
    <3> HIDE DEF r
    <3>2. /\ r.use_time >= 0 /\ r.free_time >= 0
          /\ 0 <= r.real_use_time /\ r.real_use_time <= r.use_time
          /\ r.type # "frag"
      BY <2>5, <3>1
    <3>3. \A k \in DOMAIN rows' : rows'[k] = r
      BY <2>6, SMTT(30) DEF r
    <3> QED
      BY <3>2, <3>3 DEF DurationsOrdered
  <2> QED
    BY <1>0, <1>3, <2>3, <2>7, PagesKept, RestKept DEF IInv, Appends, Failure
<1> QED
  BY <1>1, <1>2, <1>3 DEF Kmalloc

(* The mm_page_alloc branch preserves the invariant.                       *)
LEMMA StepMmPageAlloc ==
  ASSUME IInv, NEW t \in Nat, now <= t, NEW page \in Page, MmPageAlloc(t, page)
  PROVE  IInv'
<1> DEFINE frags == IF page \in DOMAIN freed_pages THEN freed_pages[page].frags ELSE << >>
           fresh == [alloc_time |-> t, frags |-> << >>, free_time |-> None]
           pft == freed_pages[page].free_time
<1>0. now' = t /\ failure = "none"
  BY DEF MmPageAlloc, Take
<1>1. CASE Raise("assert_57")
  BY <1>0, <1>1, Ignored DEF Raise, Failure
<1>2. CASE Raise("KeyError_60_72")
  BY <1>0, <1>2, Ignored, SMTT(30) DEF Raise, Failure
<1>3. CASE /\ \A k \in DOMAIN frags : Complete(frags[k])
           /\ Appends([k \in DOMAIN frags |-> Row("frag", frags[k].ptr, frags[k], page, t, pft)])
           /\ freed_pages' = FreedAfterAlloc(page)
           /\ active_pages' = Put(active_pages, page, fresh)
           /\ UNCHANGED <<active_skb_ptrs, skb_order, freed_skb_ptrs, consume_skb_locations>>
  <2>1. Pages(t)
    BY AtEvent
  <2>2. fresh \in ActivePage(t)
    BY FreshPageDated
  <2>3. /\ IsDict(active_pages', Page, ActivePage(t))
        /\ DOMAIN active_pages' = DOMAIN active_pages \cup {page}
    <3>1. IsDict(active_pages, Page, ActivePage(t))
      BY <2>1 DEF Pages
    <3>2. ASSUME NEW e \in ActivePage(t)
          PROVE  /\ IsDict(Put(active_pages, page, e), Page, ActivePage(t))
                 /\ DOMAIN Put(active_pages, page, e) = DOMAIN active_pages \cup {page}
      BY <3>1 DEF IsDict, Put
    <3> QED
      BY <1>3, <2>2, <3>2, Zenon
  <2>4. /\ IsDict(freed_pages', Page, GonePage(t))
        /\ DOMAIN freed_pages' = DOMAIN freed_pages \ {page}
    <3>1. IsDict(freed_pages, Page, GonePage(t))
      BY <2>1 DEF Pages
    <3>2. /\ IsDict(Pop(freed_pages, page), Page, GonePage(t))
          /\ DOMAIN Pop(freed_pages, page) = DOMAIN freed_pages \ {page}
      BY <3>1, PopIsDict
    <3> QED
      BY <1>3, <3>2 DEF FreedAfterAlloc
  <2>5. Pages(now)'
    BY <1>0, <2>1, <2>3, <2>4 DEF Pages
  <2>6. DurationsOrdered'
    <3> SUFFICES ASSUME NEW k \in DOMAIN frags
                 PROVE  LET r == rows'[k] IN
                        /\ r.use_time >= 0 /\ r.free_time >= 0
                        /\ r.type = "frag" => 0 <= r.page_free_time /\ 0 <= r.none_page_free_time
                        /\ r.type = "kmalloc" => 0 <= r.real_use_time /\ r.real_use_time <= r.use_time
      BY <1>3, Zenon DEF DurationsOrdered, Appends
    <3> DEFINE e == frags[k]
               r == Row("frag", e.ptr, e, page, t, pft)
    <3>1. page \in DOMAIN freed_pages /\ frags = freed_pages[page].frags
      OBVIOUS
    <3>2. freed_pages[page] \in GonePage(t)
      BY <2>1, <3>1 DEF Pages, IsDict
    <3>3. pft \in Nat /\ pft <= t /\ pft # None /\ frags \in Seq(DatedFrag(pft))
      BY <3>1, <3>2 DEF GonePage, PageEntry, Time
    <3> HIDE DEF frags, pft
    <3>4. e \in DatedFrag(pft) /\ e.free_time # None
      BY <1>3, <3>3 DEF Complete
    <3> HIDE DEF e
    <3>5. /\ e.alloc_time \in Nat /\ e.free_time \in Nat
          /\ e.alloc_time <= e.free_time /\ e.free_time <= pft
      BY <3>4, EntryTimes DEF DatedFrag
    <3>6. /\ r.type = "frag" /\ r.use_time = e.free_time - e.alloc_time
          /\ r.free_time = t - e.free_time
          /\ r.page_free_time = t - pft
          /\ r.none_page_free_time = (t - e.free_time) - (t - pft)
      BY <3>3, Zenon DEF Row
    <3>7. rows'[k] = r
      BY <1>3 DEF Appends, e
    <3> HIDE DEF r
    <3> QED
      BY <3>3, <3>5, <3>6, <3>7, SMTT(30)
  <2> QED
    BY <1>0, <1>3, <2>5, <2>6, HeadsKept, RestKept DEF IInv, Appends, Failure
<1> QED
  BY <1>1, <1>2, <1>3, SMTT(30) DEF MmPageAlloc

(* Recording a write to a head keeps it well dated.                        *)
LEMMA WrittenHeadDated ==
  ASSUME NEW t \in Nat, NEW entry \in ActiveHead(t), NEW skb \in Skb
  PROVE  [entry EXCEPT !.data_write_time = t, !.skb_ptr = skb] \in ActiveHead(t)
<1> DEFINE f == [entry EXCEPT !.data_write_time = t, !.skb_ptr = skb]
<1>1. entry \in Entry /\ Unfreed(entry) /\ entry.alloc_time <= t
  BY DEF ActiveHead
<1>2. f \in Entry
  BY <1>1, Zenon DEF Entry, Time
<1>3. /\ f.data_write_time = t /\ f.alloc_time = entry.alloc_time
      /\ f.free_time = entry.free_time /\ f.free_func = entry.free_func
  BY <1>1, Zenon DEF Entry
<1> HIDE DEF f
<1>4. f \in ActiveHead(t)
  BY <1>1, <1>2, <1>3, LeqReflexive, Zenon DEF ActiveHead, Unfreed
<1> QED
  BY <1>4 DEF f

(* Recording a write to, or the release of, a fragment keeps it well dated.*)
LEMMA WrittenFragDated ==
  ASSUME NEW t \in Nat, NEW frag \in DatedFrag(t), NEW skb \in Skb
  PROVE  [frag EXCEPT !.data_write_time = t, !.skb_ptr = skb] \in DatedFrag(t)
BY Zenon DEF DatedFrag, Entry, Time

(* A fragment stays dated when it is freed.                                *)
LEMMA FreedFragDated ==
  ASSUME NEW t \in Nat, NEW frag \in DatedFrag(t), NEW func \in Loc \cup {"NOT FOUND"}
  PROVE  [frag EXCEPT !.free_time = t, !.free_func = func] \in DatedFrag(t)
<1> DEFINE f == [frag EXCEPT !.free_time = t, !.free_func = func]
<1>1. frag \in Entry
  BY Zenon DEF DatedFrag
<1>2. f \in Entry
  BY <1>1, Zenon DEF Entry, Time
<1>3. f.free_time = t /\ f.alloc_time = frag.alloc_time
  BY <1>1, Zenon DEF Entry
<1>4. frag.alloc_time <= t
  BY Zenon DEF DatedFrag
<1> HIDE DEF f
<1>5. f \in DatedFrag(t)
  BY <1>2, <1>3, <1>4, LeqReflexive, Zenon DEF DatedFrag
<1> QED
  BY <1>5, Zenon DEF f

(* Replacing a fragment of an active page keeps all pages well dated.      *)
LEMMA PagesAfterUpdate ==
  ASSUME NEW t \in Nat, Pages(t), now' = t, NEW page \in DOMAIN active_pages,
         NEW k \in DOMAIN active_pages[page].frags, NEW frag \in DatedFrag(t),
         active_pages' = [active_pages EXCEPT ![page] =
           [active_pages[page] EXCEPT !.frags = [active_pages[page].frags EXCEPT ![k] = frag]]],
         freed_pages' = freed_pages
  PROVE  Pages(now)'
<1> DEFINE new == [active_pages[page] EXCEPT !.frags =
                     [active_pages[page].frags EXCEPT ![k] = frag]]
<1>1. IsDict(active_pages, Page, ActivePage(t))
  BY DEF Pages
<1>2. active_pages[page] \in ActivePage(t)
  BY <1>1 DEF IsDict
<1>3. new \in ActivePage(t)
  BY <1>2, FragUpdate
<1>4. active_pages' = [active_pages EXCEPT ![page] = new]
  OBVIOUS
<1> HIDE DEF new
<1>5. /\ IsDict([active_pages EXCEPT ![page] = new], Page, ActivePage(t))
      /\ DOMAIN [active_pages EXCEPT ![page] = new] = DOMAIN active_pages
  BY <1>1, <1>3, UpdateIsDict, Zenon
<1> QED
  BY <1>4, <1>5, Zenon DEF Pages

(* The finalize_skb_around branch preserves the invariant.                 *)
LEMMA StepFinalizeSkbAround ==
  ASSUME IInv, NEW t \in Nat, now <= t, NEW skb \in Skb, NEW ptr \in Ptr,
         FinalizeSkbAround(t, skb, ptr)
  PROVE  IInv'
<1>0. now' = t /\ failure = "none"
  BY DEF FinalizeSkbAround, Take
<1>1. CASE \E page \in PagesWith(ptr) : page \in DOMAIN freed_pages
  BY <1>1 DEF IInv, Pages, PagesWith
<1>2. ASSUME NEW page \in PagesWith(ptr), NEW k \in DOMAIN active_pages[page].frags,
             active_pages' = [active_pages EXCEPT
               ![page].frags[k].data_write_time = t, ![page].frags[k].skb_ptr = skb],
             Silent,
             UNCHANGED <<active_skb_ptrs, skb_order, freed_skb_ptrs, freed_pages,
                         consume_skb_locations>>
      PROVE  IInv'
  <2> DEFINE frag == active_pages[page].frags[k]
             new == [frag EXCEPT !.data_write_time = t, !.skb_ptr = skb]
  <2>1. Pages(t) /\ page \in DOMAIN active_pages
    BY AtEvent, <1>2 DEF PagesWith
  <2>2. active_pages[page].frags \in Seq(DatedFrag(t))
    BY <1>2, <2>1 DEF Pages, IsDict, ActivePage
  <2>4. frag \in DatedFrag(t)
    BY <2>2, SMTT(30)
  <2>5. new \in DatedFrag(t)
    BY <2>4, WrittenFragDated, Zenon
  <2>6. active_pages[page] \in PageEntry /\ frag \in Entry
    BY <2>1, <2>4, Zenon DEF Pages, IsDict, ActivePage, DatedFrag
  <2>7. active_pages' = [active_pages EXCEPT ![page] =
          [active_pages[page] EXCEPT !.frags = [active_pages[page].frags EXCEPT ![k] = new]]]
    BY <1>2, <2>1, <2>6, Zenon DEF PageEntry, Entry
  <2> HIDE DEF new
  <2>8. Pages(now)'
    <3>1. now' = t /\ freed_pages' = freed_pages
      BY <1>0, <1>2
    <3> QED
      BY <2>1, <2>5, <2>7, <3>1, PagesAfterUpdate, Zenon
  <2> QED
    BY <1>0, <1>2, <2>8, HeadsKept, RestKept, NoRows DEF IInv, Silent, Appends, Failure
<1>3. CASE Continue
  BY <1>0, <1>3, Ignored DEF Continue, Silent, Appends, Failure
<1>4. CASE /\ ptr \in DOMAIN active_skb_ptrs
           /\ active_skb_ptrs' = [active_skb_ptrs EXCEPT
                ![ptr].data_write_time = t, ![ptr].skb_ptr = skb]
           /\ Silent
           /\ UNCHANGED <<skb_order, active_pages, freed_skb_ptrs, freed_pages,
                          consume_skb_locations>>
  <2> DEFINE new == [active_skb_ptrs[ptr] EXCEPT !.data_write_time = t, !.skb_ptr = skb]
  <2>1. IsDict(active_skb_ptrs, Ptr, ActiveHead(t)) /\ IsDict(freed_skb_ptrs, Ptr, FreedHead(t))
    BY AtEvent DEF Heads
  <2>2. active_skb_ptrs[ptr] \in ActiveHead(t)
    BY <1>4, <2>1 DEF IsDict
  <2>3. new \in ActiveHead(t)
    BY <2>2, WrittenHeadDated, Zenon
  <2>4. active_skb_ptrs' = [active_skb_ptrs EXCEPT ![ptr] = new]
    BY <1>4, Zenon
  <2> HIDE DEF new
  <2>5. IsDict([active_skb_ptrs EXCEPT ![ptr] = new], Ptr, ActiveHead(t))
    BY <1>4, <2>1, <2>3, UpdateIsDict, Zenon
  <2>6. Heads(now)'
    BY <1>0, <1>4, <2>1, <2>4, <2>5, Zenon DEF Heads
  <2> QED
    BY <1>0, <1>4, <2>6, PagesKept, RestKept, NoRows DEF IInv, Silent, Appends, Failure
<1> QED
  BY <1>1, <1>2, <1>3, <1>4, Zenon DEF FinalizeSkbAround

(* The skb_head_frag_free branch preserves the invariant.                  *)
LEMMA StepSkbHeadFragFree ==
  ASSUME IInv, NEW t \in Nat, now <= t, NEW skb \in Skb, NEW ptr \in Ptr, NEW page \in Page,
         SkbHeadFragFree(t, page, skb, ptr)
  PROVE  IInv'
<1>0. now' = t /\ failure = "none"
  BY Zenon DEF SkbHeadFragFree, Take
<1>1. CASE Raise("assert_122")
  BY <1>0, <1>1, Ignored DEF Raise, Failure
<1>2. IsDict(LocationsWithout(skb), Skb, Loc)
  BY PopIsDict, Zenon DEF IInv, Rest, LocationsWithout
<1>3. CASE /\ consume_skb_locations' = LocationsWithout(skb)
           /\ Appends(<< >>)
           /\ UNCHANGED <<active_skb_ptrs, skb_order, active_pages, freed_skb_ptrs, freed_pages>>
  <2>1. Rest'
    BY <1>0, <1>2, <1>3 DEF IInv, Rest, Appends, Failure
  <2> QED
    BY <1>0, <1>3, <2>1, HeadsKept, PagesKept, NoRows DEF IInv, Appends
<1>4. ASSUME page \in DOMAIN active_pages, NEW k \in DOMAIN active_pages[page].frags,
             active_pages' = [active_pages EXCEPT
               ![page].frags[k].free_time = t, ![page].frags[k].free_func = FreeFunc(skb)],
             consume_skb_locations' = LocationsWithout(skb),
             Appends(<< >>),
             UNCHANGED <<active_skb_ptrs, skb_order, freed_skb_ptrs, freed_pages>>
      PROVE  IInv'
  <2> DEFINE frag == active_pages[page].frags[k]
             new == [frag EXCEPT !.free_time = t, !.free_func = FreeFunc(skb)]
  <2>1. Pages(t)
    BY AtEvent
  <2>2. active_pages[page].frags \in Seq(DatedFrag(t))
    BY <1>4, <2>1 DEF Pages, IsDict, ActivePage
  <2>4. frag \in DatedFrag(t)
    BY <2>2, SMTT(30)
  <2>5. new \in DatedFrag(t)
    <3> HIDE DEF frag
    <3> QED
      BY <2>4, FreeFuncType, FreedFragDated, Zenon
  <2>6. active_pages[page] \in PageEntry /\ frag \in Entry
    BY <1>4, <2>1, <2>4, Zenon DEF Pages, IsDict, ActivePage, DatedFrag
  <2>7. active_pages' = [active_pages EXCEPT ![page] =
          [active_pages[page] EXCEPT !.frags = [active_pages[page].frags EXCEPT ![k] = new]]]
    BY <1>4, <2>1, <2>6, Zenon DEF PageEntry, Entry
  <2> HIDE DEF new
  <2>8. Pages(now)'
    <3>1. now' = t /\ freed_pages' = freed_pages /\ page \in DOMAIN active_pages
      BY <1>0, <1>4
    <3> QED
      BY <2>1, <2>5, <2>7, <3>1, PagesAfterUpdate, Zenon
  <2>9. Rest'
    BY <1>0, <1>2, <1>4 DEF IInv, Rest, Appends, Failure
  <2> QED
    BY <1>0, <1>4, <2>8, <2>9, HeadsKept, NoRows DEF IInv, Appends
<1> QED
  BY <1>1, <1>3, <1>4, Zenon DEF SkbHeadFragFree, Silent
-----------------------------------------------------------------------------

(* The invariant holds before the first event.                             *)
LEMMA InitIInv == Init => IInv
BY DEF Init, IInv, Heads, Pages, Rest, DurationsOrdered, IsDict, EmptyDict, Failure

(* Every event preserves the invariant.                                    *)
LEMMA NextIInv == IInv /\ [Next]_vars => IInv'
<1> SUFFICES ASSUME IInv, [Next]_vars PROVE IInv'
  OBVIOUS
<1>1. CASE Next
  <2>1. PICK t \in now .. MaxTime :
          \/ \E page \in Page : MmPageAlloc(t, page)
          \/ \E page \in Page : MmPageFree(t, page)
          \/ \E ptr \in Ptr, location \in Loc : AllocFrag(t, PageOf[ptr], ptr, location)
          \/ \E skb \in Skb, ptr \in Ptr : FinalizeSkbAround(t, skb, ptr)
          \/ \E skb \in Skb, ptr \in Ptr : SkbHeadFragFree(t, PageOf[ptr], skb, ptr)
          \/ \E ptr \in Ptr, location \in Loc : SkbHeadKmalloc(t, ptr, location)
          \/ \E skb \in Skb, location \in Loc : AllocSkbWithFrags(t, skb, location)
          \/ \E skb \in Skb, ptr \in Ptr : SkbHeadKfree(t, skb, ptr)
          \/ \E ptr \in Ptr : Kmalloc(t, ptr)
          \/ \E skb \in Skb, location \in Loc : ConsumeSkb(t, skb, location)
    BY <1>1, Zenon DEF Next
  <2>2. t \in Nat /\ now <= t
    BY BoundsAssumption DEF IInv
  <2>3. \A ptr \in Ptr : PageOf[ptr] \in Page
    BY PageOfAssumption
  <2> QED
    BY <2>1, <2>2, <2>3, StepMmPageAlloc, StepMmPageFree, StepAllocFrag,
       StepFinalizeSkbAround, StepSkbHeadFragFree, StepSkbHeadKmalloc,
       StepAllocSkbWithFrags, StepSkbHeadKfree, StepKmalloc, StepConsumeSkb
<1>2. CASE UNCHANGED vars
  BY <1>2 DEF vars, dicts, IInv, Heads, Pages, Rest, DurationsOrdered, IsDict
<1> QED
  BY <1>1, <1>2

(* The invariant holds for every trace. *)
THEOREM Invariance == Spec => []IInv
BY InitIInv, NextIInv, PTL DEF Spec

(* Type correctness: in particular an entry among the freed heads always   *)
(* has the time and the function of its release, so that of the keys a row *)
(* needs only data_write_time can be missing.                              *)
THEOREM TypeCorrect == Spec => []TypeOK
<1>1. IInv => TypeOK
  <2> SUFFICES ASSUME IInv PROVE TypeOK
    OBVIOUS
  <2>1. ActiveHead(now) \subseteq {e \in Entry : Unfreed(e)}
    BY DEF ActiveHead
  <2>2. FreedHead(now) \subseteq {e \in Entry : Released(e)}
    BY DEF FreedHead
  <2>3. ActivePage(now) \subseteq {e \in PageEntry : e.free_time = None}
    BY DEF ActivePage
  <2>4. GonePage(now) \subseteq {e \in PageEntry : e.free_time # None}
    BY DEF GonePage
  <2>5. IsDict(active_skb_ptrs, Ptr, {e \in Entry : Unfreed(e)})
    BY <2>1, DictWeaken DEF IInv, Heads
  <2>6. IsDict(freed_skb_ptrs, Ptr, {e \in Entry : Released(e)})
    BY <2>2, DictWeaken DEF IInv, Heads
  <2>7. IsDict(active_pages, Page, {e \in PageEntry : e.free_time = None})
    BY <2>3, DictWeaken DEF IInv, Pages
  <2>8. IsDict(freed_pages, Page, {e \in PageEntry : e.free_time # None})
    BY <2>4, DictWeaken DEF IInv, Pages
  <2> QED
    BY <2>5, <2>6, <2>7, <2>8 DEF IInv, Rest, TypeOK, Time
<1> QED
  BY <1>1, Invariance, PTL

(* The assertions at lines 103 and 152 of analyze_trace.py hold for every  *)
(* trace, because a page is never active and freed at the same time.       *)
THEOREM PageAssertions == Spec => []PageAssertionsHold
<1>1. IInv => PageAssertionsHold
  BY DEF IInv, Rest, PageAssertionsHold
<1> QED
  BY <1>1, Invariance, PTL

(* No duration of the table is negative, for every trace whose timestamps  *)
(* do not decrease.                                                        *)
THEOREM Durations == Spec => []DurationsOrdered
<1>1. IInv => DurationsOrdered
  BY DEF IInv
<1> QED
  BY <1>1, Invariance, PTL

(* A freed head or page is forgotten only in the step that reports it, for *)
(* every trace.                                                            *)
THEOREM Kept == Spec => KeptUntilReported
<1> DEFINE HeadsReported ==
             \A ptr \in DOMAIN freed_skb_ptrs \ DOMAIN freed_skb_ptrs' : ReportedAt(ptr)
           PagesReported ==
             \A page \in DOMAIN freed_pages \ DOMAIN freed_pages' :
               \A k \in DOMAIN freed_pages[page].frags :
                 ReportedAt(freed_pages[page].frags[k].ptr)
<1>1. ASSUME [Next]_vars PROVE HeadsReported /\ PagesReported
  <2>1. ASSUME NEW t, NEW ptr, Kmalloc(t, ptr)
        PROVE  HeadsReported /\ PagesReported
    <3>1. CASE UNCHANGED dicts
      BY <3>1 DEF dicts
    <3>2. CASE /\ rows' = <<Row("kmalloc", ptr, freed_skb_ptrs[ptr], None, t, None)>>
               /\ freed_skb_ptrs' = Pop(freed_skb_ptrs, ptr)
               /\ freed_pages' = freed_pages
      <4>1. rows'[1].ptr = ptr /\ 1 \in DOMAIN rows'
        BY <3>2 DEF Row
      <4>2. DOMAIN freed_skb_ptrs' = DOMAIN freed_skb_ptrs \ {ptr}
        BY <3>2, SMTT(30) DEF Pop
      <4> QED
        BY <3>2, <4>1, <4>2 DEF ReportedAt
    <3> QED
      BY <2>1, <3>1, <3>2 DEF Kmalloc, Continue, Raise, Appends, FreedAfterReuse
  <2>2. ASSUME NEW t, NEW page, MmPageAlloc(t, page)
        PROVE  HeadsReported /\ PagesReported
    <3> DEFINE frags == freed_pages[page].frags
    <3>1. CASE UNCHANGED dicts
      BY <3>1 DEF dicts
    <3>2. CASE /\ page \in DOMAIN freed_pages
               /\ rows' = [k \in DOMAIN frags |->
                             Row("frag", frags[k].ptr, frags[k], page, t,
                                 freed_pages[page].free_time)]
               /\ freed_pages' = Pop(freed_pages, page)
               /\ freed_skb_ptrs' = freed_skb_ptrs
      <4>1. ASSUME NEW k \in DOMAIN frags PROVE ReportedAt(frags[k].ptr)
        <5>1. k \in DOMAIN rows' /\ rows'[k].ptr = frags[k].ptr
          BY <3>2 DEF Row
        <5> QED
          BY <5>1, SMTT(30) DEF ReportedAt
      <4>2. DOMAIN freed_pages' = DOMAIN freed_pages \ {page}
        BY <3>2 DEF Pop
      <4> QED
        BY <3>2, <4>1, <4>2
    <3>3. CASE /\ page \notin DOMAIN freed_pages
               /\ freed_pages' = Pop(freed_pages, page)
               /\ freed_skb_ptrs' = freed_skb_ptrs
      BY <3>3 DEF Pop
    <3> QED
      BY <2>2, <3>1, <3>2, <3>3, SMTT(30) DEF MmPageAlloc, Raise, Appends, FreedAfterAlloc
  <2>3. ASSUME NEW t, NEW page, MmPageFree(t, page)
        PROVE  HeadsReported /\ PagesReported
    BY <2>3 DEF MmPageFree, ActiveAfterFree, Continue, Raise, dicts, Put
  <2>4. ASSUME NEW t, NEW skb, NEW ptr, SkbHeadKfree(t, skb, ptr)
        PROVE  HeadsReported /\ PagesReported
    BY <2>4, Zenon DEF SkbHeadKfree, Continue, Raise, dicts, Put
  <2>5. CASE UNCHANGED <<freed_skb_ptrs, freed_pages>>
    BY <2>5
  <2> HIDE DEF HeadsReported, PagesReported
  <2>6. CASE UNCHANGED vars
    BY <2>5, <2>6 DEF vars, dicts
  <2>7. CASE Next
    <3>1. PICK t \in now .. MaxTime :
            \/ \E page \in Page : MmPageAlloc(t, page)
            \/ \E page \in Page : MmPageFree(t, page)
            \/ \E skb \in Skb, ptr \in Ptr : SkbHeadKfree(t, skb, ptr)
            \/ \E ptr \in Ptr : Kmalloc(t, ptr)
            \/ \E page, ptr, location : AllocFrag(t, page, ptr, location)
            \/ \E skb, ptr : FinalizeSkbAround(t, skb, ptr)
            \/ \E page, skb, ptr : SkbHeadFragFree(t, page, skb, ptr)
            \/ \E ptr, location : SkbHeadKmalloc(t, ptr, location)
            \/ \E skb, location : AllocSkbWithFrags(t, skb, location)
            \/ \E skb, location : ConsumeSkb(t, skb, location)
      BY <2>7, Zenon DEF Next
    <3>2. ASSUME NEW page, NEW ptr, NEW location, AllocFrag(t, page, ptr, location)
          PROVE  UNCHANGED <<freed_skb_ptrs, freed_pages>>
      BY <3>2 DEF AllocFrag, Raise, Continue, dicts
    <3>3. ASSUME NEW skb, NEW ptr, FinalizeSkbAround(t, skb, ptr)
          PROVE  UNCHANGED <<freed_skb_ptrs, freed_pages>>
      BY <3>3, Zenon DEF FinalizeSkbAround, Raise, Continue, dicts
    <3>4. ASSUME NEW page, NEW skb, NEW ptr, SkbHeadFragFree(t, page, skb, ptr)
          PROVE  UNCHANGED <<freed_skb_ptrs, freed_pages>>
      BY <3>4, Zenon DEF SkbHeadFragFree, Raise, dicts
    <3>5. ASSUME NEW ptr, NEW location, SkbHeadKmalloc(t, ptr, location)
          PROVE  UNCHANGED <<freed_skb_ptrs, freed_pages>>
      BY <3>5 DEF SkbHeadKmalloc, FreedAfterKmalloc, Raise, dicts
    <3>6. ASSUME NEW skb, NEW location, AllocSkbWithFrags(t, skb, location)
          PROVE  UNCHANGED <<freed_skb_ptrs, freed_pages>>
      BY <3>6, Zenon DEF AllocSkbWithFrags, Raise, Continue, dicts
    <3>7. ASSUME NEW skb, NEW location, ConsumeSkb(t, skb, location)
          PROVE  UNCHANGED <<freed_skb_ptrs, freed_pages>>
      BY <3>7, Zenon DEF ConsumeSkb
    <3> QED
      BY <2>1, <2>2, <2>3, <2>4, <2>5, <3>1, <3>2, <3>3, <3>4, <3>5, <3>6, <3>7
  <2> QED
    BY <1>1, <2>6, <2>7, SMTT(30)
<1> QED
  BY <1>1, PTL DEF Spec, KeptUntilReported
=============================================================================
