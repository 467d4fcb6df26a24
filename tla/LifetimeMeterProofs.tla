------------------------ MODULE LifetimeMeterProofs -------------------------
(***************************************************************************)
(* The refinement of the ideal meter by the analyzer, for any kernel that  *)
(* is metered: each entry of the dicts stands for the lifetime its memory  *)
(* is in, so each event of the trace is a step of the meter, and the rows  *)
(* it adds are the lifetimes the meter reports.  LifetimeProofs has the    *)
(* events up to the release of a head.                                     *)
(***************************************************************************)
EXTENDS LifetimeProofs
(* A leaf that cites no prover is for Zenon.                               *)
USE Zenon

(* The meter sees the release.                                             *)
LEMMA FreeMoves ==
  ASSUME Lives, NEW ptr \in Ptr, NEW func \in Func, rows' = << >>,
         IF life[ptr].phase = "written" THEN Becomes(ptr, M!Freed(life[ptr], now', func))
         ELSE UNCHANGED life
  PROVE  Moves
<1>1. Report' = {} /\ DOMAIN rows' = {}
  BY SMTT(30) DEF Report
<1>2. CASE life[ptr].phase = "written"
  <2>1. M!Free(ptr, func)
    BY <1>1, <1>2 DEF M!Free, M!Step, Becomes
  <2> QED
    BY <2>1 DEF Moves
<1>3. CASE life[ptr].phase # "written"
  BY <1>1, <1>3, NoReport DEF Lives
<1> QED
  BY <1>2, <1>3

(* The sk_buffs and call sites of the other heads stay known.              *)
LEMMA ReleaseOthers ==
  ASSUME KernelInv, Good, Lives, NEW r \in Releases, IsLife',
         \A p \in Ptr \ {r.ptr} : life'[p] = life[p],
         \A skb \in Skb \ {r.skb} : head_of[skb] # r.ptr,
         UNCHANGED kernel, head_of' = [head_of EXCEPT ![r.skb] = None],
         Reserved' = Reserved, InSkb' = InSkb \ {r.ptr}, Releases' = Releases \ {r},
         \/ UNCHANGED consume_skb_locations
         \/ Popped(consume_skb_locations, consume_skb_locations', r.skb),
         r.ptr \notin DOMAIN active_skb_ptrs',
         \A h \in DOMAIN active_skb_ptrs' :
           h \in DOMAIN active_skb_ptrs /\ active_skb_ptrs'[h] = active_skb_ptrs[h]
  PROVE  Phases' /\ SkbsKnown' /\ SitesKnown'
<1>1. Reserved \cup InSkb \subseteq Ptr /\ r.ptr \notin Reserved
  BY ReleaseFacts, HeldMemory DEF Reserved, InSkb
<1>2. /\ r.skb \in Skb /\ head_of[r.skb] = r.ptr
      /\ \A q \in Releases \ {r} : q.skb # r.skb /\ q.ptr # r.ptr /\ q.ptr \in Ptr
  BY <1>1, ReleaseFacts, SMTT(30)
<1>3. Phases'
  BY <1>1 DEF Lives, Phases
<1>4. SitesKnown'
  BY <1>2, SMTT(30) DEF Lives, SitesKnown, Popped
<1>5. ASSUME NEW h \in DOMAIN active_skb_ptrs', "clones" \notin kernel.features,
             active_skb_ptrs[h].skb_ptr # None
      PROVE  head_of'[active_skb_ptrs[h].skb_ptr] = h
  <2>1. h \in DOMAIN active_skb_ptrs /\ h # r.ptr
    OBVIOUS
  <2>2. active_skb_ptrs[h].skb_ptr \in Skb
    BY <1>5, <2>1 DEF Good, Tables, HeadsTyped, A!IsDict, ActiveHead, A!Entry
  <2>3. head_of[active_skb_ptrs[h].skb_ptr] = h
    BY <1>5, <2>1 DEF Lives, SkbsKnown
  <2>4. head_of \in [Skb -> used \cup {None}]
    BY DEF KernelInv, MemoryConsistent
  <2> QED
    BY <1>2, <2>1, <2>2, <2>3, <2>4
<1>6. SkbsKnown'
  BY <1>5 DEF Lives, SkbsKnown
<1> QED
  BY <1>3, <1>4, <1>6

(* The call site of a release is the one the analyzer finds.               *)
LEMMA SiteFound ==
  ASSUME KernelInv, Lives, NEW r \in Releases, NEW e, life[r.ptr] = LifeOf(e, None)
  PROVE  A!FreeFunc(r.skb) = r.loc /\ life[r.ptr].phase = "written"
<1>1. life[r.ptr] # M!Unknown /\ life[r.ptr].phase # "unknown"
  BY LifePhases, SMTT(30)
<1>2. A!FreeFunc(r.skb) = r.loc
  BY <1>1 DEF Lives, SitesKnown, A!FreeFunc
<1>3. life[r.ptr].phase = "written"
  BY <1>1, ReleaseFacts DEF Lives, Phases
<1> QED
  BY <1>2, <1>3

(* skb_head_kfree                                                          *)
LEMMA KfreeMeters ==
  ASSUME KernelInv, Good, Lives, Metered, NEW t \in Nat, NEW r \in Releases, r.ptr \in Kmem,
         A!SkbHeadKfree(t, r.skb, r.ptr), failure' = "none",
         IF life[r.ptr].phase = "written" THEN Becomes(r.ptr, M!Freed(life[r.ptr], t, r.loc))
         ELSE UNCHANGED life,
         \A skb \in Skb \ {r.skb} : head_of[skb] # r.ptr,
         UNCHANGED kernel, head_of' = [head_of EXCEPT ![r.skb] = None],
         Reserved' = Reserved, InSkb' = InSkb \ {r.ptr}, Releases' = Releases \ {r}
  PROVE  Moves /\ Lives'
<1> DEFINE ptr == r.ptr
           skb == r.skb
           old == active_skb_ptrs[ptr]
           e == FreedAs(old, t, A!FreeFunc(skb))
<1>0. /\ ptr \in Ptr /\ ptr \notin Frag /\ skb \in Skb /\ ptr \in used /\ r.loc \in Func
      /\ ptr \in Kmem
  BY ReleaseFacts, HeldMemory, PtrAssumption DEF Ptr, Func
<1>1. /\ now' = t /\ rows' = << >> /\ ptr \notin DOMAIN freed_skb_ptrs
      /\ UNCHANGED <<active_pages, freed_pages>>
      /\ \/ /\ ptr \notin DOMAIN active_skb_ptrs
            /\ UNCHANGED A!dicts /\ printed' = {}
         \/ /\ ptr \in DOMAIN active_skb_ptrs
            /\ Popped(active_skb_ptrs, active_skb_ptrs', ptr)
            /\ Assigned(freed_skb_ptrs, freed_skb_ptrs', ptr, e)
            /\ Popped(consume_skb_locations, consume_skb_locations', skb)
            /\ printed' = A!NoLocation(skb, "not in consume locations")
  BY <1>0, SkbHeadKfreeEffect DEF Good
<1>2. Moves
  BY <1>0, <1>1, FreeMoves
<1>3. CASE ptr \notin DOMAIN active_skb_ptrs
  <2>1. UNCHANGED <<active_skb_ptrs, freed_skb_ptrs, consume_skb_locations>>
    BY <1>1, <1>3 DEF A!dicts
  <2>2. life[ptr] = M!Unknown
    BY <1>0, <1>3, NoEntry
  <2>3. UNCHANGED life
    BY <2>2, SMTT(30) DEF M!Unknown
  <2>4. HeadLives' /\ FragLives' /\ IsLife'
    BY <1>1, <2>1, <2>3, HeadLivesKept, FragLivesKept DEF Lives, IsLife
  <2>5. Phases' /\ SkbsKnown' /\ SitesKnown'
    BY <1>3, <2>1, <2>3, <2>4, ReleaseOthers
  <2> QED
    BY <1>2, <2>4, <2>5 DEF Lives
<1>4. CASE ptr \in DOMAIN active_skb_ptrs
  <2>1. /\ Popped(active_skb_ptrs, active_skb_ptrs', ptr)
        /\ Assigned(freed_skb_ptrs, freed_skb_ptrs', ptr, e)
        /\ Popped(consume_skb_locations, consume_skb_locations', skb)
    BY <1>1, <1>4
  <2>2. old \in A!Entry
    BY <1>4 DEF Good, Tables, HeadsTyped, A!IsDict, ActiveHead
  <2>3. life[ptr] = LifeOf(old, None)
    BY <1>0, <1>4 DEF Lives, HeadLives, HeadLife
  <2>4. A!FreeFunc(skb) = r.loc /\ life[ptr].phase = "written"
    BY <2>3, SiteFound
  <2>5. /\ IsLife' /\ life'[ptr] = M!Freed(life[ptr], t, r.loc)
        /\ \A p \in Ptr \ {ptr} : life'[p] = life[p]
    BY <1>0, <2>4, LifeStep DEF Lives
  <2>6. life'[ptr] = LifeOf(e, None)
    <3> HIDE DEF old
    <3> QED
      BY <2>2, <2>3, <2>4, <2>5, LifeOfFreed, SMTT(30)
  <2> HIDE DEF e
  <2>7. HeadLives'
    <3> SUFFICES ASSUME NEW h \in Kmem
                 PROVE  HeadLife(life'[h], h, active_skb_ptrs', freed_skb_ptrs')
      BY DEF HeadLives
    <3>1. CASE h = ptr
      BY <2>1, <2>6, <3>1 DEF HeadLife, Popped, Assigned
    <3>2. CASE h # ptr
      <4>1. HeadLife(life[h], h, active_skb_ptrs, freed_skb_ptrs) /\ life'[h] = life[h]
        BY <2>5, <3>2 DEF Lives, HeadLives, Ptr
      <4> QED
        BY <2>1, <3>2, <4>1 DEF HeadLife, Popped, Assigned
    <3> QED
      BY <3>1, <3>2
  <2>8. FragLives'
    BY <1>0, <1>1, <2>5, FragLivesKept DEF Lives, Ptr
  <2>9. Phases' /\ SkbsKnown' /\ SitesKnown'
    <3>1. /\ ptr \notin DOMAIN active_skb_ptrs'
          /\ \A h \in DOMAIN active_skb_ptrs' :
               h \in DOMAIN active_skb_ptrs /\ active_skb_ptrs'[h] = active_skb_ptrs[h]
      BY <2>1 DEF Popped
    <3> QED
      BY <2>1, <2>5, <3>1, ReleaseOthers
  <2> QED
    BY <1>2, <2>5, <2>7, <2>8, <2>9 DEF Lives
<1> QED
  BY <1>3, <1>4

(* skb_head_frag_free                                                      *)
LEMMA FragFreeMeters ==
  ASSUME KernelInv, Good, Lives, Metered, NEW t \in Nat, NEW r \in Releases, r.ptr \in Frag,
         A!SkbHeadFragFree(t, PageOf[r.ptr], r.skb, r.ptr), failure' = "none",
         IF life[r.ptr].phase = "written" THEN Becomes(r.ptr, M!Freed(life[r.ptr], t, r.loc))
         ELSE UNCHANGED life,
         \A skb \in Skb \ {r.skb} : head_of[skb] # r.ptr,
         UNCHANGED kernel, head_of' = [head_of EXCEPT ![r.skb] = None],
         Reserved' = Reserved, InSkb' = InSkb \ {r.ptr}, Releases' = Releases \ {r}
  PROVE  Moves /\ Lives'
<1> DEFINE ptr == r.ptr
           skb == r.skb
           page == PageOf[ptr]
<1>0. /\ ptr \in Ptr /\ ptr \in Frag /\ ptr \notin Kmem /\ skb \in Skb /\ ptr \in used
      /\ page \in Page /\ r.loc \in Func
  BY ReleaseFacts, HeldMemory, PtrAssumption DEF Ptr, Func
<1>1. /\ now' = t /\ rows' = << >>
      /\ UNCHANGED <<active_skb_ptrs, freed_skb_ptrs, freed_pages>>
      /\ Popped(consume_skb_locations, consume_skb_locations', skb)
      /\ \/ page \notin DOMAIN active_pages /\ UNCHANGED active_pages
         \/ /\ page \in DOMAIN active_pages
            /\ \A k \in DOMAIN active_pages[page].frags : active_pages[page].frags[k].ptr # ptr
            /\ UNCHANGED active_pages
         \/ /\ page \in DOMAIN active_pages
            /\ \E k \in DOMAIN active_pages[page].frags :
                 /\ active_pages[page].frags[k].ptr = ptr
                 /\ FragChanged(active_pages, active_pages', page, k,
                                FreedAs(active_pages[page].frags[k], t, A!FreeFunc(skb)))
  <2>1. /\ Tables' /\ now' = t /\ rows' = << >>
        /\ UNCHANGED <<active_skb_ptrs, skb_order, freed_skb_ptrs, freed_pages>>
        /\ Popped(consume_skb_locations, consume_skb_locations', skb)
        /\ \/ /\ page \notin DOMAIN active_pages
              /\ UNCHANGED active_pages /\ printed' = {}
           \/ /\ page \in DOMAIN active_pages
              /\ \A k \in DOMAIN active_pages[page].frags : active_pages[page].frags[k].ptr # ptr
              /\ UNCHANGED active_pages
           \/ /\ page \in DOMAIN active_pages
              /\ \E k \in DOMAIN active_pages[page].frags :
                   /\ active_pages[page].frags[k].ptr = ptr
                   /\ FragChanged(active_pages, active_pages', page, k,
                                  FreedAs(active_pages[page].frags[k], t, A!FreeFunc(skb)))
              /\ printed' = A!NoLocation(skb, "no consume location")
    <3> HIDE DEF ptr, skb, page
    <3>1. A!SkbHeadFragFree(t, page, skb, ptr)
      BY DEF ptr, skb, page
    <3> QED
      BY <1>0, <3>1, SkbHeadFragFreeEffect DEF Good
  <2> QED
    BY <2>1
<1>2. Moves
  BY <1>0, <1>1, FreeMoves
<1>3. ptr \notin DOMAIN active_skb_ptrs
  BY <1>0 DEF Good, HeadsInv
<1>4. FragLife(life[ptr], ptr, page, active_pages, freed_pages)
  BY <1>0 DEF Lives, FragLives
<1>5. ASSUME life[ptr] = M!Unknown, UNCHANGED active_pages PROVE Lives'
  <2>1. UNCHANGED life
    BY <1>5, SMTT(30) DEF M!Unknown
  <2>2. HeadLives' /\ FragLives' /\ IsLife'
    BY <1>1, <1>5, <2>1, HeadLivesKept, FragLivesKept DEF Lives, IsLife
  <2>3. Phases' /\ SkbsKnown' /\ SitesKnown'
    BY <1>1, <1>3, <2>1, <2>2, ReleaseOthers
  <2> QED
    BY <2>2, <2>3 DEF Lives
<1>6. CASE page \notin DOMAIN active_pages /\ UNCHANGED active_pages
  <2>1. life[ptr] = M!Unknown
    BY <1>0, <1>6, NoEntry
  <2> QED
    BY <1>2, <1>5, <1>6, <2>1
<1>7. CASE /\ page \in DOMAIN active_pages
           /\ \A k \in DOMAIN active_pages[page].frags : active_pages[page].frags[k].ptr # ptr
           /\ UNCHANGED active_pages
  <2>1. life[ptr] = M!Unknown
    BY <1>4, <1>7 DEF FragLife, LifeIn, HasFrag
  <2> QED
    BY <1>2, <1>5, <1>7, <2>1
<1>8. CASE /\ page \in DOMAIN active_pages
           /\ \E k \in DOMAIN active_pages[page].frags :
                 /\ active_pages[page].frags[k].ptr = ptr
                 /\ FragChanged(active_pages, active_pages', page, k,
                                FreedAs(active_pages[page].frags[k], t, A!FreeFunc(skb)))
  <2>0. PICK k \in DOMAIN active_pages[page].frags :
                 /\ active_pages[page].frags[k].ptr = ptr
                 /\ FragChanged(active_pages, active_pages', page, k,
                                FreedAs(active_pages[page].frags[k], t, A!FreeFunc(skb)))
    BY <1>8
  <2> DEFINE old == active_pages[page].frags[k]
             e == FreedAs(old, t, A!FreeFunc(skb))
  <2>1. old \in A!Entry
    BY <1>8, ActiveFrags, FragElement DEF Good
  <2>2. life[ptr] = LifeOf(old, None)
    <3>1. LifeIn(life[ptr], ptr, active_pages[page].frags, None)
      BY <1>4, <1>8 DEF FragLife
    <3> QED
      BY <2>0, <3>1 DEF LifeIn
  <2>3. FragChanged(active_pages, active_pages', page, k, e) /\ old.ptr = ptr
    BY <2>0
  <2>4. e.ptr = ptr
    BY <2>1, <2>3 DEF FreedAs, A!Entry
  <2>5. A!FreeFunc(skb) = r.loc /\ life[ptr].phase = "written"
    BY <2>2, SiteFound
  <2>6. /\ IsLife' /\ life'[ptr] = M!Freed(life[ptr], t, r.loc)
        /\ \A p \in Ptr \ {ptr} : life'[p] = life[p]
    BY <1>0, <2>5, LifeStep DEF Lives
  <2>7. life'[ptr] = LifeOf(e, None)
    <3> HIDE DEF old
    <3> QED
      BY <2>1, <2>2, <2>5, <2>6, LifeOfFreed, ZenonT(30)
  <2> HIDE DEF e
  <2>8. FragLives'
    <3>1. \A f \in Frag \ {e.ptr} : life'[f] = life[f]
      BY <2>4, <2>6 DEF Ptr
    <3>2. e.ptr = active_pages[page].frags[k].ptr /\ life'[e.ptr] = LifeOf(e, None)
      BY <2>3, <2>4, <2>7
    <3>3. page \in DOMAIN active_pages /\ UNCHANGED freed_pages
      BY <1>1, <1>8
    <3> HIDE DEF page, ptr, skb, old
    <3> QED
      BY <2>3, <3>1, <3>2, <3>3, FragLivesChanged DEF Lives
  <2>9. HeadLives'
    BY <1>0, <1>1, <2>6, HeadLivesKept DEF Lives, Ptr
  <2>10. Phases' /\ SkbsKnown' /\ SitesKnown'
    BY <1>1, <1>3, <2>6, ReleaseOthers
  <2> QED
    BY <1>2, <2>6, <2>8, <2>9, <2>10 DEF Lives
<1> QED
  BY <1>1, <1>6, <1>7, <1>8

(* The fragments of a page that has changed.                               *)
LEMMA PageLives ==
  ASSUME FragLives, NEW page,
         \A p \in DOMAIN active_pages \ {page} : active_pages'[p] = active_pages[p],
         \A p \in DOMAIN freed_pages \ {page} : freed_pages'[p] = freed_pages[p],
         DOMAIN active_pages' \ {page} = DOMAIN active_pages \ {page},
         DOMAIN freed_pages' \ {page} = DOMAIN freed_pages \ {page},
         \A f \in Frag \ FragsOf(page) : life'[f] = life[f],
         \A f \in FragsOf(page) : FragLife(life'[f], f, page, active_pages', freed_pages')
  PROVE  FragLives'
<1> SUFFICES ASSUME NEW f \in Frag
             PROVE  FragLife(life'[f], f, PageOf[f], active_pages', freed_pages')
  BY DEF FragLives
<1>1. CASE PageOf[f] = page
  BY <1>1 DEF FragsOf
<1>2. CASE PageOf[f] # page
  <2>1. FragLife(life[f], f, PageOf[f], active_pages, freed_pages) /\ life'[f] = life[f]
    BY <1>2 DEF FragLives, FragsOf
  <2>2. /\ PageOf[f] \in DOMAIN active_pages' <=> PageOf[f] \in DOMAIN active_pages
        /\ PageOf[f] \in DOMAIN freed_pages' <=> PageOf[f] \in DOMAIN freed_pages
    BY <1>2
  <2>3. /\ PageOf[f] \in DOMAIN active_pages => active_pages'[PageOf[f]] = active_pages[PageOf[f]]
        /\ PageOf[f] \in DOMAIN freed_pages => freed_pages'[PageOf[f]] = freed_pages[PageOf[f]]
    BY <1>2
  <2> QED
    BY <2>1, <2>2, <2>3 DEF FragLife
<1> QED
  BY <1>1, <1>2

(* The lifetimes of the fragments of a freed page, and their rows.         *)
LEMMA FreedPageLives ==
  ASSUME Good, Lives, Metered, NEW page \in DOMAIN freed_pages
  PROVE  LET F == freed_pages[page].frags
             pf == freed_pages[page].free_time
         IN  /\ pf \in Nat
             /\ \A k \in DOMAIN F :
                  /\ F[k] \in A!Entry /\ F[k].free_time # None
                  /\ F[k].ptr \in FragsOf(page) /\ life[F[k].ptr] = LifeOf(F[k], pf)
                  /\ life[F[k].ptr].phase = "freed"
             /\ \A f \in FragsOf(page) : ~ HasFrag(F, f) => life[f] = M!Unknown
<1> DEFINE F == freed_pages[page].frags
           pf == freed_pages[page].free_time
<1>1. pf \in Nat
  BY DEF Good, Tables, PagesTyped, A!IsDict, GonePage, A!PageEntry, A!Time
<1>2. F \in Seq(A!Entry)
  BY GoneFrags DEF Good
<1>3. \A f \in FragsOf(page) : LifeIn(life[f], f, F, pf)
  BY DEF Lives, FragLives, FragLife, FragsOf
<1>4. InPage(page, F) /\ \A k \in DOMAIN F : F[k].free_time # None
  BY MeteredFeatures DEF Good, PagesInv, FragsInv, A!Complete
<1> HIDE DEF F, pf
<1>5. ASSUME NEW k \in DOMAIN F
      PROVE  /\ F[k] \in A!Entry /\ F[k].free_time # None
             /\ F[k].ptr \in FragsOf(page) /\ life[F[k].ptr] = LifeOf(F[k], pf)
             /\ life[F[k].ptr].phase = "freed"
  <2>1. F[k] \in A!Entry
    BY <1>2, FragElement
  <2>2. F[k].ptr \in FragsOf(page)
    BY <1>4 DEF InPage, FragsOf
  <2>3. life[F[k].ptr] = LifeOf(F[k], pf)
    BY <1>3, <2>2 DEF LifeIn
  <2> QED
    BY <1>4, <2>1, <2>2, <2>3, LifePhases, SMTT(30)
<1>6. \A f \in FragsOf(page) : ~ HasFrag(F, f) => life[f] = M!Unknown
  BY <1>3 DEF LifeIn
<1> QED
  BY <1>1, <1>5, <1>6 DEF F, pf

(* What each of a table's rows shows.                                      *)
Shows(table, D, G) == DOMAIN table = D /\ \A k \in D : Shown(table[k]) = G[k]

(* The report, given what each row shows.                                  *)
LEMMA ReportOf ==
  ASSUME NEW D, NEW G, Shows(rows', D, G)
  PROVE  \A x : x \in Report' <=> \E k \in D : x = G[k]
<1>1. \A x : x \in Report' <=> \E k \in DOMAIN rows' : x = Shown(rows'[k])
  BY DEF Report, Shown
<1> QED
  BY <1>1 DEF Shows

(* The meter sees the reuse of a page.                                     *)
LEMMA ReuseMoves ==
  ASSUME Good, Lives, Metered, NEW t \in Nat, now' = t, NEW page \in DOMAIN freed_pages,
         rows' = [k \in DOMAIN freed_pages[page].frags |->
                    A!Row("frag", freed_pages[page].frags[k].ptr, freed_pages[page].frags[k],
                          page, t, freed_pages[page].free_time)],
         IsLife', \A p \in Ptr \ FragsOf(page) : life'[p] = life[p],
         \A p \in FragsOf(page) : life'[p] = M!Unknown
  PROVE  Moves
<1> DEFINE F == freed_pages[page].frags
           pf == freed_pages[page].free_time
           S == {f \in FragsOf(page) : HasFrag(F, f)}
           R(k) == A!Row("frag", F[k].ptr, F[k], page, t, pf)
<1>1. /\ pf \in Nat
      /\ \A k \in DOMAIN F :
           /\ F[k] \in A!Entry /\ F[k].free_time # None
           /\ F[k].ptr \in FragsOf(page) /\ life[F[k].ptr] = LifeOf(F[k], pf)
           /\ life[F[k].ptr].phase = "freed"
      /\ \A f \in FragsOf(page) : ~ HasFrag(F, f) => life[f] = M!Unknown
  BY FreedPageLives
<1>2. DOMAIN rows' = DOMAIN F /\ \A k \in DOMAIN F : rows'[k] = R(k)
  OBVIOUS
<1> HIDE DEF F, pf
<1>3. ASSUME NEW k \in DOMAIN F
      PROVE  Shown(rows'[k]) = M!Lifetime(F[k].ptr, life[F[k].ptr], now')
  <2>1. Shown(R(k)) = M!Lifetime(F[k].ptr, LifeOf(F[k], pf), t)
    <3> DEFINE e == F[k]
    <3>1. e \in A!Entry /\ e.free_time # None /\ pf \in Nat \cup {None}
      BY <1>1
    <3> HIDE DEF e
    <3>2. Shown(A!Row("frag", e.ptr, e, page, t, pf)) = M!Lifetime(e.ptr, LifeOf(e, pf), t)
      BY <3>1, RowShown, SMTT(30)
    <3> QED
      BY <3>2 DEF e
  <2>2. rows'[k] = R(k) /\ life[F[k].ptr] = LifeOf(F[k], pf)
    BY <1>1, <1>2
  <2> HIDE DEF R
  <2> QED
    BY <2>1, <2>2
<1>4. \A x : x \in Report' <=> \E k \in DOMAIN F : x = M!Lifetime(F[k].ptr, life[F[k].ptr], now')
  <2> DEFINE G == [k \in DOMAIN F |-> M!Lifetime(F[k].ptr, life[F[k].ptr], now')]
  <2>1. DOMAIN rows' = DOMAIN F
    BY <1>2
  <2>2. \A k \in DOMAIN F : G[k] = M!Lifetime(F[k].ptr, life[F[k].ptr], now')
    OBVIOUS
  <2> HIDE DEF G, R, S
  <2>3. Shows(rows', DOMAIN F, G)
    BY <1>3, <2>1, <2>2 DEF Shows
  <2>4. \A x : x \in Report' <=> \E k \in DOMAIN F : x = G[k]
    BY <2>3, ReportOf, SMTT(30)
  <2> QED
    BY <2>2, <2>4, SMTT(30)
<1>5. \A f : f \in S <=> \E k \in DOMAIN F : f = F[k].ptr
  BY <1>1 DEF HasFrag
<1>6. S \in SUBSET Ptr /\ \A f \in S : life[f].phase = "freed"
  BY <1>1, <1>5, SMTT(30) DEF FragsOf, Ptr
<1>7. life' = [p \in Ptr |-> IF p \in S THEN M!Unknown ELSE life[p]]
  <2>1. ASSUME NEW p \in Ptr PROVE life'[p] = IF p \in S THEN M!Unknown ELSE life[p]
    <3>1. CASE p \in FragsOf(page)
      BY <1>1, <3>1
    <3>2. CASE p \notin FragsOf(page)
      BY <3>2
    <3> QED
      BY <3>1, <3>2
  <2> HIDE DEF S
  <2> QED
    BY <2>1 DEF IsLife
<1> HIDE DEF S
<1>8. Report' = {M!Lifetime(f, life[f], now') : f \in S}
  BY <1>4, <1>5, SMTT(30)
<1>9. M!Reuse(S)
  BY <1>6, <1>7, <1>8 DEF M!Reuse
<1> QED
  BY <1>6, <1>9 DEF Moves

(* mm_page_alloc: the memory of all fragments of the page is used again.   *)
LEMMA PageAllocMeters ==
  ASSUME KernelInv, Good, Lives, Metered, NEW t \in Nat, NEW page \in Page,
         A!MmPageAlloc(t, page), failure' = "none", AllUnknown(FragsOf(page)),
         UNCHANGED <<kernel, head_of>>,
         Reserved' = Reserved, InSkb' = InSkb, Releases' = Releases
  PROVE  Moves /\ Lives'
<1>1. /\ now' = t
      /\ UNCHANGED <<active_skb_ptrs, freed_skb_ptrs, consume_skb_locations>>
      /\ page \notin DOMAIN active_pages
      /\ Popped(freed_pages, freed_pages', page)
      /\ Assigned(active_pages, active_pages', page, NewPage(t))
      /\ IF page \in DOMAIN freed_pages
         THEN rows' = [k \in DOMAIN freed_pages[page].frags |->
                         A!Row("frag", freed_pages[page].frags[k].ptr, freed_pages[page].frags[k],
                               page, t, freed_pages[page].free_time)]
         ELSE DOMAIN rows' = {}
  BY MmPageAllocEffect DEF Good
<1>2. FragsOf(page) \subseteq Frag /\ Frag \subseteq Ptr /\ Kmem \cap Frag = {} /\ Kmem \subseteq Ptr
  BY PtrAssumption DEF FragsOf, Ptr
<1>3. /\ IsLife' /\ \A p \in Ptr \ FragsOf(page) : life'[p] = life[p]
      /\ \A p \in FragsOf(page) : life'[p] = IF life[p].phase = "freed" THEN M!Unknown ELSE life[p]
  BY <1>2, LivesEnd DEF Lives
<1>4. ASSUME NEW f \in FragsOf(page) PROVE life'[f] = M!Unknown
  <2>1. CASE page \in DOMAIN freed_pages
    <3>1. life[f].phase = "freed" \/ life[f] = M!Unknown
      BY <2>1, FreedPageLives DEF HasFrag
    <3> QED
      BY <1>3, <3>1
  <2>2. CASE page \notin DOMAIN freed_pages
    <3>1. life[f] = M!Unknown
      BY <1>1, <2>2 DEF Lives, FragLives, FragLife, FragsOf
    <3> QED
      BY <1>3, <3>1
  <2> QED
    BY <2>1, <2>2
<1>5. Moves
  <2>1. CASE page \in DOMAIN freed_pages
    BY <1>1, <1>3, <1>4, <2>1, ReuseMoves
  <2>2. CASE page \notin DOMAIN freed_pages
    <3>1. \A f \in FragsOf(page) : life[f] = M!Unknown
      BY <1>1, <2>2 DEF Lives, FragLives, FragLife, FragsOf
    <3>2. life' = life
      BY <1>3, <1>4, <3>1 DEF Lives, IsLife
    <3>3. DOMAIN rows' = {}
      BY <1>1, <2>2
    <3> QED
      BY <3>2, <3>3, NoReport DEF Lives
  <2> QED
    BY <2>1, <2>2
<1>6. HeadLives'
  BY <1>1, <1>2, <1>3, HeadLivesKept DEF Lives
<1>7. FragLives'
  <2>1. /\ page \in DOMAIN active_pages' /\ active_pages'[page] = NewPage(t)
        /\ page \notin DOMAIN freed_pages'
    BY <1>1 DEF Assigned, Popped
  <2>2. ASSUME NEW f \in FragsOf(page)
        PROVE  FragLife(life'[f], f, page, active_pages', freed_pages')
    <3>1. active_pages'[page].frags = << >> /\ DOMAIN << >> = {}
      BY <2>1, NewPageIs, SMTT(30)
    <3>2. LifeIn(life'[f], f, active_pages'[page].frags, None)
      BY <1>4, <3>1 DEF LifeIn
    <3> QED
      BY <2>1, <3>2 DEF FragLife
  <2>3. /\ \A p \in DOMAIN active_pages \ {page} : active_pages'[p] = active_pages[p]
        /\ \A p \in DOMAIN freed_pages \ {page} : freed_pages'[p] = freed_pages[p]
        /\ DOMAIN active_pages' \ {page} = DOMAIN active_pages \ {page}
        /\ DOMAIN freed_pages' \ {page} = DOMAIN freed_pages \ {page}
    BY <1>1 DEF Assigned, Popped
  <2> QED
    BY <1>2, <1>3, <2>2, <2>3, PageLives DEF Lives
<1>8. Phases' /\ SkbsKnown' /\ SitesKnown'
  <2>1. Reserved \cup InSkb \subseteq Ptr /\ \A r \in Releases : r.ptr \in Ptr
    BY ReleaseFacts DEF Reserved, InSkb
  <2>2. \A p \in Ptr : life'[p] = life[p] \/ life'[p] = M!Unknown
    BY <1>3, <1>4
  <2> QED
    BY <1>1, <2>1, <2>2, PhasesKept, SkbsKept, SitesKept DEF Lives
<1> QED
  BY <1>3, <1>5, <1>6, <1>7, <1>8 DEF Lives

(* mm_page_free: all heads cut from the page have been freed, and wait for *)
(* it to be allocated again.                                               *)
LEMMA PageFreeMeters ==
  ASSUME KernelInv, Good, Lives, Metered, NEW t \in Nat, NEW page \in Page,
         A!MmPageFree(t, page), failure' = "none",
         page \in page_used, FragsOf(page) \cap used = {},
         life' = [ptr \in Ptr |->
                    IF ptr \in FragsOf(page) /\ page \in seen /\ Phase(ptr, "freed")
                    THEN [life[ptr] EXCEPT !.page_free = t] ELSE life[ptr]],
         UNCHANGED <<kernel, head_of>>,
         Reserved' = Reserved, InSkb' = InSkb, Releases' = Releases
  PROVE  Moves /\ Lives'
<1>1. /\ now' = t /\ rows' = << >>
      /\ UNCHANGED <<active_skb_ptrs, freed_skb_ptrs, consume_skb_locations>>
      /\ Popped(active_pages, active_pages', page)
      /\ IF page \in DOMAIN active_pages /\ active_pages[page].frags # << >>
         THEN Assigned(freed_pages, freed_pages', page, A!FreedPage(t, active_pages[page]))
         ELSE UNCHANGED freed_pages
  BY MmPageFreeEffect DEF Good
<1>2. /\ FragsOf(page) \subseteq Frag /\ Frag \subseteq Ptr /\ Kmem \cap Frag = {}
      /\ Kmem \subseteq Ptr
  BY PtrAssumption DEF FragsOf, Ptr
<1>3. DOMAIN active_pages = seen /\ page \notin DOMAIN freed_pages
  BY DEF Good, PagesInv
<1>4. /\ IsLife' /\ \A p \in Ptr \ FragsOf(page) : life'[p] = life[p]
      /\ \A p \in FragsOf(page) :
           life'[p] = IF page \in seen /\ life[p].phase = "freed"
                      THEN [life[p] EXCEPT !.page_free = t] ELSE life[p]
  BY <1>2 DEF IsLife, Phase
<1>5. \A f \in FragsOf(page) : FragLife(life[f], f, page, active_pages, freed_pages)
  BY DEF Lives, FragLives, FragsOf
<1>6. HeadLives'
  BY <1>1, <1>2, <1>4, HeadLivesKept DEF Lives
<1>7. Phases' /\ SkbsKnown' /\ SitesKnown'
  <2>1. Reserved \cup InSkb \subseteq used /\ used \subseteq Ptr /\ \A r \in Releases : r.ptr \in InSkb
    BY HeldMemory, ReleaseFacts, KernelMem
  <2>2. \A p \in Reserved \cup InSkb : life'[p] = life[p]
    BY <1>4, <2>1
  <2> QED
    BY <1>1, <2>1, <2>2, PhasesKept, SkbsKept, SitesKept DEF Lives
<1>8. /\ \A p \in DOMAIN active_pages \ {page} : active_pages'[p] = active_pages[p]
      /\ \A p \in DOMAIN freed_pages \ {page} : freed_pages'[p] = freed_pages[p]
      /\ DOMAIN active_pages' \ {page} = DOMAIN active_pages \ {page}
      /\ DOMAIN freed_pages' \ {page} = DOMAIN freed_pages \ {page}
      /\ page \notin DOMAIN active_pages'
  BY <1>1 DEF Assigned, Popped
<1>9. CASE page \notin DOMAIN active_pages
  <2>1. life' = life
    BY <1>3, <1>4, <1>9 DEF Lives, IsLife
  <2>2. DOMAIN rows' = {} /\ UNCHANGED freed_pages
    BY <1>1, <1>9, SMTT(30)
  <2>3. Moves
    BY <2>1, <2>2, NoReport DEF Lives
  <2>4. ASSUME NEW f \in FragsOf(page)
        PROVE  FragLife(life'[f], f, page, active_pages', freed_pages')
    BY <1>3, <1>5, <1>8, <1>9, <2>1, <2>2 DEF FragLife
  <2>5. FragLives'
    BY <1>2, <1>4, <1>8, <2>4, PageLives DEF Lives
  <2> QED
    BY <1>4, <1>6, <1>7, <2>3, <2>5 DEF Lives
<1>10. CASE page \in DOMAIN active_pages
  <2> DEFINE F == active_pages[page].frags
             S == {f \in FragsOf(page) : HasFrag(F, f)}
  <2>1. F \in Seq(A!Entry)
    BY <1>10, ActiveFrags DEF Good
  <2>2. InPage(page, F) /\ FragsTrue(F, handed, used, Reserved, InSkb)
    BY <1>10, MeteredFeatures DEF Good, PagesInv, FragsInv
  <2>3. \A f \in FragsOf(page) : LifeIn(life[f], f, F, None)
    BY <1>5, <1>10 DEF FragLife
  <2>4. /\ F # << >> => Assigned(freed_pages, freed_pages', page, A!FreedPage(t, active_pages[page]))
        /\ F = << >> => UNCHANGED freed_pages
    BY <1>1, <1>10
  <2>5. A!FreedPage(t, active_pages[page]).frags = F /\ A!FreedPage(t, active_pages[page]).free_time = t
    BY <1>10, FreedPageIs DEF Good, Tables, PagesTyped, A!IsDict
  <2> HIDE DEF F
  <2>6. ASSUME NEW k \in DOMAIN F
        PROVE  /\ F[k].ptr \in FragsOf(page) /\ life[F[k].ptr] = LifeOf(F[k], None)
               /\ life[F[k].ptr].phase = "freed" /\ life[F[k].ptr].page_free = None
               /\ life'[F[k].ptr] = LifeOf(F[k], t)
    <3>1. F[k].ptr \in FragsOf(page)
      BY <2>2 DEF InPage, FragsOf
    <3>2. life[F[k].ptr] = LifeOf(F[k], None)
      BY <2>3, <3>1 DEF LifeIn
    <3>3. F[k].free_time # None
      BY <2>2, <3>1 DEF FragsTrue, A!Complete
    <3>4. life[F[k].ptr].phase = "freed" /\ life[F[k].ptr].page_free = None
      BY <3>2, <3>3, LifePhases, SMTT(30)
    <3>5. life'[F[k].ptr] = [life[F[k].ptr] EXCEPT !.page_free = t]
      BY <1>3, <1>4, <1>10, <3>1, <3>4
    <3>6. life'[F[k].ptr] = LifeOf(F[k], t)
      BY <3>2, <3>5, LifeOfPageFreed, SMTT(30)
    <3> QED
      BY <3>1, <3>2, <3>4, <3>6
  <2>7. ASSUME NEW f \in FragsOf(page), ~ HasFrag(F, f)
        PROVE  life[f] = M!Unknown /\ life'[f] = M!Unknown
    <3>1. life[f] = M!Unknown
      BY <2>3, <2>7 DEF LifeIn
    <3>2. M!Unknown.phase = "unknown"
      BY DEF M!Unknown
    <3> QED
      BY <1>4, <3>1, <3>2
  <2>8. Moves
    <3>1. S \in SUBSET Ptr /\ \A f \in S : life[f].phase = "freed" /\ life[f].page_free = None
      BY <1>2, <2>6 DEF HasFrag
    <3>2. ASSUME NEW p \in Ptr
          PROVE  life'[p] = IF p \in S THEN [life[p] EXCEPT !.page_free = now'] ELSE life[p]
      <4>0. now' = t
        BY <1>1
      <4>1. CASE p \in S
        <5>1. life[p].phase = "freed" /\ p \in FragsOf(page) /\ page \in seen
          BY <1>3, <1>10, <3>1, <4>1
        <5> QED
          BY <1>4, <4>0, <4>1, <5>1
      <4>2. CASE p \in FragsOf(page) /\ p \notin S
        BY <2>7, <4>2
      <4>3. CASE p \notin FragsOf(page)
        BY <1>4, <4>3
      <4> QED
        BY <4>1, <4>2, <4>3
    <3> HIDE DEF S
    <3>3. life' = [p \in Ptr |-> IF p \in S THEN [life[p] EXCEPT !.page_free = now'] ELSE life[p]]
      BY <1>4, <3>2 DEF IsLife
    <3>4. Report' = {}
      BY <1>1, SMTT(30) DEF Report
    <3>5. M!PageFree(S)
      BY <3>1, <3>3, <3>4 DEF M!PageFree
    <3> QED
      BY <3>1, <3>5 DEF Moves
  <2>9. ASSUME NEW f \in FragsOf(page)
        PROVE  FragLife(life'[f], f, page, active_pages', freed_pages')
    <3>1. LifeIn(life'[f], f, F, t)
      BY <2>6, <2>7 DEF LifeIn
    <3>2. CASE F = << >>
      <4>1. page \notin DOMAIN freed_pages'
        BY <1>3, <2>4, <3>2
      <4>2. DOMAIN F = {}
        BY <3>2, SMTT(30)
      <4>3. life'[f] = M!Unknown
        BY <3>1, <4>2 DEF LifeIn, HasFrag
      <4> QED
        BY <1>8, <4>1, <4>3 DEF FragLife
    <3>3. CASE F # << >>
      <4>1. page \in DOMAIN freed_pages' /\ freed_pages'[page].frags = F
            /\ freed_pages'[page].free_time = t
        BY <2>4, <2>5, <3>3 DEF Assigned
      <4> QED
        BY <1>8, <3>1, <4>1 DEF FragLife
    <3> QED
      BY <3>2, <3>3
  <2>10. FragLives'
    BY <1>2, <1>4, <1>8, <2>9, PageLives DEF Lives
  <2> QED
    BY <1>4, <1>6, <1>7, <2>8, <2>10 DEF Lives
<1> QED
  BY <1>9, <1>10

(* Steps without an event.                                                 *)
LEMMA SilentMeters ==
  ASSUME KernelInv, Good, Lives, Metered, UNCHANGED <<kernel, life>>, SilentEffect, A!Continue
  PROVE  Moves /\ Lives'
<1>1. /\ rows' = << >>
      /\ UNCHANGED <<active_skb_ptrs, active_pages, freed_skb_ptrs, freed_pages,
                     consume_skb_locations>>
  BY DEF A!Continue, A!Silent, A!Appends, A!dicts
<1>2. /\ Reserved' = Reserved /\ InSkb' = InSkb /\ Releases' \subseteq Releases
      /\ "clones" \notin kernel.features => UNCHANGED head_of
  BY MeteredFeatures DEF SilentEffect
<1>3. Moves
  <2>1. DOMAIN rows' = {}
    BY <1>1, SMTT(30)
  <2> QED
    BY <2>1, NoReport DEF Lives
<1>4. HeadLives' /\ FragLives' /\ IsLife'
  BY <1>1, HeadLivesKept, FragLivesKept DEF Lives, IsLife
<1>5. Phases' /\ SkbsKnown' /\ SitesKnown'
  BY <1>1, <1>2, PhasesKept, SkbsKept, SitesKept DEF Lives
<1> QED
  BY <1>3, <1>4, <1>5 DEF Lives

(* Every event is a step of the meter.                                     *)
LEMMA EventMeters ==
  ASSUME KernelInv, Good, Lives, Metered, UNCHANGED kernel, NEW t \in Nat, Event(t)
  PROVE  Moves /\ (failure' = "none" => Lives')
<1>0. kernel.locs \subseteq Loc
  BY KernelMem
<1>1. CASE Reserve(t)
  <2>1. PICK c \in Ctx, skb \in Skb, ptr \in Kmem :
          KReserve(c, skb, ptr) /\ A!Kmalloc(t, ptr) /\ AllUnknown({ptr}) /\ UNCHANGED seen
    BY <1>1 DEF Reserve
  <2>2. Reserved' = Reserved /\ InSkb' = InSkb /\ Releases' = Releases
    BY <2>1, KReserveStep
  <2>3. ptr \notin used /\ used' = used \cup {ptr} /\ UNCHANGED <<head_of, page_used, handed>>
    BY <2>1 DEF KReserve
  <2>4. failure' = "none"
    BY <2>1, <2>2, <2>3, KmallocGood
  <2> QED
    BY <2>1, <2>2, <2>3, <2>4, KmallocMeters
<1>2. CASE OtherKmalloc(t)
  <2>1. PICK ptr \in Kmem :
          KOtherKmalloc(ptr) /\ A!Kmalloc(t, ptr) /\ AllUnknown({ptr}) /\ UNCHANGED seen
    BY <1>2 DEF OtherKmalloc
  <2>2. Reserved' = Reserved /\ InSkb' = InSkb /\ Releases' = Releases
    BY <2>1, KOtherKmallocStep
  <2>3. ptr \notin used /\ used' = used \cup {ptr} /\ UNCHANGED <<head_of, page_used, handed>>
    BY <2>1 DEF KOtherKmalloc
  <2>4. failure' = "none"
    BY <2>1, <2>2, <2>3, KmallocGood
  <2> QED
    BY <2>1, <2>2, <2>3, <2>4, KmallocMeters
<1>3. CASE HeadKmalloc(t)
  <2>1. PICK c \in Ctx, loc \in kernel.locs :
          /\ KHeadKmalloc(c) /\ A!SkbHeadKmalloc(t, ctx[c].ptr, loc)
          /\ Becomes(ctx[c].ptr, M!Allocated(M!Unknown, t, loc)) /\ UNCHANGED seen
    BY <1>3 DEF HeadKmalloc
  <2>2. /\ ctx[c].ptr \in Kmem /\ ctx[c].ptr \in used /\ ctx[c].ptr \notin Reserved \cup InSkb
        /\ Reserved' = Reserved \cup {ctx[c].ptr} /\ InSkb' = InSkb /\ Releases' = Releases
    BY <2>1, KHeadKmallocStep
  <2>3. UNCHANGED <<head_of, used, page_used, handed>>
    BY <2>1 DEF KHeadKmalloc
  <2>4. failure' = "none"
    BY <1>0, <2>1, <2>2, <2>3, HeadKmallocGood
  <2> QED
    BY <1>0, <2>1, <2>2, <2>3, <2>4, HeadKmallocMeters
<1>4. CASE AllocFrag(t)
  <2>1. PICK c \in Ctx, skb \in Skb, ptr \in Frag, loc \in kernel.locs :
          /\ KAllocFrag(c, skb, ptr) /\ A!AllocFrag(t, PageOf[ptr], ptr, loc)
          /\ IF PageOf[ptr] \in seen THEN Becomes(ptr, M!Allocated(M!Unknown, t, loc))
             ELSE UNCHANGED life
          /\ UNCHANGED seen
    BY <1>4 DEF AllocFrag
  <2>2. /\ ptr \notin used \cup Reserved \cup InSkb
        /\ Reserved' = Reserved \cup {ptr} /\ InSkb' = InSkb /\ Releases' = Releases
    BY <2>1, KAllocFragStep
  <2>3. /\ ptr \notin handed /\ PageOf[ptr] \in page_used /\ UNCHANGED <<page_used, head_of>>
        /\ handed' = handed \cup {ptr} /\ used' = used \cup {ptr}
    BY <2>1 DEF KAllocFrag
  <2>4. failure' = "none"
    BY <1>0, <2>1, <2>2, <2>3, AllocFragGood
  <2> QED
    BY <1>0, <2>1, <2>2, <2>3, <2>4, AllocFragMeters
<1>5. CASE Finalize(t)
  <2>1. PICK c \in Ctx :
          /\ KFinalize(c) /\ A!FinalizeSkbAround(t, ctx[c].skb, ctx[c].ptr)
          /\ IF life[ctx[c].ptr].phase = "allocated"
             THEN Becomes(ctx[c].ptr, M!Written(life[ctx[c].ptr], t)) ELSE UNCHANGED life
          /\ UNCHANGED seen
    BY <1>5 DEF Finalize, Phase
  <2>2. /\ ctx[c].ptr \in Reserved /\ ctx[c].skb \in Skb
        /\ Reserved' = Reserved \ {ctx[c].ptr} /\ InSkb' = InSkb \cup {ctx[c].ptr}
        /\ Releases' = Releases
        /\ head_of' = [head_of EXCEPT ![ctx[c].skb] = ctx[c].ptr] /\ head_of[ctx[c].skb] = None
    BY <2>1, KFinalizeStep
  <2>3. UNCHANGED <<used, page_used, handed>> /\ ctx[c].ptr \in Ptr
    BY <2>1, <2>2 DEF KFinalize, Reserved
  <2>4. failure' = "none"
    BY <2>1, <2>2, <2>3, FinalizeGood
  <2> QED
    BY <2>1, <2>2, <2>3, <2>4, FinalizeMeters
<1>6. CASE WithFrags(t)
  <2>1. PICK c \in Ctx, loc \in kernel.locs :
          /\ KWithFrags(c) /\ A!AllocSkbWithFrags(t, ctx[c].skb, loc)
          /\ IF life[ctx[c].ptr].phase = "written"
             THEN Becomes(ctx[c].ptr, [life[ctx[c].ptr] EXCEPT !.alloc_func = loc])
             ELSE UNCHANGED life
    BY <1>6 DEF WithFrags, Phase
  <2>2. /\ "with_frags" \in kernel.features
        /\ ctx[c].ptr \in Kmem \cap InSkb /\ ctx[c].skb \in Skb /\ head_of[ctx[c].skb] = ctx[c].ptr
        /\ Reserved' = Reserved /\ InSkb' = InSkb /\ Releases' = Releases
    BY <2>1, KWithFragsStep
  <2>3. UNCHANGED head_of /\ ctx[c].ptr \in Ptr
    BY <2>1, <2>2 DEF KWithFrags, InSkb
  <2>4. CASE failure' = "none"
    BY <1>0, <2>1, <2>2, <2>3, <2>4, WithFragsMeters
  <2>5. CASE failure' # "none"
    <3>1. A!Raise("KeyError_167")
      BY <2>1, <2>5 DEF A!AllocSkbWithFrags, A!Take, A!Continue, A!Silent, A!Appends
    <3>2. rows' = << >>
      BY <3>1 DEF A!Raise
    <3> QED
      BY <1>0, <2>1, <2>3, <2>5, <3>2, AttributeMoves
  <2> QED
    BY <2>4, <2>5
<1>7. CASE Consume(t)
  <2>1. PICK c \in Ctx, skb \in Skb, loc \in kernel.locs :
          KConsume(c, skb, loc) /\ A!ConsumeSkb(t, skb, loc) /\ UNCHANGED life
    BY <1>7 DEF Consume
  <2> DEFINE new == [at |-> "consumed", skb |-> skb, ptr |-> head_of[skb], loc |-> loc]
  <2>2. Reserved' = Reserved /\ InSkb' = InSkb /\ Releases' = Releases \cup {new}
    BY <1>0, <2>1, KConsumeStep
  <2>3. UNCHANGED head_of /\ ~ Busy(skb)
    BY <2>1 DEF KConsume
  <2>4. new.skb = skb /\ new.loc = loc
    OBVIOUS
  <2> HIDE DEF new
  <2> QED
    BY <1>0, <2>1, <2>2, <2>3, <2>4, ConsumeMeters
<1>8. CASE ReleaseHead(t)
  <2>1. PICK c \in Ctx : KReleaseHead(c) /\ HeadFree(t, ctx[c].skb, ctx[c].ptr, ctx[c].loc)
    BY <1>8 DEF ReleaseHead
  <2> DEFINE r == ctx[c]
  <2>2. /\ r \in Releases /\ Reserved' = Reserved /\ InSkb' = InSkb \ {r.ptr}
        /\ Releases' = Releases \ {r} /\ \A skb \in Skb \ {r.skb} : head_of[skb] # r.ptr
    BY <2>1, KReleaseHeadStep
  <2>3. /\ UNCHANGED <<page_used, handed>> /\ used' = used \ {r.ptr}
        /\ head_of' = [head_of EXCEPT ![r.skb] = None]
    BY <2>1 DEF KReleaseHead
  <2>4. /\ UNCHANGED seen
        /\ \/ r.ptr \in Kmem /\ A!SkbHeadKfree(t, r.skb, r.ptr)
           \/ r.ptr \in Frag /\ A!SkbHeadFragFree(t, PageOf[r.ptr], r.skb, r.ptr)
        /\ IF life[r.ptr].phase = "written" THEN Becomes(r.ptr, M!Freed(life[r.ptr], t, r.loc))
           ELSE UNCHANGED life
    BY <2>1 DEF HeadFree, Phase
  <2>5. r.skb \in Skb /\ r.ptr \in InSkb
    BY <2>2, ReleaseFacts
  <2> HIDE DEF r
  <2>6. CASE r.ptr \in Kmem /\ A!SkbHeadKfree(t, r.skb, r.ptr)
    <3>1. failure' = "none"
      BY <2>2, <2>3, <2>4, <2>5, <2>6, KfreeGood, MeteredFeatures DEF Outcome
    <3> QED
      BY <2>2, <2>3, <2>4, <2>6, <3>1, KfreeMeters
  <2>7. CASE r.ptr \in Frag /\ A!SkbHeadFragFree(t, PageOf[r.ptr], r.skb, r.ptr)
    <3>1. failure' = "none"
      BY <2>2, <2>3, <2>4, <2>5, <2>7, FragFreeGood
    <3> QED
      BY <2>2, <2>3, <2>4, <2>7, <3>1, FragFreeMeters
  <2> QED
    BY <2>4, <2>6, <2>7
<1>9. CASE ReleaseUntraced(t)
  BY <1>9, MeteredFeatures DEF ReleaseUntraced, KReleaseUntraced
<1>10. CASE PageAlloc(t)
  <2>1. PICK page \in Page : /\ KPageAlloc(page) /\ A!MmPageAlloc(t, page)
                             /\ AllUnknown(FragsOf(page)) /\ seen' = seen \cup {page}
    BY <1>10 DEF PageAlloc
  <2>2. Reserved' = Reserved /\ InSkb' = InSkb /\ Releases' = Releases
    BY <2>1, KPageAllocStep
  <2>3. /\ page \notin page_used /\ page_used' = page_used \cup {page}
        /\ UNCHANGED <<head_of, used, handed>>
    BY <2>1 DEF KPageAlloc
  <2>4. failure' = "none"
    BY <2>1, <2>2, <2>3, PageAllocGood, MeteredFeatures DEF Outcome
  <2> QED
    BY <2>1, <2>2, <2>3, <2>4, PageAllocMeters
<1>11. CASE PageFree(t)
  <2>1. PICK page \in Page :
          /\ KPageFree(page) /\ A!MmPageFree(t, page) /\ seen' = seen \ {page}
          /\ life' = [ptr \in Ptr |->
                        IF ptr \in FragsOf(page) /\ page \in seen /\ Phase(ptr, "freed")
                        THEN [life[ptr] EXCEPT !.page_free = t] ELSE life[ptr]]
    BY <1>11 DEF PageFree
  <2>2. Reserved' = Reserved /\ InSkb' = InSkb /\ Releases' = Releases
    BY <2>1, KPageFreeStep
  <2>3. /\ page \in page_used /\ FragsOf(page) \cap used = {} /\ UNCHANGED <<used, head_of>>
        /\ page_used' = page_used \ {page} /\ handed' = handed \ FragsOf(page)
    BY <2>1 DEF KPageFree
  <2>4. failure' = "none"
    BY <2>1, <2>2, <2>3, PageFreeGood
  <2> QED
    BY <2>1, <2>2, <2>3, <2>4, PageFreeMeters
<1> QED
  BY <1>1, <1>2, <1>3, <1>4, <1>5, <1>6, <1>7, <1>8, <1>9, <1>10, <1>11 DEF Event

(* At the start no lifetime is known and nothing is reported.              *)
LEMMA InitMeters ==
  ASSUME Init PROVE M!MInit /\ MetersInv
<1>1. KernelInv /\ KInit /\ life = [ptr \in Ptr |-> M!Unknown]
  BY KInitInv DEF Init
<1>2. /\ DOMAIN active_skb_ptrs = {} /\ DOMAIN freed_skb_ptrs = {}
      /\ DOMAIN active_pages = {} /\ DOMAIN freed_pages = {} /\ rows = << >> /\ now = 0
  BY DEF Init, A!Init, A!EmptyDict
<1>3. Report = {}
  BY <1>2, SMTT(30) DEF Report
<1>4. M!MInit
  BY <1>1, <1>2, <1>3 DEF M!MInit
<1>5. IsLife /\ \A p \in Ptr : life[p] = M!Unknown
  BY <1>1 DEF IsLife
<1>6. HeadLives /\ FragLives
  BY <1>2, <1>5 DEF HeadLives, FragLives, HeadLife, FragLife, Ptr
<1>7. Phases
  <2>1. Reserved \cup InSkb \subseteq Ptr /\ M!Unknown.phase = "unknown"
    BY DEF Reserved, InSkb, M!Unknown
  <2> QED
    BY <1>5, <2>1 DEF Phases
<1>8. SkbsKnown
  BY <1>2 DEF SkbsKnown
<1>9. SitesKnown
  <2>1. \A r \in Releases : r.ptr \in Ptr
    BY <1>1, ReleaseFacts DEF InSkb
  <2> QED
    BY <1>5, <2>1 DEF SitesKnown
<1> QED
  BY <1>4, <1>5, <1>6, <1>7, <1>8, <1>9 DEF MetersInv, Lives

(* Every step keeps the lifetimes true and is a step of the meter or none. *)
LEMMA NextMeters ==
  ASSUME Corresponds, MetersInv, [Next]_vars
  PROVE  MetersInv' /\ [Metered => M!MNext]_(M!mvars)
<1>1. CASE UNCHANGED vars
  <2>1. UNCHANGED <<kernel, ctx, head_of, active_skb_ptrs, active_pages, freed_skb_ptrs,
                    freed_pages, consume_skb_locations, rows, failure, life, now>>
    BY <1>1 DEF vars, kvars, A!vars, A!dicts
  <2>2. UNCHANGED <<Reserved, InSkb, Releases, Metered, Report>>
    BY <2>1 DEF Reserved, InSkb, Releases, At, Metered, Report
  <2>3. MetersInv'
    BY <2>1, <2>2 DEF MetersInv, Lives, IsLife, HeadLives, FragLives, Phases, SkbsKnown,
       SitesKnown
  <2>4. UNCHANGED M!mvars
    BY <2>1, <2>2 DEF M!mvars
  <2> QED
    BY <2>3, <2>4
<1>2. CASE Next
  <2>0. UNCHANGED kernel
    BY <1>2 DEF Next
  <2>1. Metered' <=> Metered
    BY <2>0 DEF Metered
  <2> SUFFICES ASSUME Metered PROVE M!MNext /\ (failure' = "none" => Lives')
    BY <2>1 DEF MetersInv
  <2>2. failure = "none"
    BY <1>2, EventTakes DEF Next, Silent
  <2>3. KernelInv /\ Good /\ now \in Nat /\ Lives
    BY <2>2 DEF Corresponds, MetersInv, Good, Tables
  <2>4. ASSUME NEW t \in {now, now + 1}, Event(t)
        PROVE  now' >= now /\ Moves /\ (failure' = "none" => Lives')
    <3>1. t \in Nat /\ t >= now
      BY <2>3, SMTT(30)
    <3>2. now' = t
      BY <2>4, EventTakes
    <3>3. Moves /\ (failure' = "none" => Lives')
      BY <2>0, <2>3, <2>4, <3>1, EventMeters
    <3> QED
      BY <3>1, <3>2, <3>3
  <2>5. ASSUME Silent PROVE now' >= now /\ Moves /\ (failure' = "none" => Lives')
    <3>1. KSilent /\ A!Continue /\ UNCHANGED <<now, life>>
      BY <2>5 DEF Silent
    <3>2. SilentEffect
      BY <2>0, <2>3, <3>1, KSilentStep
    <3>3. Moves /\ Lives'
      BY <2>0, <2>3, <3>1, <3>2, SilentMeters
    <3>4. now' >= now
      BY <2>3, <3>1, SMTT(30)
    <3> QED
      BY <3>3, <3>4
  <2>6. now' >= now /\ Moves /\ (failure' = "none" => Lives')
    BY <1>2, <2>4, <2>5 DEF Next
  <2>7. M!MNext
    BY <2>6 DEF M!MNext, Moves
  <2> QED
    BY <2>6, <2>7
<1> QED
  BY <1>1, <1>2

(* The analyzer implements the ideal meter (LifetimeMeter): the rows that  *)
(* analyze_trace.py adds (lines 60-72 and 190-201) are, step by step, the  *)
(* lifetimes that end, with their true durations and functions, on every   *)
(* kernel with at most clones, or at most alloc_skb_with_frags, whether or *)
(* not the trace starts on a kernel that is running.                       *)
THEOREM AnalysisMeters == Spec => MeterSpec
<1>1. Init => M!MInit /\ Corresponds /\ MetersInv
  BY InitCorresponds, InitMeters
<1>2. Corresponds /\ MetersInv /\ [Next]_vars => Corresponds' /\ MetersInv'
  BY NextCorresponds, NextMeters
<1>3. Corresponds /\ MetersInv /\ [Next]_vars => [Metered => M!MNext]_(M!mvars)
  BY NextMeters
<1> QED
  BY <1>1, <1>2, <1>3, PTL DEF Spec, MeterSpec
=============================================================================
