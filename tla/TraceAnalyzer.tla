--------------------------- MODULE TraceAnalyzer ---------------------------
(***************************************************************************)
(* analyze_trace.py: the event loop that turns a kernel trace into a table *)
(* of the lifetimes of skb heads.  There is one action per branch of the   *)
(* loop.  Its parameters are the fields of the event that the branch       *)
(* reads, t is the event's timestamp.                                      *)
(*                                                                         *)
(* A dict is a function whose domain is the dict's set of keys.  An entry  *)
(* is a record with all the keys it may ever get, None where the key has   *)
(* not been set.  rows and printed are what the current event appends to   *)
(* the statistics lists and prints; both only ever grow in the program, so *)
(* what each event adds is all there is to say about them.                 *)
(***************************************************************************)
EXTENDS Integers, Sequences

CONSTANTS
  Ptr,        \* addresses of skb heads, from kmalloc or from a page
  Page,       \* page frames
  PageOf,     \* the page an address lies in
  Skb,        \* addresses of sk_buff structs
  Loc,        \* call sites
  None,       \* a key that is not set
  MaxTime,    \* bound on the timestamps of a trace
  MaxFrags    \* bound on the fragments handed out from one page

ASSUME PageOfAssumption == PageOf \in [Ptr -> Page]
ASSUME NoneAssumption == None \notin Nat \cup Skb \cup Loc \cup {"NOT FOUND"}
ASSUME BoundsAssumption == MaxTime \in Nat /\ MaxFrags \in Nat

VARIABLES
  active_skb_ptrs,         \* kmalloc'ed heads in use
  skb_order,               \* the keys of active_skb_ptrs in insertion order
  active_pages,            \* allocated pages and their fragments
  freed_skb_ptrs,          \* kmalloc'ed heads freed and not yet reused
  freed_pages,             \* pages with fragments freed and not yet reused
  consume_skb_locations,   \* skb -> call site of its last consume/kfree
  rows,                    \* the table rows the current event appends
  printed,                 \* the "BUG" messages the current event prints
  failure,                 \* the exception that ended the program, or "none"
  now                      \* timestamp of the last event

dicts == <<active_skb_ptrs, skb_order, active_pages, freed_skb_ptrs,
           freed_pages, consume_skb_locations>>
vars == <<dicts, rows, printed, failure, now>>
-----------------------------------------------------------------------------
Time == Nat

(* An entry of active_skb_ptrs, freed_skb_ptrs or of a page's "frags".     *)
Entry ==
  [ptr : Ptr, alloc_time : Time, alloc_func : Loc,
   data_write_time : Time \cup {None}, skb_ptr : Skb \cup {None},
   free_time : Time \cup {None}, free_func : Loc \cup {"NOT FOUND", None}]

PageEntry ==
  [alloc_time : Time, frags : Seq(Entry), free_time : Time \cup {None}]

NewEntry(t, ptr, location) ==
  [ptr |-> ptr, alloc_time |-> t, alloc_func |-> location,
   data_write_time |-> None, skb_ptr |-> None,
   free_time |-> None, free_func |-> None]

(* d[key] = value, and d without the key.                                  *)
Put(d, key, value) ==
  [k \in DOMAIN d \cup {key} |-> IF k = key THEN value ELSE d[k]]
Pop(d, key) == [k \in DOMAIN d \ {key} |-> d[k]]

(* A dict's order without a key.                                           *)
Without(order, key) ==
  LET k == CHOOSE j \in DOMAIN order : order[j] = key
  IN  [j \in 1 .. Len(order) - 1 |-> IF j < k THEN order[j] ELSE order[j + 1]]

EmptyDict == [k \in {} |-> None]

(* index_cond(frags, lambda x: x["ptr"] == ptr): it returns k, the index   *)
(* of the first such fragment, or else -1.                                 *)
FragIndex(frags, ptr, k) ==
  /\ frags[k].ptr = ptr
  /\ \A j \in 1 .. k - 1 : frags[j].ptr # ptr

NoFragIndex(frags, ptr) == \A k \in DOMAIN frags : frags[k].ptr # ptr

RealUseTime(entry) == entry.free_time - entry.data_write_time

(* A table row can be computed from an entry: the keys it reads are set.   *)
Complete(entry) == entry.free_time # None /\ entry.data_write_time # None

Row(type, ptr, entry, page, reuse, page_free) ==
  [type |-> type, ptr |-> ptr, page |-> page,
   lifetime |-> reuse - entry.alloc_time,
   use_time |-> entry.free_time - entry.alloc_time,
   free_time |-> reuse - entry.free_time,
   page_free_time |-> IF page_free = None THEN None ELSE reuse - page_free,
   none_page_free_time |->
     IF page_free = None THEN None
     ELSE (reuse - entry.free_time) - (reuse - page_free),
   real_use_time |-> RealUseTime(entry),
   alloc_func |-> entry.alloc_func, free_func |-> entry.free_func]
-----------------------------------------------------------------------------
Init ==
  /\ active_skb_ptrs = EmptyDict
  /\ skb_order = << >>
  /\ active_pages = EmptyDict
  /\ freed_skb_ptrs = EmptyDict
  /\ freed_pages = EmptyDict
  /\ consume_skb_locations = EmptyDict
  /\ rows = << >>
  /\ printed = {}
  /\ failure = "none"
  /\ now = 0

(* The loop takes the next event; an uncaught exception has ended it.      *)
Take(t) == failure = "none" /\ now' = t

(* An exception ends the program before any table is printed; what the     *)
(* dicts hold by then is never read again.                                 *)
Raise(exception) ==
  /\ failure' = exception
  /\ rows' = << >>
  /\ printed' = {}
  /\ UNCHANGED dicts

Appends(newRows) == rows' = newRows /\ failure' = failure
Prints(messages) == printed' = messages
Silent == Appends(<< >>) /\ Prints({})

(* The loop's "continue": the event is ignored.                            *)
Continue == Silent /\ UNCHANGED dicts
-----------------------------------------------------------------------------
(* Mutant: the freed page is looked up but not removed.                    *)
FreedAfterAlloc_Kept(page) == freed_pages

FreedAfterAlloc(page) == Pop(freed_pages, page)

(* mm_page_alloc: a freed page that is allocated again ends the lifetime   *)
(* of the fragments it held.                                               *)
MmPageAlloc(t, page) ==
  /\ Take(t)
  /\ LET frags == IF page \in DOMAIN freed_pages THEN freed_pages[page].frags ELSE << >>
     IN \/ /\ page \in DOMAIN active_pages
           /\ Raise("assert_57")
        \/ /\ page \notin DOMAIN active_pages
           /\ \E k \in DOMAIN frags : ~ Complete(frags[k])
           /\ Raise("KeyError_60_72")
        \/ /\ page \notin DOMAIN active_pages
           /\ \A k \in DOMAIN frags : Complete(frags[k])
           /\ Appends([k \in DOMAIN frags |->
                         Row("frag", frags[k].ptr, frags[k], page, t, freed_pages[page].free_time)])
           /\ Prints({})
           /\ freed_pages' = FreedAfterAlloc(page)
           /\ active_pages' = Put(active_pages, page,
                [alloc_time |-> t, frags |-> << >>, free_time |-> None])
           /\ UNCHANGED <<active_skb_ptrs, skb_order, freed_skb_ptrs, consume_skb_locations>>

(* napi_alloc_frag and netdev_alloc_frag.                                  *)
AllocFrag(t, page, ptr, location) ==
  /\ Take(t)
  /\ \/ /\ page \in DOMAIN freed_pages
        /\ Raise("assert_81")
     \/ /\ page \notin DOMAIN freed_pages
        /\ page \notin DOMAIN active_pages
        /\ Continue
     \/ /\ page \notin DOMAIN freed_pages
        /\ page \in DOMAIN active_pages
        /\ active_pages' = [active_pages EXCEPT ![page].frags =
                              Append(@, NewEntry(t, ptr, location))]
        /\ Silent
        /\ UNCHANGED <<active_skb_ptrs, skb_order, freed_skb_ptrs, freed_pages,
                       consume_skb_locations>>

(* finalize_skb_around: the head starts to be used.  The pages are         *)
(* searched for a fragment at ptr; an address lies in one page, so at most *)
(* one page has it whatever the order of the search.                       *)
PagesWith(ptr) ==
  {p \in DOMAIN active_pages : ~ NoFragIndex(active_pages[p].frags, ptr)}

FinalizeSkbAround(t, skb, ptr) ==
  /\ Take(t)
  /\ \/ \E page \in PagesWith(ptr) :
          /\ page \in DOMAIN freed_pages
          /\ Raise("assert_103")
     \/ \E page \in PagesWith(ptr) : \E frag_index \in DOMAIN active_pages[page].frags :
          /\ page \notin DOMAIN freed_pages
          /\ FragIndex(active_pages[page].frags, ptr, frag_index)
          /\ active_pages' = [active_pages EXCEPT
               ![page].frags[frag_index].data_write_time = t,
               ![page].frags[frag_index].skb_ptr = skb]
          /\ Silent
          /\ UNCHANGED <<active_skb_ptrs, skb_order, freed_skb_ptrs, freed_pages,
                         consume_skb_locations>>
     \/ /\ PagesWith(ptr) = {}
        /\ ptr \notin DOMAIN active_skb_ptrs
        /\ Continue
     \/ /\ PagesWith(ptr) = {}
        /\ ptr \in DOMAIN active_skb_ptrs
        /\ active_skb_ptrs' = [active_skb_ptrs EXCEPT
             ![ptr].data_write_time = t, ![ptr].skb_ptr = skb]
        /\ Silent
        /\ UNCHANGED <<skb_order, active_pages, freed_skb_ptrs, freed_pages,
                       consume_skb_locations>>

(* The call site recorded for skb, taken out of consume_skb_locations when *)
(* the head of skb is freed.  Mutants: a default of None, and a look-up    *)
(* that leaves the call site in place.                                     *)
FreeFunc_Get(skb) ==
  IF skb \in DOMAIN consume_skb_locations THEN consume_skb_locations[skb] ELSE None

FreeFunc(skb) ==
  IF skb \in DOMAIN consume_skb_locations
  THEN consume_skb_locations[skb] ELSE "NOT FOUND"

LocationsWithout_Kept(skb) == consume_skb_locations

LocationsWithout(skb) == Pop(consume_skb_locations, skb)

NoLocation(skb, message) ==
  IF skb \in DOMAIN consume_skb_locations THEN {} ELSE {message}

(* skb_head_frag_free                                                      *)
SkbHeadFragFree(t, page, skb, ptr) ==
  /\ Take(t)
  /\ \/ /\ page \in DOMAIN freed_pages
        /\ Raise("assert_122")
     \/ /\ page \notin DOMAIN freed_pages
        /\ page \notin DOMAIN active_pages
        /\ consume_skb_locations' = LocationsWithout(skb)
        /\ Silent
        /\ UNCHANGED <<active_skb_ptrs, skb_order, active_pages, freed_skb_ptrs, freed_pages>>
     \/ /\ page \notin DOMAIN freed_pages
        /\ page \in DOMAIN active_pages
        /\ LET missing == NoLocation(skb, "no consume location")
           IN \/ /\ NoFragIndex(active_pages[page].frags, ptr)
                 /\ Prints(missing \cup {"no frag"})
                 /\ active_pages' = active_pages
              \/ \E frag_index \in DOMAIN active_pages[page].frags :
                   /\ FragIndex(active_pages[page].frags, ptr, frag_index)
                   /\ Prints(missing)
                   /\ active_pages' = [active_pages EXCEPT
                        ![page].frags[frag_index].free_time = t,
                        ![page].frags[frag_index].free_func = FreeFunc(skb)]
        /\ consume_skb_locations' = LocationsWithout(skb)
        /\ Appends(<< >>)
        /\ UNCHANGED <<active_skb_ptrs, skb_order, freed_skb_ptrs, freed_pages>>

(* The page entry kept when the page is freed.  Mutant: the time of the    *)
(* allocation is taken for that of the free.                               *)
FreedPage_AllocTime(t, entry) == [entry EXCEPT !.free_time = entry.alloc_time]

FreedPage(t, entry) == [entry EXCEPT !.free_time = t]

(* Mutant: the page stays among the active ones.                           *)
ActiveAfterFree_Kept(page) == active_pages

ActiveAfterFree(page) == Pop(active_pages, page)

(* mm_page_free: a page without fragments is forgotten.                    *)
MmPageFree(t, page) ==
  /\ Take(t)
  /\ \/ /\ page \notin DOMAIN active_pages
        /\ Continue
     \/ /\ page \in DOMAIN active_pages
        /\ active_pages[page].frags # << >>
        /\ page \in DOMAIN freed_pages
        /\ Raise("assert_152")
     \/ /\ page \in DOMAIN active_pages
        /\ active_pages[page].frags = << >> \/ page \notin DOMAIN freed_pages
        /\ active_pages' = ActiveAfterFree(page)
        /\ freed_pages' =
             IF active_pages[page].frags = << >> THEN freed_pages
             ELSE Put(freed_pages, page, FreedPage(t, active_pages[page]))
        /\ Silent
        /\ UNCHANGED <<active_skb_ptrs, skb_order, freed_skb_ptrs, consume_skb_locations>>

(* Mutant: the entry of a head that was freed is discarded unreported.     *)
FreedAfterKmalloc_Discard(ptr) == Pop(freed_skb_ptrs, ptr)

FreedAfterKmalloc(ptr) == freed_skb_ptrs

(* skb_head_kmalloc: assigning to a key that is present keeps its place in *)
(* the dict's order.                                                       *)
SkbHeadKmalloc(t, ptr, location) ==
  /\ Take(t)
  /\ \/ /\ ptr \in DOMAIN active_skb_ptrs
        /\ ptr \in DOMAIN freed_skb_ptrs
        /\ Raise("assert_157")
     \/ /\ ptr \notin DOMAIN active_skb_ptrs \/ ptr \notin DOMAIN freed_skb_ptrs
        /\ active_skb_ptrs' = Put(active_skb_ptrs, ptr, NewEntry(t, ptr, location))
        /\ skb_order' = IF ptr \in DOMAIN active_skb_ptrs THEN skb_order
                        ELSE Append(skb_order, ptr)
        /\ freed_skb_ptrs' = FreedAfterKmalloc(ptr)
        /\ Silent
        /\ UNCHANGED <<active_pages, freed_pages, consume_skb_locations>>

(* alloc_skb_with_frags: the entries are visited in the dict's order up to *)
(* the first one of skb; reading "skb_ptr" of an entry that has none, one  *)
(* that finalize_skb_around has not reached yet, is a KeyError.            *)
Matches(k, skb) == active_skb_ptrs[skb_order[k]].skb_ptr = skb
Visited(skb) ==
  {k \in DOMAIN skb_order : \A j \in 1 .. k - 1 : ~ Matches(j, skb)}

(* Mutant: every head in use gets the location.                            *)
WithAllocFunc_Every(ptr, location) ==
  [p \in DOMAIN active_skb_ptrs |-> [active_skb_ptrs[p] EXCEPT !.alloc_func = location]]

WithAllocFunc(ptr, location) == [active_skb_ptrs EXCEPT ![ptr].alloc_func = location]

AllocSkbWithFrags(t, skb, location) ==
  /\ Take(t)
  /\ \/ /\ \E k \in Visited(skb) : Matches(k, None)
        /\ Raise("KeyError_167")
     \/ /\ \A k \in Visited(skb) : ~ Matches(k, None) /\ ~ Matches(k, skb)
        /\ Continue
     \/ /\ \A k \in Visited(skb) : ~ Matches(k, None)
        /\ \E k \in Visited(skb) :
             Matches(k, skb) /\ active_skb_ptrs' = WithAllocFunc(skb_order[k], location)
        /\ Silent
        /\ UNCHANGED <<skb_order, active_pages, freed_skb_ptrs, freed_pages,
                       consume_skb_locations>>

(* skb_head_kfree                                                          *)
SkbHeadKfree(t, skb, ptr) ==
  /\ Take(t)
  /\ \/ /\ ptr \in DOMAIN freed_skb_ptrs
        /\ Raise("assert_173")
     \/ /\ ptr \notin DOMAIN freed_skb_ptrs
        /\ ptr \notin DOMAIN active_skb_ptrs
        /\ Continue
     \/ /\ ptr \notin DOMAIN freed_skb_ptrs
        /\ ptr \in DOMAIN active_skb_ptrs
        /\ freed_skb_ptrs' = Put(freed_skb_ptrs, ptr,
             [active_skb_ptrs[ptr] EXCEPT !.free_time = t, !.free_func = FreeFunc(skb)])
        /\ active_skb_ptrs' = Pop(active_skb_ptrs, ptr)
        /\ skb_order' = Without(skb_order, ptr)
        /\ consume_skb_locations' = LocationsWithout(skb)
        /\ Appends(<< >>)
        /\ Prints(NoLocation(skb, "not in consume locations"))
        /\ UNCHANGED <<active_pages, freed_pages>>

FreedAfterReuse(ptr) == Pop(freed_skb_ptrs, ptr)

(* kmalloc and skb_small_head_alloc: the memory of a freed head is used    *)
(* again, which ends its lifetime.                                         *)
Kmalloc(t, ptr) ==
  /\ Take(t)
  /\ \/ /\ ptr \notin DOMAIN freed_skb_ptrs
        /\ Continue
     \/ /\ ptr \in DOMAIN freed_skb_ptrs
        /\ ~ Complete(freed_skb_ptrs[ptr])
        /\ Raise("KeyError_199")
     \/ /\ ptr \in DOMAIN freed_skb_ptrs
        /\ Complete(freed_skb_ptrs[ptr])
        /\ Appends(<<Row("kmalloc", ptr, freed_skb_ptrs[ptr], None, t, None)>>)
        /\ Prints({})
        /\ freed_skb_ptrs' = FreedAfterReuse(ptr)
        /\ UNCHANGED <<active_skb_ptrs, skb_order, active_pages, freed_pages,
                       consume_skb_locations>>

LocationsWith(skb, location) == Put(consume_skb_locations, skb, location)

(* consume_skb and kfree_skb                                               *)
ConsumeSkb(t, skb, location) ==
  /\ Take(t)
  /\ Prints(IF skb \in DOMAIN consume_skb_locations THEN {"location already recorded"} ELSE {})
  /\ Appends(<< >>)
  /\ consume_skb_locations' = LocationsWith(skb, location)
  /\ UNCHANGED <<active_skb_ptrs, skb_order, active_pages, freed_skb_ptrs, freed_pages>>
-----------------------------------------------------------------------------
(* Any trace: events in any order and with any operands, their timestamps  *)
(* not decreasing, the page of a fragment event being the one its address  *)
(* lies in.                                                                *)
HasRoom(page) == page \in DOMAIN active_pages => Len(active_pages[page].frags) < MaxFrags

Next ==
  \E t \in now .. MaxTime :
    \/ \E page \in Page : MmPageAlloc(t, page)
    \/ \E page \in Page : MmPageFree(t, page)
    \/ \E ptr \in Ptr, location \in Loc :
         HasRoom(PageOf[ptr]) /\ AllocFrag(t, PageOf[ptr], ptr, location)
    \/ \E skb \in Skb, ptr \in Ptr : FinalizeSkbAround(t, skb, ptr)
    \/ \E skb \in Skb, ptr \in Ptr : SkbHeadFragFree(t, PageOf[ptr], skb, ptr)
    \/ \E ptr \in Ptr, location \in Loc : SkbHeadKmalloc(t, ptr, location)
    \/ \E skb \in Skb, location \in Loc : AllocSkbWithFrags(t, skb, location)
    \/ \E skb \in Skb, ptr \in Ptr : SkbHeadKfree(t, skb, ptr)
    \/ \E ptr \in Ptr : Kmalloc(t, ptr)
    \/ \E skb \in Skb, location \in Loc : ConsumeSkb(t, skb, location)

Spec == Init /\ [][Next]_vars
-----------------------------------------------------------------------------
IsDict(d, Key, Value) == DOMAIN d \subseteq Key /\ d \in [DOMAIN d -> Value]

Unfreed(entry) == entry.free_time = None /\ entry.free_func = None
Released(entry) == entry.free_time # None /\ entry.free_func # None

Failure ==
  {"none", "assert_57", "KeyError_60_72", "assert_81", "assert_103", "assert_122",
   "assert_152", "assert_157", "KeyError_167", "assert_173", "KeyError_199"}

TypeOK ==
  /\ IsDict(active_skb_ptrs, Ptr, {e \in Entry : Unfreed(e)})
  /\ skb_order \in Seq(Ptr)
  /\ IsDict(active_pages, Page, {e \in PageEntry : e.free_time = None})
  /\ IsDict(freed_skb_ptrs, Ptr, {e \in Entry : Released(e)})
  /\ IsDict(freed_pages, Page, {e \in PageEntry : e.free_time # None})
  /\ IsDict(consume_skb_locations, Skb, Loc)
  /\ failure \in Failure
  /\ now \in Time

(* Whatever the trace, the assertions at lines 103 and 152 cannot fail: a  *)
(* page is never among the active and the freed pages at the same time.    *)
PageAssertionsHold == failure \notin {"assert_103", "assert_152"}

(* Whatever the trace, no duration in the table is negative, the page part *)
(* of a fragment's free time is no longer than the whole, and the data of  *)
(* a kmalloc'ed head was in memory no longer than the head was in use.     *)
DurationsOrdered ==
  \A k \in DOMAIN rows :
    LET r == rows[k] IN
    /\ r.use_time >= 0 /\ r.free_time >= 0
    /\ r.type = "frag" => 0 <= r.page_free_time /\ 0 <= r.none_page_free_time
    /\ r.type = "kmalloc" => 0 <= r.real_use_time /\ r.real_use_time <= r.use_time

(* Whatever the trace, a freed head or page is kept until it is reported:  *)
(* an entry leaves freed_skb_ptrs or freed_pages only in the step that     *)
(* appends its rows, or those of every fragment of the page.               *)
ReportedAt(ptr) == \E k \in DOMAIN rows' : rows'[k].ptr = ptr

KeptUntilReported ==
  [][/\ \A ptr \in DOMAIN freed_skb_ptrs \ DOMAIN freed_skb_ptrs' : ReportedAt(ptr)
     /\ \A page \in DOMAIN freed_pages \ DOMAIN freed_pages' :
          \A k \in DOMAIN freed_pages[page].frags : ReportedAt(freed_pages[page].frags[k].ptr)]_vars
=============================================================================
