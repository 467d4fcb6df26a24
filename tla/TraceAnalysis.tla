--------------------------- MODULE TraceAnalysis ---------------------------
(***************************************************************************)
(* The kernel and the analyzer together: every event the kernel emits is   *)
(* appended to the trace with a timestamp and handled by the event loop.   *)
(* The analyzer runs later than the kernel but sees the same events in the *)
(* same order, so one step does both.  life is a history variable: the     *)
(* true lifetimes, recorded from what the kernel does.                     *)
(***************************************************************************)
EXTENDS Integers, Sequences, SkbKernel

CONSTANTS
  MaxTime,    \* bound on the timestamps of a trace
  MaxFrags    \* bound on the fragments handed out from one page

ASSUME TableAssumption ==
  /\ None \notin Nat \cup Skb \cup Loc \cup {"NOT FOUND"}
  /\ MaxTime \in Nat /\ MaxFrags \in Nat

VARIABLES
  active_skb_ptrs, skb_order, active_pages, freed_skb_ptrs, freed_pages,
  consume_skb_locations, rows, printed, failure, now,
  life,       \* the lifetime each head is in
  seen        \* pages whose current allocation is in the trace

A == INSTANCE TraceAnalyzer

Func == Loc \cup {"NOT FOUND"}

(* The table as the ideal meter reports it.                                *)
Report ==
  {[ptr |-> r.ptr, lifetime |-> r.lifetime, use_time |-> r.use_time,
    free_time |-> r.free_time, page_free_time |-> r.page_free_time,
    none_page_free_time |-> r.none_page_free_time, real_use_time |-> r.real_use_time,
    alloc_func |-> r.alloc_func, free_func |-> r.free_func] :
     r \in {rows[k] : k \in DOMAIN rows}}

M == INSTANCE LifetimeMeter WITH report <- Report

vars == <<kvars, A!vars, life, seen>>
-----------------------------------------------------------------------------
Phase(ptr, phase) == life[ptr].phase = phase
Becomes(ptr, l) == life' = [life EXCEPT ![ptr] = l]
AllUnknown(S) ==
  life' = [ptr \in Ptr |-> IF ptr \in S /\ Phase(ptr, "freed") THEN M!Unknown ELSE life[ptr]]

Init ==
  /\ KInit
  /\ A!Init
  /\ life = [ptr \in Ptr |-> M!Unknown]
  /\ seen = {}

Reserve(t) ==
  \E c \in Ctx, skb \in Skb, ptr \in Kmem :
    /\ KReserve(c, skb, ptr)
    /\ A!Kmalloc(t, ptr)
    /\ AllUnknown({ptr}) /\ UNCHANGED seen

OtherKmalloc(t) ==
  \E ptr \in Kmem :
    /\ KOtherKmalloc(ptr)
    /\ A!Kmalloc(t, ptr)
    /\ AllUnknown({ptr}) /\ UNCHANGED seen

HeadKmalloc(t) ==
  \E c \in Ctx, loc \in kernel.locs :
    /\ KHeadKmalloc(c)
    /\ A!SkbHeadKmalloc(t, ctx[c].ptr, loc)
    /\ Becomes(ctx[c].ptr, M!Allocated(M!Unknown, t, loc)) /\ UNCHANGED seen

AllocFrag(t) ==
  \E c \in Ctx, skb \in Skb, ptr \in Frag, loc \in kernel.locs :
    /\ A!HasRoom(PageOf[ptr])
    /\ KAllocFrag(c, skb, ptr)
    /\ A!AllocFrag(t, PageOf[ptr], ptr, loc)
    /\ IF PageOf[ptr] \in seen THEN Becomes(ptr, M!Allocated(M!Unknown, t, loc))
       ELSE UNCHANGED life
    /\ UNCHANGED seen

Finalize(t) ==
  \E c \in Ctx :
    /\ KFinalize(c)
    /\ A!FinalizeSkbAround(t, ctx[c].skb, ctx[c].ptr)
    /\ IF Phase(ctx[c].ptr, "allocated")
       THEN Becomes(ctx[c].ptr, M!Written(life[ctx[c].ptr], t)) ELSE UNCHANGED life
    /\ UNCHANGED seen

WithFrags(t) ==
  \E c \in Ctx, loc \in kernel.locs :
    /\ KWithFrags(c)
    /\ A!AllocSkbWithFrags(t, ctx[c].skb, loc)
    /\ IF Phase(ctx[c].ptr, "written")
       THEN Becomes(ctx[c].ptr, [life[ctx[c].ptr] EXCEPT !.alloc_func = loc])
       ELSE UNCHANGED life
    /\ UNCHANGED seen

Consume(t) ==
  \E c \in Ctx, skb \in Skb, loc \in kernel.locs :
    /\ KConsume(c, skb, loc)
    /\ A!ConsumeSkb(t, skb, loc)
    /\ UNCHANGED <<life, seen>>

(* The event of skb_free_head, by where the head came from.                *)
HeadFree(t, skb, ptr, func) ==
  /\ \/ ptr \in Kmem /\ A!SkbHeadKfree(t, skb, ptr)
     \/ ptr \in Frag /\ A!SkbHeadFragFree(t, PageOf[ptr], skb, ptr)
  /\ IF Phase(ptr, "written") THEN Becomes(ptr, M!Freed(life[ptr], t, func))
     ELSE UNCHANGED life
  /\ UNCHANGED seen

ReleaseHead(t) ==
  \E c \in Ctx : KReleaseHead(c) /\ HeadFree(t, ctx[c].skb, ctx[c].ptr, ctx[c].loc)

ReleaseUntraced(t) ==
  \E skb \in Skb : KReleaseUntraced(skb) /\ HeadFree(t, skb, head_of[skb], "NOT FOUND")

PageAlloc(t) ==
  \E page \in Page :
    /\ KPageAlloc(page)
    /\ A!MmPageAlloc(t, page)
    /\ AllUnknown(FragsOf(page))
    /\ seen' = seen \cup {page}

PageFree(t) ==
  \E page \in Page :
    /\ KPageFree(page)
    /\ A!MmPageFree(t, page)
    /\ life' = [ptr \in Ptr |->
                  IF ptr \in FragsOf(page) /\ page \in seen /\ Phase(ptr, "freed")
                  THEN [life[ptr] EXCEPT !.page_free = t] ELSE life[ptr]]
    /\ seen' = seen \ {page}

Silent ==
  /\ failure = "none"
  /\ KSilent
  /\ A!Continue
  /\ UNCHANGED <<now, life, seen>>

Event(t) ==
  \/ Reserve(t) \/ OtherKmalloc(t) \/ HeadKmalloc(t) \/ AllocFrag(t)
  \/ Finalize(t) \/ WithFrags(t) \/ Consume(t) \/ ReleaseHead(t)
  \/ ReleaseUntraced(t) \/ PageAlloc(t) \/ PageFree(t)

Next ==
  /\ \/ \E t \in {now, now + 1} : t <= MaxTime /\ t <= kernel.last /\ Event(t)
     \/ Silent
  /\ UNCHANGED kernel

Spec == Init /\ [][Next]_vars
-----------------------------------------------------------------------------
(* No BUG message and no stale call site can be expected when the trace    *)
(* has heads whose allocation by kmalloc it does not show.                 *)
AllHeadsTraced ==
  \/ kernel.features \subseteq {"with_frags"}
  \/ kernel.features \subseteq {"pre_trace"} /\ kernel.mem \subseteq Frag

(* What it takes for each failure of the event loop.                       *)
Causes ==
  [KeyError_60_72 |-> {"recycled_pages", "stolen_heads"},
   KeyError_167 |-> {"with_frags"},
   assert_173 |-> {"untraced_kmalloc"}]

(* The analyzer reaches the end of the trace on every kernel that does     *)
(* none of three things: an incomplete row (lines 60-72) needs a page that *)
(* is handed out again or a head that leaves its skb, the look-up at line  *)
(* 167 an alloc_skb_with_frags event, the assertion at line 173 memory     *)
(* allocated without an event.  The other seven checks never fail.         *)
FailureExplained ==
  failure # "none" =>
    failure \in DOMAIN Causes /\ Causes[failure] \cap kernel.features # {}

(* Clones and alloc_skb_with_frags do not go together: the entry of a head *)
(* keeps the sk_buff it was first used for, so when that sk_buff has gone  *)
(* to another head while a clone keeps the first, the search at line 167   *)
(* finds the wrong one.                                                    *)
Metered ==
  \/ kernel.features \subseteq {"pre_trace", "clones"}
  \/ kernel.features \subseteq {"pre_trace", "with_frags"}

(* The table is the one the ideal meter reports: every lifetime that ends  *)
(* in the trace, when it ends, with its true durations and functions, and  *)
(* nothing else, on a kernel with at most these features.                  *)
MeterSpec ==
  M!MInit /\ [][Metered => M!MNext]_(M!mvars)

(* A call site is remembered only while its skb is being released, so it   *)
(* cannot be attributed to a later user of the same sk_buff address, and   *)
(* none of the situations the script itself calls a BUG arises.            *)
LocationsFresh ==
  AllHeadsTraced =>
    /\ \A skb \in DOMAIN consume_skb_locations :
         \E c \in Ctx : At(c, "consumed") /\ ctx[c].skb = skb
    /\ printed = {}

(* Line 173 asserts that a head that is freed is not waiting for its reuse *)
(* already, that is, that its memory was seen to be allocated in between.  *)
HeadReuseSeen == failure # "assert_173"
=============================================================================
