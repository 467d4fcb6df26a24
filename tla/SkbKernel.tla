----------------------------- MODULE SkbKernel -----------------------------
(***************************************************************************)
(* The part of the Linux kernel that emits the events analyze_trace.py     *)
(* reads: allocation and release of sk_buffs, of their heads and of the    *)
(* pages heads are cut from.  The kernel is not part of this repository;   *)
(* the model follows the order of events in src/logs and the description   *)
(* in "src/obsidian/SKB Memory Allocation and Freeing.md".                 *)
(*                                                                         *)
(* A context is a CPU's task, softirq or interrupt level.  Allocating and  *)
(* releasing an skb takes several events; those of different contexts      *)
(* interleave.  A kernel has features, the behaviours beyond plain         *)
(* allocation and release, and the memory and call sites it uses, so that  *)
(* each feature can be studied by itself.                                  *)
(***************************************************************************)
EXTENDS FiniteSets

CONSTANTS Ctx, Skb, Kmem, Frag, Page, PageOf, Loc, None, Kernels

AllFeatures ==
  {"pre_trace",          \* the trace starts on a kernel that is running
   "clones",             \* skb_clone: sk_buffs share a head
   "untraced_free",      \* __kfree_skb without a consume_skb/kfree_skb event
   "untraced_kmalloc",   \* head memory allocated without a kmalloc event
   "with_frags",         \* the alloc_skb_with_frags event is enabled
   "stolen_heads",       \* kfree_skb_partial and napi_skb_free_stolen_head
   "recycled_pages"}     \* page_frag_alloc starts over in a page that is idle

Ptr == Kmem \cup Frag

ASSUME PtrAssumption == Kmem \cap Frag = {} /\ PageOf \in [Ptr -> Page]
ASSUME NullAssumption == None \notin Ptr \cup Skb
ASSUME KernelsAssumption ==
  \A k \in Kernels : k.features \subseteq AllFeatures /\ k.mem \subseteq Ptr /\ k.locs \subseteq Loc

VARIABLES
  kernel,     \* the one of Kernels that is traced
  ctx,        \* what each context is doing
  head_of,    \* the head of each sk_buff, None when the struct is free
  used,       \* heads and fragments whose memory is allocated
  page_used,  \* pages that are allocated
  handed      \* fragments handed out of the current use of their page

kvars == <<kernel, ctx, head_of, used, page_used, handed>>

Idle == [at |-> "idle", skb |-> None, ptr |-> None, loc |-> None]
At(c, label) == ctx[c].at = label
Busy(skb) == \E c \in Ctx : ctx[c].skb = skb
FragsOf(page) == {f \in Frag : PageOf[f] = page}

(* No sk_buff and no context refers to the memory at ptr.                  *)
Unreferenced(ptr) ==
  /\ \A skb \in Skb : head_of[skb] # ptr
  /\ \A c \in Ctx : ctx[c].ptr # ptr

Shared(skb) == \E s \in Skb \ {skb} : head_of[s] = head_of[skb]
-----------------------------------------------------------------------------
(* Consistent memory: heads of sk_buffs are allocated, shared only by      *)
(* clones, and fragments in use were handed out of an allocated page.      *)
MemoryConsistent ==
  /\ used \in SUBSET kernel.mem
  /\ page_used \in SUBSET Page
  /\ handed \in SUBSET {f \in Frag \cap kernel.mem : PageOf[f] \in page_used}
  /\ used \cap Frag \subseteq handed
  /\ head_of \in [Skb -> used \cup {None}]
  /\ "clones" \notin kernel.features => \A skb \in Skb : head_of[skb] # None => ~ Shared(skb)

(* What a context can be doing: it has memory that is not yet the head of  *)
(* its sk_buff, or an sk_buff with its head.                               *)
CtxState ==
  {Idle}
    \cup {s \in [at : {"kmalloced"}, skb : Skb, ptr : Kmem \cap used, loc : {None}]
                  \cup [at : {"reserved"}, skb : Skb, ptr : used, loc : {None}] :
            head_of[s.skb] = None /\ \A skb \in Skb : head_of[skb] # s.ptr}
    \cup {s \in [at : {"finalized"}, skb : Skb, ptr : Kmem \cap used, loc : {None}]
                  \cup [at : {"consumed"}, skb : Skb, ptr : used, loc : Loc] :
            /\ head_of[s.skb] = s.ptr
            /\ s.at = "finalized" => "with_frags" \in kernel.features}

(* An sk_buff, or memory without one, is worked on by one context only.    *)
ContextsConsistent ==
  /\ ctx \in [Ctx -> CtxState]
  /\ \A c, d \in Ctx : c # d /\ ~ At(c, "idle") =>
       /\ ctx[c].skb # ctx[d].skb
       /\ At(c, "kmalloced") \/ At(c, "reserved") => ctx[c].ptr # ctx[d].ptr

(* The trace starts on an idle kernel, or on one in any consistent state.  *)
KInit ==
  /\ kernel \in Kernels
  /\ MemoryConsistent
  /\ ContextsConsistent
  /\ "pre_trace" \notin kernel.features =>
       /\ ctx = [c \in Ctx |-> Idle]
       /\ head_of = [skb \in Skb |-> None]
       /\ used = {} /\ page_used = {} /\ handed = {}
-----------------------------------------------------------------------------
(* Each of the following emits the event it is named after.                *)

(* kmalloc_reserve in __alloc_skb: kmalloc or the small head cache.        *)
KReserve(c, skb, ptr) ==
  /\ At(c, "idle")
  /\ head_of[skb] = None /\ ~ Busy(skb)
  /\ ptr \in (Kmem \cap kernel.mem) \ used
  /\ used' = used \cup {ptr}
  /\ ctx' = [ctx EXCEPT ![c] = [at |-> "kmalloced", skb |-> skb, ptr |-> ptr, loc |-> None]]
  /\ UNCHANGED <<head_of, page_used, handed>>

(* kmalloc by another part of the kernel.                                  *)
KOtherKmalloc(ptr) ==
  /\ ptr \in (Kmem \cap kernel.mem) \ used
  /\ used' = used \cup {ptr}
  /\ UNCHANGED <<ctx, head_of, page_used, handed>>

(* skb_head_kmalloc                                                        *)
KHeadKmalloc(c) ==
  /\ At(c, "kmalloced")
  /\ ctx' = [ctx EXCEPT ![c].at = "reserved"]
  /\ UNCHANGED <<head_of, used, page_used, handed>>

(* napi_alloc_frag, netdev_alloc_frag                                      *)
KAllocFrag(c, skb, ptr) ==
  /\ At(c, "idle")
  /\ head_of[skb] = None /\ ~ Busy(skb)
  /\ ptr \in (Frag \cap kernel.mem) \ handed /\ PageOf[ptr] \in page_used
  /\ used' = used \cup {ptr}
  /\ handed' = handed \cup {ptr}
  /\ ctx' = [ctx EXCEPT ![c] = [at |-> "reserved", skb |-> skb, ptr |-> ptr, loc |-> None]]
  /\ UNCHANGED <<head_of, page_used>>

(* finalize_skb_around; alloc_skb_with_frags has an event of its own to    *)
(* emit after __alloc_skb has returned.                                    *)
KFinalize(c) ==
  /\ At(c, "reserved")
  /\ head_of' = [head_of EXCEPT ![ctx[c].skb] = ctx[c].ptr]
  /\ \/ ctx' = [ctx EXCEPT ![c] = Idle]
     \/ /\ "with_frags" \in kernel.features /\ ctx[c].ptr \in Kmem
        /\ ctx' = [ctx EXCEPT ![c].at = "finalized"]
  /\ UNCHANGED <<used, page_used, handed>>

(* alloc_skb_with_frags                                                    *)
KWithFrags(c) ==
  /\ At(c, "finalized")
  /\ ctx' = [ctx EXCEPT ![c] = Idle]
  /\ UNCHANGED <<head_of, used, page_used, handed>>

(* consume_skb, kfree_skb                                                  *)
KConsume(c, skb, loc) ==
  /\ At(c, "idle")
  /\ head_of[skb] # None /\ ~ Busy(skb)
  /\ ctx' = [ctx EXCEPT ![c] =
               [at |-> "consumed", skb |-> skb, ptr |-> head_of[skb], loc |-> loc]]
  /\ UNCHANGED <<head_of, used, page_used, handed>>

(* skb_head_kfree or skb_head_frag_free: the last reference to the head    *)
(* goes, and the sk_buff with it.                                          *)
KReleaseHead(c) ==
  /\ At(c, "consumed")
  /\ ~ Shared(ctx[c].skb)
  /\ used' = used \ {ctx[c].ptr}
  /\ head_of' = [head_of EXCEPT ![ctx[c].skb] = None]
  /\ ctx' = [ctx EXCEPT ![c] = Idle]
  /\ UNCHANGED <<page_used, handed>>

(* The same without a consume_skb event before it.                         *)
KReleaseUntraced(skb) ==
  /\ "untraced_free" \in kernel.features
  /\ head_of[skb] # None /\ ~ Busy(skb) /\ ~ Shared(skb)
  /\ used' = used \ {head_of[skb]}
  /\ head_of' = [head_of EXCEPT ![skb] = None]
  /\ UNCHANGED <<ctx, page_used, handed>>

(* mm_page_alloc                                                           *)
KPageAlloc(page) ==
  /\ page \notin page_used
  /\ page_used' = page_used \cup {page}
  /\ UNCHANGED <<ctx, head_of, used, handed>>

(* mm_page_free: when the last fragment and the cache's reference are gone.*)
KPageFree(page) ==
  /\ page \in page_used
  /\ FragsOf(page) \cap used = {}
  /\ page_used' = page_used \ {page}
  /\ handed' = handed \ FragsOf(page)
  /\ UNCHANGED <<ctx, head_of, used>>
-----------------------------------------------------------------------------
(* Steps that emit no event the analyzer reads.                            *)
KSilent ==
  \* skb_clone
  \/ /\ "clones" \in kernel.features
     /\ \E skb, clone \in Skb :
          /\ head_of[skb] # None /\ ~ Busy(skb)
          /\ head_of[clone] = None /\ ~ Busy(clone)
          /\ head_of' = [head_of EXCEPT ![clone] = head_of[skb]]
     /\ UNCHANGED <<ctx, used, page_used, handed>>
  \* a consumed clone drops its reference; the head stays
  \/ \E c \in Ctx :
       /\ At(c, "consumed") /\ Shared(ctx[c].skb)
       /\ head_of' = [head_of EXCEPT ![ctx[c].skb] = None]
       /\ ctx' = [ctx EXCEPT ![c] = Idle]
       /\ UNCHANGED <<used, page_used, handed>>
  \* kmalloc_reserve with the allocation event missing from the trace
  \/ /\ "untraced_kmalloc" \in kernel.features
     /\ \E c \in Ctx, skb \in Skb, ptr \in Kmem : KReserve(c, skb, ptr)
  \* kfree of memory that is no skb's, put_page of a stolen head
  \/ \E ptr \in used :
       /\ Unreferenced(ptr)
       /\ used' = used \ {ptr}
       /\ UNCHANGED <<ctx, head_of, page_used, handed>>
  \* the head becomes a fragment of another skb, the sk_buff is freed
  \/ /\ "stolen_heads" \in kernel.features
     /\ \E skb \in Skb :
          /\ head_of[skb] \in Frag /\ ~ Busy(skb)
          /\ head_of' = [head_of EXCEPT ![skb] = None]
     /\ UNCHANGED <<ctx, used, page_used, handed>>
  \* all fragments of the cache's page are free: it starts over in it
  \/ /\ "recycled_pages" \in kernel.features
     /\ \E page \in page_used :
          /\ FragsOf(page) \cap handed # {} /\ FragsOf(page) \cap used = {}
          /\ handed' = handed \ FragsOf(page)
     /\ UNCHANGED <<ctx, head_of, used, page_used>>
=============================================================================
