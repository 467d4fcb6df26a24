------------------------ MODULE TraceAnalysisProofs -------------------------
(***************************************************************************)
(* The event loop of analyze_trace.py on a trace of any kernel, with any   *)
(* number of contexts, sk_buffs, heads, fragments, pages and call sites:   *)
(* why it can stop, and that a call site is remembered only while its skb  *)
(* is being released.                                                      *)
(* The argument has three layers: an invariant of the kernel (KernelInv)   *)
(* and what each of its steps does to the memory it holds; what each event *)
(* does to the dicts (the Effect lemmas, from the analyzer's definitions   *)
(* alone); and the correspondence between the two (Good).                  *)
(***************************************************************************)
EXTENDS TraceAnalysis, TLAPS
(* A leaf that cites no prover is for Zenon.                               *)
USE Zenon
-----------------------------------------------------------------------------
(* The kernel.                                                             *)

(* None is no address, as NullAssumption says, in the form the proofs use. *)
LEMMA NoneIsNull ==
  /\ \A ptr \in Ptr : ptr # None
  /\ \A skb \in Skb : skb # None
BY NullAssumption

(* None is no timestamp and no call site.                                  *)
LEMMA NoneIsUnset ==
  /\ \A t \in Nat : t # None
  /\ \A func \in Func : func # None
BY TableAssumption DEF Func

(* A context is idle, or has memory and an sk_buff to work on.             *)
Works(s, U, H, F) ==
  \/ s = Idle
  \/ /\ s.at \in {"kmalloced", "reserved", "finalized", "consumed"}
     /\ s.skb \in Skb /\ s.ptr \in U
     /\ s.at \in {"kmalloced", "finalized"} => s.ptr \in Kmem
     /\ s.at = "consumed" => s.loc \in Loc
     /\ s.at \in {"kmalloced", "reserved"} =>
          H[s.skb] = None /\ \A skb \in Skb : H[skb] # s.ptr
     /\ s.at \in {"finalized", "consumed"} => H[s.skb] = s.ptr
     /\ s.at = "finalized" => "with_frags" \in F

(* The fields of a context's state, whatever it is doing.                  *)
WorkState ==
  [at : {"idle", "kmalloced", "reserved", "finalized", "consumed"},
   skb : Skb \cup {None}, ptr : Ptr \cup {None}, loc : Loc \cup {None}]

(* An sk_buff, and memory that is not yet its head, is in the hands of one *)
(* context.                                                                *)
Exclusive ==
  \A c, d \in Ctx : c # d /\ ~ At(c, "idle") =>
     /\ ctx[c].skb # ctx[d].skb
     /\ At(c, "kmalloced") \/ At(c, "reserved") => ctx[c].ptr # ctx[d].ptr

(* The inductive invariant of the kernel: consistent memory, and contexts  *)
(* that agree with it.                                                     *)
KernelInv ==
  /\ kernel \in Kernels
  /\ MemoryConsistent
  /\ ctx \in [Ctx -> WorkState]
  /\ \A c \in Ctx : Works(ctx[c], used, head_of, kernel.features)
  /\ Exclusive

(* The kernel's memory and call sites are among those of the model.        *)
LEMMA KernelMem ==
  ASSUME KernelInv
  PROVE used \subseteq Ptr /\ kernel.locs \subseteq Loc
BY KernelsAssumption DEF KernelInv, MemoryConsistent

(* A trace starts on a kernel that satisfies the invariant.                *)
LEMMA KInitInv ==
  ASSUME KInit PROVE KernelInv
<1>1. kernel \in Kernels /\ MemoryConsistent /\ ctx \in [Ctx -> CtxState] /\ Exclusive
  BY DEF KInit, ContextsConsistent, Exclusive
<1>2. used \subseteq Ptr
  BY <1>1, KernelsAssumption DEF MemoryConsistent
<1>3. CtxState \subseteq WorkState
  BY <1>2, SMTT(30) DEF CtxState, WorkState, Idle
<1>4. ASSUME NEW c \in Ctx PROVE Works(ctx[c], used, head_of, kernel.features)
  <2>1. ctx[c] \in CtxState
    BY <1>1
  <2> QED
    BY <2>1 DEF CtxState, Works, At
<1> QED
  BY <1>1, <1>3, <1>4 DEF KernelInv

(* A context keeps what it works on when another takes a step.             *)
LEMMA WorkKept ==
  ASSUME NEW s, NEW U, NEW H, NEW V, NEW G, NEW F, Works(s, U, H, F),
         s.at # "idle" => s.ptr \in V /\ G[s.skb] = H[s.skb],
         s.at \in {"kmalloced", "reserved"} => \A skb \in Skb : G[skb] # s.ptr
  PROVE  Works(s, V, G, F)
BY DEF Works

(* The other contexts keep their work, and s is none of it.                *)
Undisturbed(c, s) ==
  /\ \A d \in Ctx \ {c} : ~ At(d, "idle") =>
       /\ ctx[d].ptr \in used' /\ head_of'[ctx[d].skb] = head_of[ctx[d].skb]
       /\ At(d, "kmalloced") \/ At(d, "reserved") =>
            s.ptr # ctx[d].ptr /\ \A skb \in Skb : head_of'[skb] # ctx[d].ptr
  /\ s.at # "idle" => \A d \in Ctx \ {c} : s.skb # ctx[d].skb
  /\ s.at \in {"kmalloced", "reserved"} => \A d \in Ctx \ {c} : s.ptr # ctx[d].ptr

(* A step of one context that leaves the work of the others alone.         *)
LEMMA ContextStep ==
  ASSUME KernelInv, UNCHANGED kernel, MemoryConsistent',
         NEW c \in Ctx, NEW s \in WorkState, ctx' = [ctx EXCEPT ![c] = s],
         Works(s, used', head_of', kernel.features),
         Undisturbed(c, s)
  PROVE  KernelInv'
<1>1. ctx' \in [Ctx -> WorkState]
  BY DEF KernelInv
<1>2. ASSUME NEW d \in Ctx PROVE Works(ctx'[d], used', head_of', kernel.features)
  BY WorkKept DEF KernelInv, At, Undisturbed
<1>3. Exclusive'
  BY NoneIsNull, SMTT(30) DEF KernelInv, Exclusive, At, Works, Idle, Undisturbed
<1> QED
  BY <1>1, <1>2, <1>3 DEF KernelInv

(* A step that no context takes part in.                                   *)
LEMMA MemoryStep ==
  ASSUME KernelInv, UNCHANGED <<kernel, ctx>>, MemoryConsistent',
         \A d \in Ctx : ~ At(d, "idle") =>
           /\ ctx[d].ptr \in used' /\ head_of'[ctx[d].skb] = head_of[ctx[d].skb]
           /\ At(d, "kmalloced") \/ At(d, "reserved") =>
                \A skb \in Skb : head_of'[skb] # ctx[d].ptr
  PROVE  KernelInv'
<1>1. ASSUME NEW d \in Ctx PROVE Works(ctx'[d], used', head_of', kernel.features)
  BY WorkKept DEF KernelInv, At
<1>2. Exclusive'
  BY DEF KernelInv, Exclusive, At
<1> QED
  BY <1>1, <1>2 DEF KernelInv

(* The memory of the sk_buffs and of the contexts that are not idle.       *)
LEMMA WorkFacts ==
  ASSUME KernelInv, NEW c \in Ctx
  PROVE  /\ ctx[c] \in WorkState
         /\ At(c, "idle") => ctx[c] = Idle
         /\ ~ At(c, "idle") => ctx[c].ptr \in used \cap Ptr /\ ctx[c].skb \in Skb
         /\ At(c, "kmalloced") \/ At(c, "finalized") => ctx[c].ptr \in Kmem
         /\ At(c, "consumed") => ctx[c].loc \in Loc
         /\ At(c, "kmalloced") \/ At(c, "reserved") =>
              head_of[ctx[c].skb] = None /\ \A skb \in Skb : head_of[skb] # ctx[c].ptr
         /\ At(c, "finalized") \/ At(c, "consumed") => head_of[ctx[c].skb] = ctx[c].ptr
         /\ At(c, "finalized") => "with_frags" \in kernel.features
<1>1. ctx[c] \in WorkState /\ Works(ctx[c], used, head_of, kernel.features)
  BY DEF KernelInv
<1> QED
  BY <1>1, KernelMem, SMTT(30) DEF Works, At, Idle

(* Memory a context has reserved for a head, from skb_head_kmalloc or the  *)
(* fragment allocators on to finalize_skb_around.                          *)
Reserved == {ptr \in Ptr : \E c \in Ctx : At(c, "reserved") /\ ctx[c].ptr = ptr}
(* Memory that is the head of an sk_buff.                                  *)
InSkb == {ptr \in Ptr : \E skb \in Skb : head_of[skb] = ptr}
(* The releases under way: consume_skb or kfree_skb has been emitted, the  *)
(* event of the head has not.                                              *)
Releases == {ctx[c] : c \in {d \in Ctx : At(d, "consumed")}}

(* Reserved memory and heads are in use, and no memory is both.            *)
LEMMA HeldMemory ==
  ASSUME KernelInv
  PROVE  Reserved \cup InSkb \subseteq used /\ Reserved \cap InSkb = {}
BY NoneIsNull, WorkFacts, SMTT(30) DEF KernelInv, MemoryConsistent, Reserved, InSkb, At

(* kmalloc_reserve keeps the invariant; the memory counts as reserved only *)
(* from skb_head_kmalloc on.                                               *)
LEMMA KReserveStep ==
  ASSUME KernelInv, UNCHANGED kernel, NEW c \in Ctx, NEW skb \in Skb, NEW ptr \in Kmem,
         KReserve(c, skb, ptr)
  PROVE  /\ KernelInv'
         /\ Reserved' = Reserved /\ InSkb' = InSkb /\ Releases' = Releases
<1>0. used \subseteq Ptr /\ ptr \notin used /\ ptr \in Ptr /\ ptr # None /\ skb # None
  BY KernelMem, NoneIsNull DEF KReserve, Ptr
<1>1. MemoryConsistent'
  BY <1>0, PtrAssumption DEF KReserve, KernelInv, MemoryConsistent, Shared
<1> DEFINE s == [at |-> "kmalloced", skb |-> skb, ptr |-> ptr, loc |-> None]
<1>2. ctx' = [ctx EXCEPT ![c] = s] /\ s \in WorkState /\ ctx'[c] = s
  BY <1>0 DEF KReserve, KernelInv, WorkState
<1>3. \A x \in Skb : head_of'[x] # ptr
  BY <1>0 DEF KReserve, KernelInv, MemoryConsistent
<1>4. Works(s, used', head_of', kernel.features)
  BY <1>3 DEF Works, KReserve
<1>5. \A d \in Ctx \ {c} :
        /\ s.skb # ctx[d].skb /\ s.ptr # ctx[d].ptr
        /\ ~ At(d, "idle") =>
           /\ ctx[d].ptr \in used' /\ head_of'[ctx[d].skb] = head_of[ctx[d].skb]
           /\ At(d, "kmalloced") \/ At(d, "reserved") =>
                \A x \in Skb : head_of'[x] # ctx[d].ptr
  BY <1>0, WorkFacts, SMTT(30) DEF KReserve, Idle, Busy
<1>6. KernelInv'
  <2> HIDE DEF s
  <2>1. Undisturbed(c, s)
    BY <1>5 DEF Undisturbed
  <2> QED
    BY <1>1, <1>2, <1>4, <2>1, ContextStep
<1>7. Reserved' = Reserved /\ InSkb' = InSkb /\ Releases' = Releases
  BY <1>2, SMTT(30) DEF Reserved, InSkb, Releases, KReserve, At, KernelInv
<1> QED
  BY <1>6, <1>7

(* The contexts that release an sk_buff.                                   *)
LEMMA ReleaseFacts ==
  ASSUME KernelInv
  PROVE  /\ \A r \in Releases :
              /\ r.skb \in Skb /\ r.ptr \in InSkb /\ r.loc \in Loc /\ head_of[r.skb] = r.ptr
              /\ Busy(r.skb)
         /\ \A r, q \in Releases : r.skb = q.skb => r = q
<1>1. ASSUME NEW c \in Ctx, At(c, "consumed")
      PROVE  /\ ctx[c].skb \in Skb /\ ctx[c].ptr \in InSkb /\ ctx[c].loc \in Loc
             /\ head_of[ctx[c].skb] = ctx[c].ptr /\ Busy(ctx[c].skb)
  BY <1>1, WorkFacts DEF InSkb, Busy, At
<1>2. ASSUME NEW c \in Ctx, NEW d \in Ctx, At(c, "consumed"), ctx[c].skb = ctx[d].skb
      PROVE  c = d
  BY <1>2 DEF KernelInv, Exclusive, At
<1> QED
  BY <1>1, <1>2 DEF Releases

(* A kmalloc of another part of the kernel touches no head.                *)
LEMMA KOtherKmallocStep ==
  ASSUME KernelInv, UNCHANGED kernel, NEW ptr \in Kmem, KOtherKmalloc(ptr)
  PROVE  /\ KernelInv'
         /\ Reserved' = Reserved /\ InSkb' = InSkb /\ Releases' = Releases
<1>0. used \subseteq Ptr /\ ptr \notin used /\ ptr \in Ptr
  BY KernelMem DEF KOtherKmalloc, Ptr
<1>1. MemoryConsistent'
  BY <1>0, PtrAssumption DEF KOtherKmalloc, KernelInv, MemoryConsistent, Shared
<1>2. KernelInv'
  BY <1>1, MemoryStep, WorkFacts DEF KOtherKmalloc
<1>3. Reserved' = Reserved /\ InSkb' = InSkb /\ Releases' = Releases
  BY DEF Reserved, InSkb, Releases, KOtherKmalloc, At
<1> QED
  BY <1>2, <1>3

(* skb_head_kmalloc: the memory is now reserved for a head, and was not    *)
(* before.                                                                 *)
LEMMA KHeadKmallocStep ==
  ASSUME KernelInv, UNCHANGED kernel, NEW c \in Ctx, KHeadKmalloc(c)
  PROVE  /\ KernelInv'
         /\ ctx[c].ptr \in Kmem \cap used /\ ctx[c].ptr \notin Reserved \cup InSkb
         /\ Reserved' = Reserved \cup {ctx[c].ptr} /\ InSkb' = InSkb /\ Releases' = Releases
<1>0. At(c, "kmalloced") /\ ctx[c] \in WorkState
  BY WorkFacts DEF KHeadKmalloc
<1> DEFINE s == [ctx[c] EXCEPT !.at = "reserved"]
<1>1. ctx' = [ctx EXCEPT ![c] = s] /\ s \in WorkState /\ ctx'[c] = s
  BY <1>0 DEF KHeadKmalloc, KernelInv, WorkState
<1>2. MemoryConsistent'
  BY DEF KHeadKmalloc, KernelInv, MemoryConsistent, Shared
<1>3. s.at = "reserved" /\ s.skb = ctx[c].skb /\ s.ptr = ctx[c].ptr
  BY <1>0 DEF WorkState
<1>4. Works(s, used', head_of', kernel.features)
  BY <1>0, <1>3, WorkFacts, SMTT(30) DEF Works, KHeadKmalloc, At
<1>5. ctx[c].ptr \in Kmem \cap used /\ ctx[c].ptr \notin Reserved \cup InSkb
  BY <1>0, WorkFacts DEF Reserved, InSkb, KernelInv, Exclusive, At
<1>6. KernelInv'
  <2>1. \A d \in Ctx \ {c} :
          /\ s.skb # ctx[d].skb /\ s.ptr # ctx[d].ptr
          /\ ~ At(d, "idle") =>
             /\ ctx[d].ptr \in used' /\ head_of'[ctx[d].skb] = head_of[ctx[d].skb]
             /\ At(d, "kmalloced") \/ At(d, "reserved") =>
                  \A x \in Skb : head_of'[x] # ctx[d].ptr
    BY <1>0, <1>3, WorkFacts, SMTT(30) DEF KHeadKmalloc, KernelInv, Exclusive, At
  <2> HIDE DEF s
  <2>2. Undisturbed(c, s)
    BY <2>1 DEF Undisturbed
  <2> QED
    BY <1>1, <1>2, <1>4, <2>2, ContextStep
<1>7. Reserved' = Reserved \cup {ctx[c].ptr}
  <2> HIDE DEF s
  <2> QED
    BY <1>0, <1>1, <1>3, <1>5, SMTT(30) DEF Reserved, KHeadKmalloc, At, KernelInv, Ptr
<1>8. InSkb' = InSkb /\ Releases' = Releases
  <2> HIDE DEF s
  <2> QED
    BY <1>0, <1>1, <1>3, SMTT(30) DEF InSkb, Releases, KHeadKmalloc, At, KernelInv
<1> QED
  BY <1>5, <1>6, <1>7, <1>8

(* The fragment allocators hand out memory that nobody holds.              *)
LEMMA KAllocFragStep ==
  ASSUME KernelInv, UNCHANGED kernel, NEW c \in Ctx, NEW skb \in Skb, NEW ptr \in Frag,
         KAllocFrag(c, skb, ptr)
  PROVE  /\ KernelInv'
         /\ ptr \notin used \cup Reserved \cup InSkb
         /\ Reserved' = Reserved \cup {ptr} /\ InSkb' = InSkb /\ Releases' = Releases
<1>0. used \subseteq Ptr /\ ptr \notin used /\ ptr \in Ptr /\ ptr # None /\ skb # None
  BY KernelMem, NoneIsNull DEF KAllocFrag, KernelInv, MemoryConsistent, Ptr
<1>1. MemoryConsistent'
  BY <1>0, PtrAssumption DEF KAllocFrag, KernelInv, MemoryConsistent, Shared
<1> DEFINE s == [at |-> "reserved", skb |-> skb, ptr |-> ptr, loc |-> None]
<1>2. ctx' = [ctx EXCEPT ![c] = s] /\ s \in WorkState /\ ctx'[c] = s
  BY <1>0 DEF KAllocFrag, KernelInv, WorkState
<1>3. \A x \in Skb : head_of'[x] # ptr
  BY <1>0 DEF KAllocFrag, KernelInv, MemoryConsistent
<1>4. Works(s, used', head_of', kernel.features)
  BY <1>3 DEF Works, KAllocFrag
<1>5. \A d \in Ctx \ {c} :
        /\ s.skb # ctx[d].skb /\ s.ptr # ctx[d].ptr
        /\ ~ At(d, "idle") =>
           /\ ctx[d].ptr \in used' /\ head_of'[ctx[d].skb] = head_of[ctx[d].skb]
           /\ At(d, "kmalloced") \/ At(d, "reserved") =>
                \A x \in Skb : head_of'[x] # ctx[d].ptr
  BY <1>0, WorkFacts, SMTT(30) DEF KAllocFrag, Idle, Busy
<1>6. KernelInv'
  <2> HIDE DEF s
  <2>1. Undisturbed(c, s)
    BY <1>5 DEF Undisturbed
  <2> QED
    BY <1>1, <1>2, <1>4, <2>1, ContextStep
<1>7. Reserved' = Reserved \cup {ptr} /\ InSkb' = InSkb /\ Releases' = Releases
  BY <1>0, <1>2, SMTT(30) DEF Reserved, InSkb, Releases, KAllocFrag, At, KernelInv
<1> QED
  BY <1>0, <1>6, <1>7, HeldMemory

(* finalize_skb_around: reserved memory becomes the head of an sk_buff     *)
(* that had none.                                                          *)
LEMMA KFinalizeStep ==
  ASSUME KernelInv, UNCHANGED kernel, NEW c \in Ctx, KFinalize(c)
  PROVE  /\ KernelInv'
         /\ ctx[c].ptr \in Reserved /\ ctx[c].skb \in Skb
         /\ Reserved' = Reserved \ {ctx[c].ptr} /\ InSkb' = InSkb \cup {ctx[c].ptr}
         /\ Releases' = Releases
         /\ head_of' = [head_of EXCEPT ![ctx[c].skb] = ctx[c].ptr]
         /\ head_of[ctx[c].skb] = None
<1>0. At(c, "reserved") /\ ctx[c] \in WorkState /\ head_of \in [Skb -> used \cup {None}]
  BY WorkFacts DEF KFinalize, KernelInv, MemoryConsistent
<1>1. /\ ctx[c].ptr \in used \cap Ptr /\ ctx[c].skb \in Skb /\ head_of[ctx[c].skb] = None
      /\ \A skb \in Skb : head_of[skb] # ctx[c].ptr
  BY <1>0, WorkFacts DEF At
<1>2. head_of' = [head_of EXCEPT ![ctx[c].skb] = ctx[c].ptr]
  BY DEF KFinalize
<1>3. PICK s \in WorkState :
        /\ ctx' = [ctx EXCEPT ![c] = s]
        /\ s.at \notin {"kmalloced", "reserved", "consumed"}
        /\ Works(s, used', head_of', kernel.features)
        /\ s.at # "idle" => s.skb = ctx[c].skb
        /\ s.ptr \in {ctx[c].ptr, None}
  <2>1. CASE ctx' = [ctx EXCEPT ![c] = Idle]
    <3>1. /\ Idle \in WorkState /\ Idle.at = "idle" /\ Idle.ptr = None
          /\ Works(Idle, used', head_of', kernel.features)
      BY DEF Idle, WorkState, Works
    <3> QED
      BY <2>1, <3>1
  <2>2. CASE /\ "with_frags" \in kernel.features /\ ctx[c].ptr \in Kmem
             /\ ctx' = [ctx EXCEPT ![c].at = "finalized"]
    <3> DEFINE s == [ctx[c] EXCEPT !.at = "finalized"]
    <3>1. /\ s \in WorkState /\ s.at = "finalized" /\ s.ptr = ctx[c].ptr /\ s.skb = ctx[c].skb
          /\ ctx' = [ctx EXCEPT ![c] = s]
      BY <1>0, <2>2 DEF WorkState, KernelInv
    <3>2. Works(s, used', head_of', kernel.features)
      BY <1>0, <1>1, <1>2, <2>2, <3>1, SMTT(30) DEF Works, KFinalize
    <3> HIDE DEF s
    <3> QED
      BY <3>1, <3>2
  <2> QED
    BY <2>1, <2>2 DEF KFinalize
<1>4. ctx'[c] = s /\ \A d \in Ctx \ {c} : ctx'[d] = ctx[d]
  BY <1>3 DEF KernelInv
<1>5. MemoryConsistent'
  <2>1. head_of' \in [Skb -> used \cup {None}]
    BY <1>0, <1>1, <1>2
  <2>2. ASSUME "clones" \notin kernel.features, NEW skb \in Skb, head_of'[skb] # None,
               NEW x \in Skb \ {skb}, head_of'[x] = head_of'[skb]
        PROVE  FALSE
    BY <1>0, <1>1, <1>2, <2>2 DEF KernelInv, MemoryConsistent, Shared
  <2> QED
    BY <2>1, <2>2 DEF KFinalize, KernelInv, MemoryConsistent, Shared
<1>6. \A d \in Ctx \ {c} :
        /\ ctx[c].skb # ctx[d].skb /\ ctx[c].ptr # ctx[d].ptr
        /\ ~ At(d, "idle") =>
           /\ ctx[d].ptr \in used' /\ head_of'[ctx[d].skb] = head_of[ctx[d].skb]
           /\ At(d, "kmalloced") \/ At(d, "reserved") =>
                s.ptr # ctx[d].ptr /\ \A x \in Skb : head_of'[x] # ctx[d].ptr
  BY <1>0, <1>1, <1>2, <1>3, WorkFacts, NoneIsNull, SMTT(30) DEF KFinalize, KernelInv, Exclusive, At
<1>7. KernelInv'
  <2>1. /\ s.at # "idle" => \A d \in Ctx \ {c} : s.skb # ctx[d].skb
        /\ s.at \notin {"kmalloced", "reserved"}
        /\ ctx' = [ctx EXCEPT ![c] = s] /\ Works(s, used', head_of', kernel.features)
    BY <1>3, <1>6
  <2>2. Undisturbed(c, s)
    BY <1>6, <2>1 DEF Undisturbed
  <2> QED
    BY <1>5, <2>1, <2>2, ContextStep
<1>8. Reserved' = Reserved \ {ctx[c].ptr} /\ ctx[c].ptr \in Reserved
  BY <1>0, <1>1, <1>3, <1>4, <1>6, SMTT(30) DEF Reserved, At
<1>9. InSkb' = InSkb \cup {ctx[c].ptr}
  BY <1>0, <1>1, <1>2, NoneIsNull DEF InSkb
<1>10. Releases' = Releases
  BY <1>0, <1>3, <1>4, SMTT(30) DEF Releases, At
<1> QED
  BY <1>1, <1>2, <1>7, <1>8, <1>9, <1>10

(* alloc_skb_with_frags is emitted for an sk_buff that still has the head  *)
(* it was built with.                                                      *)
LEMMA KWithFragsStep ==
  ASSUME KernelInv, UNCHANGED kernel, NEW c \in Ctx, KWithFrags(c)
  PROVE  /\ KernelInv'
         /\ "with_frags" \in kernel.features
         /\ ctx[c].ptr \in Kmem \cap InSkb /\ ctx[c].skb \in Skb
         /\ head_of[ctx[c].skb] = ctx[c].ptr
         /\ Reserved' = Reserved /\ InSkb' = InSkb /\ Releases' = Releases
<1>0. At(c, "finalized") /\ ctx' = [ctx EXCEPT ![c] = Idle]
  BY DEF KWithFrags
<1>1. MemoryConsistent'
  BY DEF KWithFrags, KernelInv, MemoryConsistent, Shared
<1>2. /\ Idle \in WorkState /\ Idle.at = "idle" /\ Idle.ptr = None
      /\ Works(Idle, used', head_of', kernel.features)
  BY DEF Idle, WorkState, Works
<1>3. \A d \in Ctx \ {c} : ~ At(d, "idle") =>
           /\ ctx[d].ptr \in used' /\ head_of'[ctx[d].skb] = head_of[ctx[d].skb]
           /\ At(d, "kmalloced") \/ At(d, "reserved") =>
                Idle.ptr # ctx[d].ptr /\ \A x \in Skb : head_of'[x] # ctx[d].ptr
  BY <1>2, WorkFacts, NoneIsNull DEF KWithFrags
<1>4. KernelInv'
  <2>1. Undisturbed(c, Idle)
    BY <1>2, <1>3 DEF Undisturbed
  <2> QED
    BY <1>0, <1>1, <1>2, <2>1, ContextStep
<1>5. Reserved' = Reserved /\ InSkb' = InSkb /\ Releases' = Releases
  BY <1>0, <1>2, SMTT(30) DEF Reserved, InSkb, Releases, KWithFrags, At, KernelInv
<1> QED
  BY <1>0, <1>4, <1>5, WorkFacts DEF InSkb, At

(* consume_skb and kfree_skb: a release begins.                            *)
LEMMA KConsumeStep ==
  ASSUME KernelInv, UNCHANGED kernel, NEW c \in Ctx, NEW skb \in Skb, NEW loc \in Loc,
         KConsume(c, skb, loc)
  PROVE  /\ KernelInv'
         /\ Reserved' = Reserved /\ InSkb' = InSkb
         /\ Releases' = Releases \cup
              {[at |-> "consumed", skb |-> skb, ptr |-> head_of[skb], loc |-> loc]}
<1>0. At(c, "idle") /\ ctx[c] = Idle /\ head_of[skb] \in used \cap Ptr
  BY WorkFacts, KernelMem DEF KConsume, KernelInv, MemoryConsistent
<1> DEFINE s == [at |-> "consumed", skb |-> skb, ptr |-> head_of[skb], loc |-> loc]
<1>1. MemoryConsistent'
  BY DEF KConsume, KernelInv, MemoryConsistent, Shared
<1>2. ctx' = [ctx EXCEPT ![c] = s] /\ s \in WorkState /\ ctx'[c] = s
  BY <1>0 DEF KConsume, KernelInv, WorkState
<1>3. Works(s, used', head_of', kernel.features)
  BY <1>0 DEF Works, KConsume
<1>4. \A d \in Ctx \ {c} :
        /\ s.skb # ctx[d].skb
        /\ ~ At(d, "idle") =>
           /\ ctx[d].ptr \in used' /\ head_of'[ctx[d].skb] = head_of[ctx[d].skb]
           /\ At(d, "kmalloced") \/ At(d, "reserved") =>
                s.ptr # ctx[d].ptr /\ \A x \in Skb : head_of'[x] # ctx[d].ptr
  BY <1>0, WorkFacts DEF KConsume, Busy
<1>5. KernelInv'
  <2>1. s.at = "consumed"
    OBVIOUS
  <2> HIDE DEF s
  <2>2. Undisturbed(c, s)
    BY <1>4, <2>1 DEF Undisturbed
  <2> QED
    BY <1>1, <1>2, <1>3, <2>2, ContextStep
<1>6. Reserved' = Reserved /\ InSkb' = InSkb
  BY <1>0, <1>2, SMTT(30) DEF Reserved, InSkb, KConsume, At, KernelInv
<1>7. Releases' = Releases \cup {s}
  <2>1. s.at = "consumed"
    OBVIOUS
  <2> HIDE DEF s
  <2> QED
    BY <1>0, <1>2, <2>1 DEF Releases, KernelInv, At
<1> QED
  BY <1>5, <1>6, <1>7

(* The event of the head ends a release; no other sk_buff has the head.    *)
LEMMA KReleaseHeadStep ==
  ASSUME KernelInv, UNCHANGED kernel, NEW c \in Ctx, KReleaseHead(c)
  PROVE  /\ KernelInv'
         /\ ctx[c] \in Releases
         /\ Reserved' = Reserved /\ InSkb' = InSkb \ {ctx[c].ptr}
         /\ Releases' = Releases \ {ctx[c]}
         /\ \A skb \in Skb \ {ctx[c].skb} : head_of[skb] # ctx[c].ptr
<1>0. At(c, "consumed") /\ head_of \in [Skb -> used \cup {None}] /\ used \subseteq Ptr
  BY KernelMem DEF KReleaseHead, KernelInv, MemoryConsistent
<1>1. ctx[c].ptr \in used /\ ctx[c].skb \in Skb /\ head_of[ctx[c].skb] = ctx[c].ptr
  BY <1>0, WorkFacts DEF At
<1>2. \A skb \in Skb \ {ctx[c].skb} : head_of[skb] # ctx[c].ptr
  BY <1>1 DEF KReleaseHead, Shared
<1>3. /\ used' = used \ {ctx[c].ptr} /\ head_of' = [head_of EXCEPT ![ctx[c].skb] = None]
      /\ ctx' = [ctx EXCEPT ![c] = Idle] /\ UNCHANGED <<page_used, handed>>
  BY DEF KReleaseHead
<1>4. MemoryConsistent'
  <2>1. head_of' \in [Skb -> used' \cup {None}]
    BY <1>0, <1>1, <1>2, <1>3
  <2>2. "clones" \notin kernel.features => \A skb \in Skb : head_of'[skb] # None => ~ Shared(skb)'
    BY <1>0, <1>1, <1>3 DEF KernelInv, MemoryConsistent, Shared
  <2> QED
    BY <1>3, <2>1, <2>2 DEF KernelInv, MemoryConsistent
<1>5. /\ Idle \in WorkState /\ Idle.at = "idle" /\ Idle.ptr = None
      /\ Works(Idle, used', head_of', kernel.features)
  BY DEF Idle, WorkState, Works
<1>6. \A d \in Ctx \ {c} : ~ At(d, "idle") =>
           /\ ctx[d].ptr \in used' /\ head_of'[ctx[d].skb] = head_of[ctx[d].skb]
           /\ At(d, "kmalloced") \/ At(d, "reserved") =>
                Idle.ptr # ctx[d].ptr /\ \A x \in Skb : head_of'[x] # ctx[d].ptr
  <2> SUFFICES ASSUME NEW d \in Ctx \ {c}, ~ At(d, "idle")
               PROVE  /\ ctx[d].ptr \in used' /\ head_of'[ctx[d].skb] = head_of[ctx[d].skb]
                      /\ At(d, "kmalloced") \/ At(d, "reserved") =>
                           Idle.ptr # ctx[d].ptr /\ \A x \in Skb : head_of'[x] # ctx[d].ptr
    OBVIOUS
  <2>1. ctx[d].skb # ctx[c].skb /\ ctx[d].skb \in Skb /\ ctx[d].ptr \in used
    BY <1>0, WorkFacts DEF KernelInv, Exclusive, At
  <2>2. ctx[d].ptr # ctx[c].ptr
    <3>1. At(d, "kmalloced") \/ At(d, "reserved") \/ At(d, "finalized") \/ At(d, "consumed")
      BY WorkFacts DEF WorkState, At
    <3> QED
      BY <1>1, <1>2, <2>1, <3>1, WorkFacts, SMTT(30)
  <2> QED
    BY <1>0, <1>1, <1>3, <1>5, <2>1, <2>2, WorkFacts, NoneIsNull
<1>7. KernelInv'
  <2>1. Undisturbed(c, Idle)
    BY <1>5, <1>6 DEF Undisturbed
  <2> QED
    BY <1>3, <1>4, <1>5, <2>1, ContextStep
<1>8. Reserved' = Reserved
  BY <1>0, <1>3, <1>5 DEF Reserved, At, KernelInv
<1>9. InSkb' = InSkb \ {ctx[c].ptr}
  BY <1>0, <1>1, <1>2, <1>3, NoneIsNull DEF InSkb
<1>10. Releases' = Releases \ {ctx[c]}
  <2>1. \A d \in Ctx : At(d, "consumed") /\ d # c => ctx[d] # ctx[c]
    BY <1>0 DEF KernelInv, Exclusive, At
  <2>2. \A d \in Ctx : ctx'[d] = IF d = c THEN Idle ELSE ctx[d]
    BY <1>3 DEF KernelInv
  <2> QED
    BY <1>0, <1>5, <2>1, <2>2, SMTT(30) DEF Releases, At
<1>11. ctx[c] \in Releases
  BY <1>0 DEF Releases
<1> QED
  BY <1>2, <1>7, <1>8, <1>9, <1>10, <1>11

(* A release without consume_skb leaves the releases under way alone.      *)
LEMMA KReleaseUntracedStep ==
  ASSUME KernelInv, UNCHANGED kernel, NEW skb \in Skb, KReleaseUntraced(skb)
  PROVE  /\ KernelInv'
         /\ head_of[skb] \in InSkb
         /\ Reserved' = Reserved /\ InSkb' = InSkb \ {head_of[skb]} /\ Releases' = Releases
<1> DEFINE ptr == head_of[skb]
<1>0. /\ head_of \in [Skb -> used \cup {None}] /\ used \subseteq Ptr
      /\ ptr # None /\ ~ Busy(skb)
      /\ used' = used \ {ptr} /\ head_of' = [head_of EXCEPT ![skb] = None]
      /\ UNCHANGED <<ctx, page_used, handed>>
  BY KernelMem DEF KReleaseUntraced, KernelInv, MemoryConsistent
<1>1. \A x \in Skb \ {skb} : head_of[x] # ptr
  BY DEF KReleaseUntraced, Shared
<1>2. ptr \in InSkb
  BY <1>0 DEF InSkb
<1> HIDE DEF ptr
<1>4. MemoryConsistent'
  <2>1. head_of' \in [Skb -> used' \cup {None}]
    BY <1>0, <1>1
  <2>2. "clones" \notin kernel.features => \A x \in Skb : head_of'[x] # None => ~ Shared(x)'
    BY <1>0 DEF KernelInv, MemoryConsistent, Shared
  <2> QED
    BY <1>0, <2>1, <2>2 DEF KernelInv, MemoryConsistent
<1>5. \A d \in Ctx : ~ At(d, "idle") =>
           /\ ctx[d].ptr \in used' /\ head_of'[ctx[d].skb] = head_of[ctx[d].skb]
           /\ At(d, "kmalloced") \/ At(d, "reserved") =>
                \A x \in Skb : head_of'[x] # ctx[d].ptr
  <2> SUFFICES ASSUME NEW d \in Ctx, ~ At(d, "idle")
               PROVE  /\ ctx[d].ptr \in used' /\ head_of'[ctx[d].skb] = head_of[ctx[d].skb]
                      /\ At(d, "kmalloced") \/ At(d, "reserved") =>
                           \A x \in Skb : head_of'[x] # ctx[d].ptr
    OBVIOUS
  <2>1. ctx[d].skb # skb /\ ctx[d].skb \in Skb /\ ctx[d].ptr \in used \cap Ptr
    BY <1>0, WorkFacts DEF Busy
  <2>2. ctx[d].ptr # ptr
    <3>1. At(d, "kmalloced") \/ At(d, "reserved") \/ At(d, "finalized") \/ At(d, "consumed")
      BY WorkFacts DEF WorkState, At
    <3> QED
      BY <1>1, <2>1, <3>1, WorkFacts, SMTT(30) DEF ptr
  <2> QED
    BY <1>0, <2>1, <2>2, WorkFacts, NoneIsNull
<1>6. KernelInv'
  BY <1>0, <1>4, <1>5, MemoryStep
<1>7. Reserved' = Reserved /\ Releases' = Releases
  BY <1>0 DEF Reserved, Releases, At
<1>8. InSkb' = InSkb \ {ptr}
  BY <1>0, <1>1, NoneIsNull DEF InSkb, ptr
<1> QED
  BY <1>2, <1>6, <1>7, <1>8 DEF ptr

(* mm_page_alloc touches no head.                                          *)
LEMMA KPageAllocStep ==
  ASSUME KernelInv, UNCHANGED kernel, NEW page \in Page, KPageAlloc(page)
  PROVE  /\ KernelInv'
         /\ Reserved' = Reserved /\ InSkb' = InSkb /\ Releases' = Releases
<1>1. MemoryConsistent'
  BY DEF KPageAlloc, KernelInv, MemoryConsistent, Shared
<1>2. KernelInv'
  BY <1>1, MemoryStep, WorkFacts DEF KPageAlloc
<1>3. Reserved' = Reserved /\ InSkb' = InSkb /\ Releases' = Releases
  BY DEF Reserved, InSkb, Releases, KPageAlloc, At
<1> QED
  BY <1>2, <1>3

(* mm_page_free touches no head.                                           *)
LEMMA KPageFreeStep ==
  ASSUME KernelInv, UNCHANGED kernel, NEW page \in Page, KPageFree(page)
  PROVE  /\ KernelInv'
         /\ Reserved' = Reserved /\ InSkb' = InSkb /\ Releases' = Releases
<1>1. MemoryConsistent'
  BY DEF KPageFree, KernelInv, MemoryConsistent, Shared, FragsOf
<1>2. KernelInv'
  BY <1>1, MemoryStep, WorkFacts DEF KPageFree
<1>3. Reserved' = Reserved /\ InSkb' = InSkb /\ Releases' = Releases
  BY DEF Reserved, InSkb, Releases, KPageFree, At
<1> QED
  BY <1>2, <1>3

(* What the steps without an event may do.                                 *)
SilentEffect ==
  /\ KernelInv'
  /\ Reserved' = Reserved /\ page_used' = page_used
  /\ InSkb' \subseteq InSkb /\ InSkb \ InSkb' \subseteq Frag
  /\ "stolen_heads" \notin kernel.features => InSkb' = InSkb
  /\ handed' \subseteq handed
  /\ "recycled_pages" \notin kernel.features => handed' = handed
  /\ used' \ used \subseteq Kmem
  /\ "untraced_kmalloc" \notin kernel.features => used' \subseteq used
  /\ Releases' \subseteq Releases
  /\ "clones" \notin kernel.features => Releases' = Releases
  /\ kernel.features \cap {"clones", "stolen_heads"} = {} => head_of' = head_of

(* skb_clone: the clone shares a head that is in use.                      *)
LEMMA CloneStep ==
  ASSUME KernelInv, UNCHANGED kernel, "clones" \in kernel.features,
         NEW skb \in Skb, NEW clone \in Skb,
         head_of[skb] # None, ~ Busy(skb), head_of[clone] = None, ~ Busy(clone),
         head_of' = [head_of EXCEPT ![clone] = head_of[skb]],
         UNCHANGED <<ctx, used, page_used, handed>>
  PROVE  SilentEffect
<1>0. head_of \in [Skb -> used \cup {None}] /\ used \subseteq Ptr
  BY KernelMem DEF KernelInv, MemoryConsistent
<1>1. MemoryConsistent'
  BY <1>0 DEF KernelInv, MemoryConsistent
<1>2. \A d \in Ctx : ~ At(d, "idle") =>
           /\ ctx[d].ptr \in used' /\ head_of'[ctx[d].skb] = head_of[ctx[d].skb]
           /\ At(d, "kmalloced") \/ At(d, "reserved") =>
                \A x \in Skb : head_of'[x] # ctx[d].ptr
  BY <1>0, WorkFacts DEF Busy
<1>3. KernelInv'
  BY <1>1, <1>2, MemoryStep
<1>4. InSkb' = InSkb
  BY <1>0, NoneIsNull DEF InSkb
<1>5. Reserved' = Reserved /\ Releases' = Releases
  BY DEF Reserved, Releases, At
<1> QED
  BY <1>3, <1>4, <1>5 DEF SilentEffect

(* A clone is released and the head stays with the other sk_buff.          *)
LEMMA CloneDropStep ==
  ASSUME KernelInv, UNCHANGED kernel, NEW c \in Ctx,
         At(c, "consumed"), Shared(ctx[c].skb),
         head_of' = [head_of EXCEPT ![ctx[c].skb] = None], ctx' = [ctx EXCEPT ![c] = Idle],
         UNCHANGED <<used, page_used, handed>>
  PROVE  SilentEffect
<1>0. head_of \in [Skb -> used \cup {None}] /\ used \subseteq Ptr
  BY KernelMem DEF KernelInv, MemoryConsistent
<1>1. ctx[c].ptr \in used /\ ctx[c].skb \in Skb /\ head_of[ctx[c].skb] = ctx[c].ptr
  BY WorkFacts DEF At
<1>2. PICK s \in Skb \ {ctx[c].skb} : head_of[s] = ctx[c].ptr
  BY <1>1 DEF Shared
<1>3. "clones" \in kernel.features
  BY <1>0, <1>1, NoneIsNull DEF KernelInv, MemoryConsistent
<1>4. MemoryConsistent'
  BY <1>0, <1>3 DEF KernelInv, MemoryConsistent
<1>5. /\ Idle \in WorkState /\ Idle.at = "idle" /\ Idle.ptr = None
      /\ Works(Idle, used', head_of', kernel.features)
  BY DEF Idle, WorkState, Works
<1>6. \A d \in Ctx \ {c} : ~ At(d, "idle") =>
           /\ ctx[d].ptr \in used' /\ head_of'[ctx[d].skb] = head_of[ctx[d].skb]
           /\ At(d, "kmalloced") \/ At(d, "reserved") =>
                Idle.ptr # ctx[d].ptr /\ \A x \in Skb : head_of'[x] # ctx[d].ptr
  <2> SUFFICES ASSUME NEW d \in Ctx \ {c}, ~ At(d, "idle")
               PROVE  /\ ctx[d].ptr \in used' /\ head_of'[ctx[d].skb] = head_of[ctx[d].skb]
                      /\ At(d, "kmalloced") \/ At(d, "reserved") =>
                           Idle.ptr # ctx[d].ptr /\ \A x \in Skb : head_of'[x] # ctx[d].ptr
    OBVIOUS
  <2>1. ctx[d].skb # ctx[c].skb /\ ctx[d].skb \in Skb /\ ctx[d].ptr \in used
    BY WorkFacts DEF KernelInv, Exclusive, At
  <2> QED
    BY <1>0, <1>1, <1>5, <2>1, WorkFacts, NoneIsNull
<1>7. KernelInv'
  <2>1. Undisturbed(c, Idle)
    BY <1>5, <1>6 DEF Undisturbed
  <2> QED
    BY <1>4, <1>5, <2>1, ContextStep
<1>8. \A d \in Ctx : ctx'[d] = IF d = c THEN Idle ELSE ctx[d]
  BY DEF KernelInv
<1>9. Reserved' = Reserved /\ Releases' \subseteq Releases
  BY <1>5, <1>8, SMTT(30) DEF Reserved, Releases, At
<1>10. InSkb' = InSkb
  BY <1>0, <1>1, <1>2, NoneIsNull DEF InSkb
<1> QED
  BY <1>3, <1>7, <1>9, <1>10 DEF SilentEffect

(* Memory that no sk_buff and no context refers to is freed.               *)
LEMMA OtherFreeStep ==
  ASSUME KernelInv, UNCHANGED kernel, NEW ptr \in used, Unreferenced(ptr),
         used' = used \ {ptr}, UNCHANGED <<ctx, head_of, page_used, handed>>
  PROVE  SilentEffect
<1>0. head_of \in [Skb -> used \cup {None}] /\ used \subseteq Ptr
  BY KernelMem DEF KernelInv, MemoryConsistent
<1>1. MemoryConsistent'
  <2>1. head_of' \in [Skb -> used' \cup {None}]
    BY <1>0 DEF Unreferenced
  <2> QED
    BY <2>1 DEF KernelInv, MemoryConsistent, Shared
<1>2. \A d \in Ctx : ~ At(d, "idle") =>
           /\ ctx[d].ptr \in used' /\ head_of'[ctx[d].skb] = head_of[ctx[d].skb]
           /\ At(d, "kmalloced") \/ At(d, "reserved") =>
                \A x \in Skb : head_of'[x] # ctx[d].ptr
  BY WorkFacts DEF Unreferenced
<1>3. KernelInv'
  BY <1>1, <1>2, MemoryStep
<1>4. Reserved' = Reserved /\ Releases' = Releases /\ InSkb' = InSkb
  BY DEF Reserved, Releases, InSkb, At
<1> QED
  BY <1>3, <1>4 DEF SilentEffect

(* A head is stolen: it is a fragment, and it leaves its sk_buff while in  *)
(* use.                                                                    *)
LEMMA StolenStep ==
  ASSUME KernelInv, UNCHANGED kernel, "stolen_heads" \in kernel.features,
         NEW skb \in Skb, head_of[skb] \in Frag, ~ Busy(skb),
         head_of' = [head_of EXCEPT ![skb] = None], UNCHANGED <<ctx, used, page_used, handed>>
  PROVE  SilentEffect
<1>0. head_of \in [Skb -> used \cup {None}] /\ used \subseteq Ptr
  BY KernelMem DEF KernelInv, MemoryConsistent
<1>1. MemoryConsistent'
  <2>1. head_of' \in [Skb -> used' \cup {None}]
    BY <1>0
  <2>2. "clones" \notin kernel.features => \A x \in Skb : head_of'[x] # None => ~ Shared(x)'
    BY <1>0 DEF KernelInv, MemoryConsistent, Shared
  <2> QED
    BY <2>1, <2>2 DEF KernelInv, MemoryConsistent
<1>2. \A d \in Ctx : ~ At(d, "idle") =>
           /\ ctx[d].ptr \in used' /\ head_of'[ctx[d].skb] = head_of[ctx[d].skb]
           /\ At(d, "kmalloced") \/ At(d, "reserved") =>
                \A x \in Skb : head_of'[x] # ctx[d].ptr
  BY <1>0, WorkFacts, NoneIsNull DEF Busy
<1>3. KernelInv'
  BY <1>1, <1>2, MemoryStep
<1>4. Reserved' = Reserved /\ Releases' = Releases
  BY DEF Reserved, Releases, At
<1>5. InSkb' \subseteq InSkb /\ InSkb \ InSkb' \subseteq {head_of[skb]}
  BY <1>0, NoneIsNull DEF InSkb
<1> QED
  BY <1>3, <1>4, <1>5 DEF SilentEffect

(* A page is started over: no fragment of it is in use.                    *)
LEMMA RecycledStep ==
  ASSUME KernelInv, UNCHANGED kernel, "recycled_pages" \in kernel.features,
         NEW page \in page_used, FragsOf(page) \cap used = {},
         handed' = handed \ FragsOf(page), UNCHANGED <<ctx, head_of, used, page_used>>
  PROVE  SilentEffect
<1>1. MemoryConsistent'
  BY DEF KernelInv, MemoryConsistent, Shared
<1>2. KernelInv'
  BY <1>1, MemoryStep, WorkFacts
<1>3. Reserved' = Reserved /\ Releases' = Releases /\ InSkb' = InSkb
  BY DEF Reserved, Releases, InSkb, At
<1> QED
  BY <1>2, <1>3 DEF SilentEffect

(* Every step without an event has one of the effects above.               *)
LEMMA KSilentStep ==
  ASSUME KernelInv, UNCHANGED kernel, KSilent
  PROVE  SilentEffect
<1>1. ASSUME NEW c \in Ctx, NEW skb \in Skb, NEW ptr \in Kmem, KReserve(c, skb, ptr),
             "untraced_kmalloc" \in kernel.features
      PROVE  SilentEffect
  BY <1>1, KReserveStep DEF SilentEffect, KReserve
<1> QED
  BY <1>1, CloneStep, CloneDropStep, OtherFreeStep, StolenStep, RecycledStep DEF KSilent
-----------------------------------------------------------------------------
(* The dicts.                                                              *)

(* Entries of active_skb_ptrs, freed_skb_ptrs, active_pages and            *)
(* freed_pages.                                                            *)
ActiveHead == {e \in A!Entry : A!Unfreed(e)}
FreedHead == {e \in A!Entry : A!Released(e)}
ActivePage == {e \in A!PageEntry : e.free_time = None}
GonePage == {e \in A!PageEntry : e.free_time # None}

(* d without the key, as a change of state.                                *)
Popped(d, n, key) ==
  DOMAIN n = DOMAIN d \ {key} /\ \A k \in DOMAIN d \ {key} : n[k] = d[k]

(* d[key] = value, as a change of state.                                   *)
Assigned(d, n, key, value) ==
  /\ DOMAIN n = DOMAIN d \cup {key}
  /\ n[key] = value
  /\ \A k \in DOMAIN d \ {key} : n[k] = d[k]

(* What assigning to a key of a dict does.                                 *)
LEMMA PutEffect ==
  ASSUME NEW Key, NEW Value, NEW d, A!IsDict(d, Key, Value),
         NEW key \in Key, NEW value \in Value
  PROVE  /\ A!IsDict(A!Put(d, key, value), Key, Value)
         /\ Assigned(d, A!Put(d, key, value), key, value)
BY DEF A!IsDict, A!Put, Assigned

(* What removing a key of a dict does.                                     *)
LEMMA PopEffect ==
  ASSUME NEW Key, NEW Value, NEW d, A!IsDict(d, Key, Value), NEW key
  PROVE  /\ A!IsDict(A!Pop(d, key), Key, Value)
         /\ Popped(d, A!Pop(d, key), key)
BY DEF A!IsDict, A!Pop, Popped

(* What replacing the value of a key does.                                 *)
LEMMA UpdateEffect ==
  ASSUME NEW Key, NEW Value, NEW d, A!IsDict(d, Key, Value),
         NEW key \in DOMAIN d, NEW value \in Value
  PROVE  /\ A!IsDict([d EXCEPT ![key] = value], Key, Value)
         /\ Assigned(d, [d EXCEPT ![key] = value], key, value)
BY DEF A!IsDict, Assigned

(* The entry of one fragment is replaced.                                  *)
FragChanged(d, n, page, k, e) ==
  /\ DOMAIN n = DOMAIN d
  /\ \A p \in DOMAIN d \ {page} : n[p] = d[p]
  /\ DOMAIN n[page].frags = DOMAIN d[page].frags
  /\ n[page].frags[k] = e
  /\ \A j \in DOMAIN d[page].frags \ {k} : n[page].frags[j] = d[page].frags[j]

(* The dict with the fragment k of one of its pages replaced.              *)
Updated(d, page, k, e) ==
  [d EXCEPT ![page] = [d[page] EXCEPT !.frags = [d[page].frags EXCEPT ![k] = e]]]

(* What replacing a fragment of a page does.                               *)
LEMMA FragEffect ==
  ASSUME NEW d, A!IsDict(d, Page, ActivePage), NEW page \in DOMAIN d,
         NEW k \in DOMAIN d[page].frags, NEW e \in A!Entry
  PROVE  /\ A!IsDict(Updated(d, page, k, e), Page, ActivePage)
         /\ FragChanged(d, Updated(d, page, k, e), page, k, e)
<1> DEFINE frags == [d[page].frags EXCEPT ![k] = e]
           entry == [d[page] EXCEPT !.frags = frags]
           n == [d EXCEPT ![page] = entry]
<1>0. d[page] \in A!PageEntry /\ d[page].free_time = None
  BY DEF A!IsDict, ActivePage
<1>1. /\ frags \in Seq(A!Entry) /\ DOMAIN frags = DOMAIN d[page].frags /\ frags[k] = e
      /\ \A j \in DOMAIN d[page].frags \ {k} : frags[j] = d[page].frags[j]
  BY <1>0, SMTT(30) DEF A!PageEntry
<1>2. Updated(d, page, k, e) = n
  BY DEF Updated
<1> HIDE DEF frags
<1>3. entry \in ActivePage /\ entry.frags = frags
  BY <1>0, <1>1 DEF ActivePage, A!PageEntry
<1> HIDE DEF entry
<1>4. A!IsDict(n, Page, ActivePage) /\ Assigned(d, n, page, entry)
  BY <1>3, UpdateEffect
<1> HIDE DEF n
<1> QED
  BY <1>1, <1>2, <1>3, <1>4 DEF Assigned, FragChanged

(* A page gets one more fragment.                                          *)
FragAdded(d, n, page, e) ==
  /\ DOMAIN n = DOMAIN d
  /\ \A p \in DOMAIN d \ {page} : n[p] = d[p]
  /\ n[page].frags = Append(d[page].frags, e)

(* What appending a fragment to a page does.                               *)
LEMMA AppendEffect ==
  ASSUME NEW d, A!IsDict(d, Page, ActivePage), NEW page \in DOMAIN d, NEW e \in A!Entry
  PROVE  /\ A!IsDict([d EXCEPT ![page].frags = Append(@, e)], Page, ActivePage)
         /\ FragAdded(d, [d EXCEPT ![page].frags = Append(@, e)], page, e)
<1> DEFINE frags == Append(d[page].frags, e)
           entry == [d[page] EXCEPT !.frags = frags]
           n == [d EXCEPT ![page] = entry]
<1>0. d[page] \in A!PageEntry /\ d[page].free_time = None
  BY DEF A!IsDict, ActivePage
<1>1. frags \in Seq(A!Entry)
  BY <1>0, SMTT(30) DEF A!PageEntry
<1>2. [d EXCEPT ![page].frags = Append(@, e)] = n
  OBVIOUS
<1> HIDE DEF frags
<1>3. entry \in ActivePage /\ entry.frags = frags
  BY <1>0, <1>1 DEF ActivePage, A!PageEntry
<1> HIDE DEF entry
<1>4. A!IsDict(n, Page, ActivePage) /\ Assigned(d, n, page, entry)
  BY <1>3, UpdateEffect
<1> HIDE DEF n
<1>5. FragAdded(d, n, page, e)
  BY <1>3, <1>4 DEF Assigned, FragAdded, frags
<1> QED
  BY <1>2, <1>4, <1>5

(* The element-wise view of a sequence with one more element.              *)
LEMMA AppendElements ==
  ASSUME NEW S, NEW s \in Seq(S), NEW e \in S
  PROVE  /\ Append(s, e) \in Seq(S)
         /\ DOMAIN Append(s, e) = DOMAIN s \cup {Len(s) + 1}
         /\ Len(s) + 1 \notin DOMAIN s
         /\ Append(s, e)[Len(s) + 1] = e
         /\ \A k \in DOMAIN s : Append(s, e)[k] = s[k]
BY SMTT(30)

(* A dict's order without a key has the other keys, each as often.         *)
LEMMA WithoutEffect ==
  ASSUME NEW order \in Seq(Ptr), NEW key,
         \E j \in DOMAIN order : order[j] = key,
         \A j, k \in DOMAIN order : order[j] = order[k] => j = k
  PROVE  LET w == A!Without(order, key) IN
         /\ w \in Seq(Ptr)
         /\ \A j \in DOMAIN w : w[j] # key /\ \E i \in DOMAIN order : w[j] = order[i]
         /\ \A i \in DOMAIN order : order[i] # key => \E j \in DOMAIN w : w[j] = order[i]
         /\ \A j, k \in DOMAIN w : w[j] = w[k] => j = k
<1> DEFINE w == A!Without(order, key)
           n == Len(order)
<1>1. PICK k \in 1 .. n : order[k] = key /\ w = [j \in 1 .. n - 1 |-> IF j < k THEN order[j] ELSE order[j + 1]]
  BY SMTT(30) DEF A!Without
<1>2. n \in Nat /\ n # 0 /\ n - 1 \in Nat /\ DOMAIN order = 1 .. n
  BY <1>1, SMTT(30)
<1> HIDE DEF n, w
<1>3. \A j \in 1 .. n - 1 :
        /\ w[j] = IF j < k THEN order[j] ELSE order[j + 1]
        /\ w[j] \in Ptr
  BY <1>1, <1>2, SMTT(30)
<1>4. w \in Seq(Ptr) /\ DOMAIN w = 1 .. n - 1
  BY <1>1, <1>2, <1>3, SMTT(30)
<1>5. \A j \in 1 .. n - 1 : \E i \in 1 .. n : i # k /\ w[j] = order[i] /\ i = IF j < k THEN j ELSE j + 1
  BY <1>2, <1>3, SMTT(30)
<1>6. \A i \in 1 .. n : i # k => \E j \in 1 .. n - 1 : w[j] = order[i]
  <2> TAKE i \in 1 .. n
  <2>1. CASE i < k
    BY <1>2, <1>3, <2>1, SMTT(30)
  <2>2. CASE i > k
    <3>1. i - 1 \in 1 .. n - 1 /\ ~ (i - 1 < k) /\ (i - 1) + 1 = i
      BY <1>2, <2>2, SMTT(30)
    <3> QED
      BY <1>3, <3>1
  <2> QED
    BY <2>1, <2>2, SMTT(30)
<1>7. /\ \A j \in DOMAIN w : w[j] # key /\ \E i \in DOMAIN order : w[j] = order[i]
      /\ \A i \in DOMAIN order : order[i] # key => \E j \in DOMAIN w : w[j] = order[i]
  <2>1. ASSUME NEW j \in 1 .. n - 1
        PROVE  w[j] # key /\ \E i \in DOMAIN order : w[j] = order[i]
    <3>1. PICK i \in 1 .. n : i # k /\ w[j] = order[i]
      BY <1>5
    <3>2. order[i] # order[k]
      BY <1>2, <3>1
    <3> QED
      BY <1>1, <1>2, <3>1, <3>2
  <2>2. ASSUME NEW i \in 1 .. n, order[i] # key
        PROVE  \E j \in 1 .. n - 1 : w[j] = order[i]
    BY <1>1, <1>6, <2>2
  <2> QED
    BY <1>2, <1>4, <2>1, <2>2
<1>8. ASSUME NEW i \in DOMAIN w, NEW j \in DOMAIN w, w[i] = w[j] PROVE i = j
  <2>1. PICK a \in 1 .. n : w[i] = order[a] /\ a = IF i < k THEN i ELSE i + 1
    BY <1>4, <1>5
  <2>2. PICK b \in 1 .. n : w[j] = order[b] /\ b = IF j < k THEN j ELSE j + 1
    BY <1>4, <1>5
  <2>3. a = b
    BY <1>2, <1>8, <2>1, <2>2
  <2>4. i \in Nat /\ j \in Nat /\ k \in Nat
    BY <1>2, <1>4, SMTT(30)
  <2> QED
    BY <2>1, <2>2, <2>3, <2>4, SMTT(30)
<1> QED
  BY <1>4, <1>7, <1>8 DEF w

(* The analyzer's state while it runs.                                     *)
HeadsTyped ==
  /\ A!IsDict(active_skb_ptrs, Ptr, ActiveHead)
  /\ A!IsDict(freed_skb_ptrs, Ptr, FreedHead)
(* The types of the two dicts of pages.                                    *)
PagesTyped ==
  /\ A!IsDict(active_pages, Page, ActivePage)
  /\ A!IsDict(freed_pages, Page, GonePage)
(* The order of active_skb_ptrs lists its keys, each once.                 *)
OrderInv ==
  /\ skb_order \in Seq(Ptr)
  /\ \A k \in DOMAIN skb_order : skb_order[k] \in DOMAIN active_skb_ptrs
  /\ \A h \in DOMAIN active_skb_ptrs : \E k \in DOMAIN skb_order : skb_order[k] = h
  /\ \A j, k \in DOMAIN skb_order : skb_order[j] = skb_order[k] => j = k

(* The analyzer's state is well typed.                                     *)
Tables ==
  /\ HeadsTyped /\ PagesTyped /\ OrderInv
  /\ A!IsDict(consume_skb_locations, Skb, Loc)
  /\ now \in Nat

(* An event that leaves the dicts of heads alone keeps their types.        *)
LEMMA HeadsTypedKept ==
  ASSUME HeadsTyped, UNCHANGED <<active_skb_ptrs, freed_skb_ptrs>> PROVE HeadsTyped'
BY DEF HeadsTyped, A!IsDict

(* An event that leaves the dicts of pages alone keeps their types.        *)
LEMMA PagesTypedKept ==
  ASSUME PagesTyped, UNCHANGED <<active_pages, freed_pages>> PROVE PagesTyped'
BY DEF PagesTyped, A!IsDict

(* An event that adds no key and removes none keeps the order.             *)
LEMMA OrderKept ==
  ASSUME OrderInv, skb_order' = skb_order, DOMAIN active_skb_ptrs' = DOMAIN active_skb_ptrs
  PROVE  OrderInv'
BY DEF OrderInv

(* An event that leaves the call sites alone keeps their type.             *)
LEMMA LocationsTypedKept ==
  ASSUME A!IsDict(consume_skb_locations, Skb, Loc),
         consume_skb_locations' = consume_skb_locations
  PROVE  A!IsDict(consume_skb_locations', Skb, Loc)
OBVIOUS

(* An event that is ignored keeps the types.                               *)
LEMMA TablesKept ==
  ASSUME Tables, UNCHANGED A!dicts, now' \in Nat
  PROVE  Tables'
BY HeadsTypedKept, PagesTypedKept, OrderKept, LocationsTypedKept DEF Tables, A!dicts

(* kmalloc (lines 188-201): at most one row, of the head whose memory it   *)
(* is.                                                                     *)
LEMMA KmallocEffect ==
  ASSUME Tables, NEW t \in Nat, NEW ptr \in Ptr, A!Kmalloc(t, ptr), failure' = "none"
  PROVE  /\ Tables' /\ now' = t /\ printed' = {}
         /\ UNCHANGED <<active_skb_ptrs, skb_order, active_pages, freed_pages, consume_skb_locations>>
         /\ Popped(freed_skb_ptrs, freed_skb_ptrs', ptr)
         /\ IF ptr \in DOMAIN freed_skb_ptrs
            THEN rows' = <<A!Row("kmalloc", ptr, freed_skb_ptrs[ptr], None, t, None)>>
            ELSE rows' = << >>
<1>0. now' = t /\ failure = "none"
  BY DEF A!Kmalloc, A!Take
<1>1. CASE ptr \notin DOMAIN freed_skb_ptrs
  <2>1. A!Continue
    BY <1>1 DEF A!Kmalloc
  <2> QED
    BY <1>0, <1>1, <2>1, TablesKept
       DEF A!Continue, A!Silent, A!Appends, A!Prints, A!dicts, Popped
<1>2. CASE ptr \in DOMAIN freed_skb_ptrs
  <2>1. /\ rows' = <<A!Row("kmalloc", ptr, freed_skb_ptrs[ptr], None, t, None)>>
        /\ printed' = {} /\ freed_skb_ptrs' = A!Pop(freed_skb_ptrs, ptr)
        /\ UNCHANGED <<active_skb_ptrs, skb_order, active_pages, freed_pages, consume_skb_locations>>
    BY <1>2 DEF A!Kmalloc, A!Raise, A!Appends, A!Prints, A!FreedAfterReuse
  <2>2. A!IsDict(freed_skb_ptrs', Ptr, FreedHead) /\ Popped(freed_skb_ptrs, freed_skb_ptrs', ptr)
    BY <2>1, PopEffect DEF Tables, HeadsTyped
  <2>3. HeadsTyped'
    BY <2>1, <2>2 DEF Tables, HeadsTyped
  <2> QED
    BY <1>0, <1>2, <2>1, <2>2, <2>3, PagesTypedKept, OrderKept, LocationsTypedKept DEF Tables
<1> QED
  BY <1>1, <1>2

(* A new entry has the type of one.                                        *)
LEMMA NewEntryIs ==
  ASSUME NEW t \in Nat, NEW ptr \in Ptr, NEW loc \in Loc
  PROVE  A!NewEntry(t, ptr, loc) \in ActiveHead
BY DEF A!NewEntry, ActiveHead, A!Entry, A!Unfreed, A!Time

(* skb_head_kmalloc (lines 155-162): a new entry.                          *)
LEMMA SkbHeadKmallocEffect ==
  ASSUME Tables, NEW t \in Nat, NEW ptr \in Ptr, NEW loc \in Loc,
         A!SkbHeadKmalloc(t, ptr, loc), failure' = "none"
  PROVE  /\ Tables' /\ now' = t /\ printed' = {} /\ rows' = << >>
         /\ UNCHANGED <<freed_skb_ptrs, active_pages, freed_pages, consume_skb_locations>>
         /\ Assigned(active_skb_ptrs, active_skb_ptrs', ptr, A!NewEntry(t, ptr, loc))
<1>0. now' = t /\ failure = "none"
  BY DEF A!SkbHeadKmalloc, A!Take
<1>1. /\ active_skb_ptrs' = A!Put(active_skb_ptrs, ptr, A!NewEntry(t, ptr, loc))
      /\ skb_order' = IF ptr \in DOMAIN active_skb_ptrs THEN skb_order
                      ELSE Append(skb_order, ptr)
      /\ printed' = {} /\ rows' = << >>
      /\ UNCHANGED <<freed_skb_ptrs, active_pages, freed_pages, consume_skb_locations>>
  BY DEF A!SkbHeadKmalloc, A!Raise, A!Silent, A!Appends, A!Prints, A!FreedAfterKmalloc
<1>2. /\ A!IsDict(active_skb_ptrs', Ptr, ActiveHead)
      /\ Assigned(active_skb_ptrs, active_skb_ptrs', ptr, A!NewEntry(t, ptr, loc))
  <2> DEFINE e == A!NewEntry(t, ptr, loc)
  <2>1. e \in ActiveHead
    BY NewEntryIs
  <2> HIDE DEF e
  <2> QED
    BY <1>1, <2>1, PutEffect DEF Tables, HeadsTyped, e
<1>3. HeadsTyped'
  BY <1>1, <1>2 DEF Tables, HeadsTyped
<1>4. OrderInv'
  <2>1. CASE ptr \in DOMAIN active_skb_ptrs
    BY <1>1, <1>2, <2>1, OrderKept DEF Assigned, Tables
  <2>2. CASE ptr \notin DOMAIN active_skb_ptrs
    <3>1. skb_order' = Append(skb_order, ptr) /\ skb_order \in Seq(Ptr)
      BY <1>1, <2>2 DEF Tables, OrderInv
    <3>2. /\ skb_order' \in Seq(Ptr)
          /\ DOMAIN skb_order' = DOMAIN skb_order \cup {Len(skb_order) + 1}
          /\ skb_order'[Len(skb_order) + 1] = ptr
          /\ \A k \in DOMAIN skb_order : skb_order'[k] = skb_order[k]
      BY <3>1, AppendElements, SMTT(30)
    <3>3. \A k \in DOMAIN skb_order : skb_order[k] # ptr
      BY <2>2, SMTT(30) DEF Tables, OrderInv
    <3>4. DOMAIN active_skb_ptrs' = DOMAIN active_skb_ptrs \cup {ptr}
      BY <1>2 DEF Assigned
    <3> QED
      BY <3>2, <3>3, <3>4, SMTT(30) DEF Tables, OrderInv
  <2> QED
    BY <2>1, <2>2
<1> QED
  BY <1>0, <1>1, <1>2, <1>3, <1>4, PagesTypedKept, LocationsTypedKept, SMTT(30) DEF Tables

(* What an event writes into the entry of a head or of a fragment.         *)
WroteTo(e, t, skb) == [e EXCEPT !.data_write_time = t, !.skb_ptr = skb]
(* The entry with its free_time and free_func set.                         *)
FreedAs(e, t, func) == [e EXCEPT !.free_time = t, !.free_func = func]

(* The operations on entries keep their types.                             *)
LEMMA EntryEffects ==
  ASSUME NEW e \in A!Entry, NEW t \in Nat
  PROVE  /\ \A skb \in Skb :
              /\ WroteTo(e, t, skb) \in A!Entry
              /\ A!Unfreed(e) => A!Unfreed(WroteTo(e, t, skb))
         /\ \A func \in Func :
              FreedAs(e, t, func) \in A!Entry /\ A!Released(FreedAs(e, t, func))
         /\ \A loc \in Loc :
              /\ [e EXCEPT !.alloc_func = loc] \in A!Entry
              /\ A!Unfreed(e) => A!Unfreed([e EXCEPT !.alloc_func = loc])
<1>1. ASSUME NEW skb \in Skb
      PROVE  WroteTo(e, t, skb) \in A!Entry /\ (A!Unfreed(e) => A!Unfreed(WroteTo(e, t, skb)))
  BY <1>1 DEF WroteTo, A!Entry, A!Unfreed, A!Time
<1>2. ASSUME NEW func \in Func
      PROVE  FreedAs(e, t, func) \in A!Entry /\ A!Released(FreedAs(e, t, func))
  <2>1. FreedAs(e, t, func) \in A!Entry
    BY DEF FreedAs, A!Entry, Func, A!Time
  <2>2. FreedAs(e, t, func).free_time = t /\ FreedAs(e, t, func).free_func = func
    BY DEF FreedAs, A!Entry
  <2> QED
    BY <2>1, <2>2, NoneIsUnset DEF A!Released
<1>3. ASSUME NEW loc \in Loc
      PROVE  /\ [e EXCEPT !.alloc_func = loc] \in A!Entry
             /\ A!Unfreed(e) => A!Unfreed([e EXCEPT !.alloc_func = loc])
  BY DEF A!Entry, A!Unfreed
<1> QED
  BY <1>1, <1>2, <1>3

(* The call site of a release is one, or NOT FOUND.                        *)
LEMMA FreeFuncIs ==
  ASSUME Tables, NEW skb \in Skb PROVE A!FreeFunc(skb) \in Func
BY DEF Tables, A!IsDict, A!FreeFunc, Func

(* consume_skb and kfree_skb: the call site is recorded.                   *)
LEMMA ConsumeSkbEffect ==
  ASSUME Tables, NEW t \in Nat, NEW skb \in Skb, NEW loc \in Loc, A!ConsumeSkb(t, skb, loc)
  PROVE  /\ Tables' /\ now' = t /\ rows' = << >> /\ failure' = "none"
         /\ printed' = IF skb \in DOMAIN consume_skb_locations
                       THEN {"location already recorded"} ELSE {}
         /\ UNCHANGED <<active_skb_ptrs, skb_order, active_pages, freed_skb_ptrs, freed_pages>>
         /\ Assigned(consume_skb_locations, consume_skb_locations', skb, loc)
<1>1. /\ consume_skb_locations' = A!Put(consume_skb_locations, skb, loc)
      /\ now' = t /\ rows' = << >> /\ failure' = "none"
      /\ printed' = IF skb \in DOMAIN consume_skb_locations
                       THEN {"location already recorded"} ELSE {}
      /\ UNCHANGED <<active_skb_ptrs, skb_order, active_pages, freed_skb_ptrs, freed_pages>>
  BY DEF A!ConsumeSkb, A!Take, A!Appends, A!Prints, A!LocationsWith
<1>2. /\ A!IsDict(consume_skb_locations', Skb, Loc)
      /\ Assigned(consume_skb_locations, consume_skb_locations', skb, loc)
  BY <1>1, PutEffect DEF Tables
<1> QED
  BY <1>1, <1>2, HeadsTypedKept, PagesTypedKept, OrderKept DEF Tables

(* skb_head_kfree: the entry moves to freed_skb_ptrs, if there is one.     *)
LEMMA SkbHeadKfreeEffect ==
  ASSUME Tables, NEW t \in Nat, NEW skb \in Skb, NEW ptr \in Ptr,
         A!SkbHeadKfree(t, skb, ptr), failure' = "none"
  PROVE  /\ Tables' /\ now' = t /\ rows' = << >>
         /\ ptr \notin DOMAIN freed_skb_ptrs
         /\ UNCHANGED <<active_pages, freed_pages>>
         /\ \/ /\ ptr \notin DOMAIN active_skb_ptrs
               /\ UNCHANGED A!dicts /\ printed' = {}
            \/ /\ ptr \in DOMAIN active_skb_ptrs
               /\ Popped(active_skb_ptrs, active_skb_ptrs', ptr)
               /\ Assigned(freed_skb_ptrs, freed_skb_ptrs', ptr,
                           FreedAs(active_skb_ptrs[ptr], t, A!FreeFunc(skb)))
               /\ Popped(consume_skb_locations, consume_skb_locations', skb)
               /\ printed' = A!NoLocation(skb, "not in consume locations")
<1>0. now' = t /\ failure = "none" /\ ptr \notin DOMAIN freed_skb_ptrs
  BY DEF A!SkbHeadKfree, A!Take, A!Raise
<1>1. CASE ptr \notin DOMAIN active_skb_ptrs
  <2>1. A!Continue
    BY <1>0, <1>1 DEF A!SkbHeadKfree, A!Raise
  <2> QED
    BY <1>0, <1>1, <2>1, TablesKept DEF A!Continue, A!Silent, A!Appends, A!Prints, A!dicts
<1>2. CASE ptr \in DOMAIN active_skb_ptrs
  <2> DEFINE e == FreedAs(active_skb_ptrs[ptr], t, A!FreeFunc(skb))
  <2>1. /\ freed_skb_ptrs' = A!Put(freed_skb_ptrs, ptr, e)
        /\ active_skb_ptrs' = A!Pop(active_skb_ptrs, ptr)
        /\ skb_order' = A!Without(skb_order, ptr)
        /\ consume_skb_locations' = A!Pop(consume_skb_locations, skb)
        /\ rows' = << >>
        /\ printed' = A!NoLocation(skb, "not in consume locations")
        /\ UNCHANGED <<active_pages, freed_pages>>
    BY <1>0, <1>2 DEF A!SkbHeadKfree, A!Raise, A!Appends, A!Prints, A!LocationsWithout,
       FreedAs
  <2>2. e \in FreedHead
    <3>1. active_skb_ptrs[ptr] \in A!Entry
      BY <1>2 DEF Tables, HeadsTyped, A!IsDict, ActiveHead
    <3> QED
      BY <3>1, FreeFuncIs, EntryEffects DEF FreedHead
  <2> HIDE DEF e
  <2>3. A!IsDict(freed_skb_ptrs', Ptr, FreedHead) /\ Assigned(freed_skb_ptrs, freed_skb_ptrs', ptr, e)
    BY <2>1, <2>2, PutEffect DEF Tables, HeadsTyped
  <2>4. A!IsDict(active_skb_ptrs', Ptr, ActiveHead) /\ Popped(active_skb_ptrs, active_skb_ptrs', ptr)
    BY <2>1, PopEffect DEF Tables, HeadsTyped
  <2>5. /\ A!IsDict(consume_skb_locations', Skb, Loc)
        /\ Popped(consume_skb_locations, consume_skb_locations', skb)
    BY <2>1, PopEffect DEF Tables
  <2>6. OrderInv'
    <3>1. /\ skb_order \in Seq(Ptr) /\ \E j \in DOMAIN skb_order : skb_order[j] = ptr
          /\ \A j, k \in DOMAIN skb_order : skb_order[j] = skb_order[k] => j = k
      BY <1>2 DEF Tables, OrderInv
    <3>2. /\ skb_order' \in Seq(Ptr)
          /\ \A j \in DOMAIN skb_order' :
               skb_order'[j] # ptr /\ \E i \in DOMAIN skb_order : skb_order'[j] = skb_order[i]
          /\ \A i \in DOMAIN skb_order : skb_order[i] # ptr =>
               \E j \in DOMAIN skb_order' : skb_order'[j] = skb_order[i]
          /\ \A j, k \in DOMAIN skb_order' : skb_order'[j] = skb_order'[k] => j = k
      <4> DEFINE w == A!Without(skb_order, ptr)
      <4>1. /\ w \in Seq(Ptr)
            /\ \A j \in DOMAIN w : w[j] # ptr /\ \E i \in DOMAIN skb_order : w[j] = skb_order[i]
            /\ \A i \in DOMAIN skb_order : skb_order[i] # ptr => \E j \in DOMAIN w : w[j] = skb_order[i]
            /\ \A j, k \in DOMAIN w : w[j] = w[k] => j = k
        BY <3>1, WithoutEffect
      <4> HIDE DEF w
      <4>2. skb_order' = w
        BY <2>1 DEF w
      <4> QED
        BY <4>1, <4>2, SMTT(30)
    <3>3. DOMAIN active_skb_ptrs' = DOMAIN active_skb_ptrs \ {ptr}
      BY <2>4 DEF Popped
    <3> QED
      BY <3>2, <3>3, SMTT(30) DEF Tables, OrderInv
  <2>7. HeadsTyped'
    BY <2>3, <2>4 DEF HeadsTyped
  <2> QED
    BY <1>0, <1>2, <2>1, <2>3, <2>4, <2>5, <2>6, <2>7, PagesTypedKept DEF Tables, e
<1> QED
  BY <1>1, <1>2

(* alloc_skb_with_frags: at most one entry changes, one that has the       *)
(* sk_buff.                                                                *)
LEMMA AllocSkbWithFragsEffect ==
  ASSUME Tables, NEW t \in Nat, NEW skb \in Skb, NEW loc \in Loc,
         A!AllocSkbWithFrags(t, skb, loc), failure' = "none"
  PROVE  /\ Tables' /\ now' = t /\ rows' = << >> /\ printed' = {}
         /\ UNCHANGED <<skb_order, active_pages, freed_skb_ptrs, freed_pages, consume_skb_locations>>
         /\ \/ /\ \A k \in A!Visited(skb) : ~ A!Matches(k, skb)
               /\ UNCHANGED active_skb_ptrs
            \/ \E k \in DOMAIN skb_order :
                 /\ A!Matches(k, skb)
                 /\ Assigned(active_skb_ptrs, active_skb_ptrs', skb_order[k],
                             [active_skb_ptrs[skb_order[k]] EXCEPT !.alloc_func = loc])
<1>0. now' = t /\ failure = "none"
  BY DEF A!AllocSkbWithFrags, A!Take
<1>1. CASE A!Continue /\ \A k \in A!Visited(skb) : ~ A!Matches(k, skb)
  BY <1>0, <1>1, TablesKept DEF A!Continue, A!Silent, A!Appends, A!Prints, A!dicts
<1>2. CASE /\ \E k \in A!Visited(skb) :
                A!Matches(k, skb) /\ active_skb_ptrs' = A!WithAllocFunc(skb_order[k], loc)
           /\ A!Silent
           /\ UNCHANGED <<skb_order, active_pages, freed_skb_ptrs, freed_pages, consume_skb_locations>>
  <2>1. PICK k \in DOMAIN skb_order :
          A!Matches(k, skb) /\ active_skb_ptrs' = [active_skb_ptrs EXCEPT ![skb_order[k]].alloc_func = loc]
    BY <1>2 DEF A!Visited, A!WithAllocFunc
  <2> DEFINE h == skb_order[k]
             e == [active_skb_ptrs[h] EXCEPT !.alloc_func = loc]
  <2>2. h \in DOMAIN active_skb_ptrs /\ active_skb_ptrs' = [active_skb_ptrs EXCEPT ![h] = e]
    BY <2>1 DEF Tables, OrderInv
  <2>3. e \in ActiveHead
    <3>1. active_skb_ptrs[h] \in ActiveHead
      BY <2>2 DEF Tables, HeadsTyped, A!IsDict
    <3> QED
      BY <3>1, EntryEffects DEF ActiveHead
  <2> HIDE DEF e, h
  <2>4. A!IsDict(active_skb_ptrs', Ptr, ActiveHead) /\ Assigned(active_skb_ptrs, active_skb_ptrs', h, e)
    BY <2>2, <2>3, UpdateEffect DEF Tables, HeadsTyped
  <2>5. HeadsTyped'
    BY <1>2, <2>4 DEF Tables, HeadsTyped
  <2>6. OrderInv'
    BY <1>2, <2>2, <2>4, OrderKept DEF Tables, Assigned
  <2>7. /\ A!Matches(k, skb)
        /\ Assigned(active_skb_ptrs, active_skb_ptrs', skb_order[k],
                    [active_skb_ptrs[skb_order[k]] EXCEPT !.alloc_func = loc])
    BY <2>1, <2>4 DEF e, h
  <2>8. Tables' /\ rows' = << >> /\ printed' = {}
    BY <1>0, <1>2, <2>5, <2>6, PagesTypedKept, LocationsTypedKept
    DEF Tables, A!Silent, A!Appends, A!Prints
  <2> QED
    BY <1>0, <1>2, <2>7, <2>8
<1> QED
  BY <1>0, <1>1, <1>2 DEF A!AllocSkbWithFrags, A!Raise

(* The fragment allocators: a fragment is appended to its page, if that is *)
(* known.                                                                  *)
LEMMA AllocFragEffect ==
  ASSUME Tables, NEW t \in Nat, NEW page \in Page, NEW ptr \in Ptr, NEW loc \in Loc,
         A!AllocFrag(t, page, ptr, loc), failure' = "none"
  PROVE  /\ Tables' /\ now' = t /\ rows' = << >> /\ printed' = {}
         /\ UNCHANGED <<active_skb_ptrs, skb_order, freed_skb_ptrs, freed_pages, consume_skb_locations>>
         /\ IF page \in DOMAIN active_pages
            THEN FragAdded(active_pages, active_pages', page, A!NewEntry(t, ptr, loc))
            ELSE UNCHANGED active_pages
<1>0. now' = t /\ failure = "none" /\ page \notin DOMAIN freed_pages
  BY DEF A!AllocFrag, A!Take, A!Raise
<1>1. CASE page \notin DOMAIN active_pages
  <2>1. A!Continue
    BY <1>0, <1>1 DEF A!AllocFrag, A!Raise
  <2> QED
    BY <1>0, <1>1, <2>1, TablesKept DEF A!Continue, A!Silent, A!Appends, A!Prints, A!dicts
<1>2. CASE page \in DOMAIN active_pages
  <2> DEFINE e == A!NewEntry(t, ptr, loc)
  <2>1. /\ active_pages' = [active_pages EXCEPT ![page].frags = Append(@, e)]
        /\ rows' = << >> /\ printed' = {}
        /\ UNCHANGED <<active_skb_ptrs, skb_order, freed_skb_ptrs, freed_pages, consume_skb_locations>>
    BY <1>0, <1>2 DEF A!AllocFrag, A!Raise, A!Silent, A!Appends, A!Prints
  <2>2. e \in A!Entry
    BY NewEntryIs DEF ActiveHead
  <2> HIDE DEF e
  <2>3. A!IsDict(active_pages', Page, ActivePage) /\ FragAdded(active_pages, active_pages', page, e)
    BY <1>2, <2>1, <2>2, AppendEffect DEF Tables, PagesTyped
  <2>4. PagesTyped'
    BY <2>1, <2>3 DEF Tables, PagesTyped
  <2> QED
    BY <1>0, <1>2, <2>1, <2>3, <2>4, HeadsTypedKept, OrderKept, LocationsTypedKept
       DEF Tables, e
<1> QED
  BY <1>1, <1>2

(* The fragments of a page of a dict.                                      *)
LEMMA ActiveFrags ==
  ASSUME Tables, NEW page \in DOMAIN active_pages
  PROVE  active_pages[page].frags \in Seq(A!Entry)
BY DEF Tables, PagesTyped, A!IsDict, ActivePage, A!PageEntry

(* The fragments of a freed page are entries.                              *)
LEMMA GoneFrags ==
  ASSUME Tables, NEW page \in DOMAIN freed_pages
  PROVE  freed_pages[page].frags \in Seq(A!Entry)
BY DEF Tables, PagesTyped, A!IsDict, GonePage, A!PageEntry

(* An element of a list of entries is one.                                 *)
LEMMA FragElement ==
  ASSUME NEW frags \in Seq(A!Entry), NEW k \in DOMAIN frags
  PROVE  frags[k] \in A!Entry
BY SMTT(30)

(* finalize_skb_around: the fragment with that address changes, or else    *)
(* the head.                                                               *)
LEMMA FinalizeEffect ==
  ASSUME Tables, NEW t \in Nat, NEW skb \in Skb, NEW ptr \in Ptr,
         A!FinalizeSkbAround(t, skb, ptr), failure' = "none"
  PROVE  /\ Tables' /\ now' = t /\ rows' = << >> /\ printed' = {}
         /\ UNCHANGED <<skb_order, freed_skb_ptrs, freed_pages, consume_skb_locations>>
         /\ \/ \E page \in DOMAIN active_pages : \E k \in DOMAIN active_pages[page].frags :
                 /\ active_pages[page].frags[k].ptr = ptr
                 /\ FragChanged(active_pages, active_pages', page, k,
                                WroteTo(active_pages[page].frags[k], t, skb))
                 /\ UNCHANGED active_skb_ptrs
            \/ /\ \A p \in DOMAIN active_pages : \A k \in DOMAIN active_pages[p].frags :
                    active_pages[p].frags[k].ptr # ptr
               /\ IF ptr \in DOMAIN active_skb_ptrs
                  THEN Assigned(active_skb_ptrs, active_skb_ptrs', ptr,
                                WroteTo(active_skb_ptrs[ptr], t, skb))
                  ELSE UNCHANGED active_skb_ptrs
               /\ UNCHANGED active_pages
<1>0. now' = t /\ failure = "none"
  BY DEF A!FinalizeSkbAround, A!Take
<1>1. ASSUME NEW page \in A!PagesWith(ptr), NEW k \in DOMAIN active_pages[page].frags,
             A!FragIndex(active_pages[page].frags, ptr, k),
             active_pages' = [active_pages EXCEPT
               ![page].frags[k].data_write_time = t, ![page].frags[k].skb_ptr = skb],
             A!Silent,
             UNCHANGED <<active_skb_ptrs, skb_order, freed_skb_ptrs, freed_pages,
                         consume_skb_locations>>
      PROVE  /\ Tables' /\ rows' = << >> /\ printed' = {}
             /\ active_pages[page].frags[k].ptr = ptr
             /\ FragChanged(active_pages, active_pages', page, k,
                            WroteTo(active_pages[page].frags[k], t, skb))
  <2> DEFINE e == WroteTo(active_pages[page].frags[k], t, skb)
  <2>1. page \in DOMAIN active_pages /\ active_pages[page].frags \in Seq(A!Entry)
    BY ActiveFrags DEF A!PagesWith
  <2>4. active_pages[page].frags[k] \in A!Entry /\ e \in A!Entry
    BY <2>1, FragElement, EntryEffects
  <2>5. active_pages' = Updated(active_pages, page, k, e)
    <3>1. active_pages[page] \in A!PageEntry
      BY <2>1 DEF Tables, PagesTyped, A!IsDict, ActivePage
    <3> QED
      BY <1>1, <2>1, <2>4, <3>1 DEF Updated, WroteTo, A!PageEntry, A!Entry
  <2> HIDE DEF e
  <2>6. A!IsDict(active_pages', Page, ActivePage) /\ FragChanged(active_pages, active_pages', page, k, e)
    BY <2>1, <2>4, <2>5, FragEffect DEF Tables, PagesTyped
  <2>7. PagesTyped'
    BY <1>1, <2>6 DEF Tables, PagesTyped
  <2>8. Tables'
    BY <1>0, <1>1, <2>7, HeadsTypedKept, OrderKept, LocationsTypedKept DEF Tables
  <2> QED
    BY <1>1, <2>6, <2>8 DEF e, A!FragIndex, A!Silent, A!Appends, A!Prints
<1>2. ASSUME A!PagesWith(ptr) = {}
      PROVE  \A p \in DOMAIN active_pages : \A k \in DOMAIN active_pages[p].frags :
               active_pages[p].frags[k].ptr # ptr
  BY <1>2 DEF A!PagesWith, A!NoFragIndex
<1>3. CASE A!PagesWith(ptr) = {} /\ ptr \notin DOMAIN active_skb_ptrs /\ A!Continue
  BY <1>0, <1>2, <1>3, TablesKept DEF A!Continue, A!Silent, A!Appends, A!Prints, A!dicts
<1>4. CASE /\ A!PagesWith(ptr) = {}
           /\ ptr \in DOMAIN active_skb_ptrs
           /\ active_skb_ptrs' = [active_skb_ptrs EXCEPT
                ![ptr].data_write_time = t, ![ptr].skb_ptr = skb]
           /\ A!Silent
           /\ UNCHANGED <<skb_order, active_pages, freed_skb_ptrs, freed_pages,
                          consume_skb_locations>>
  <2> DEFINE e == WroteTo(active_skb_ptrs[ptr], t, skb)
  <2>1. active_skb_ptrs[ptr] \in ActiveHead
    BY <1>4 DEF Tables, HeadsTyped, A!IsDict
  <2>2. active_skb_ptrs' = [active_skb_ptrs EXCEPT ![ptr] = e]
    BY <1>4, <2>1 DEF WroteTo, ActiveHead, A!Entry
  <2>3. e \in ActiveHead
    BY <2>1, EntryEffects DEF ActiveHead
  <2> HIDE DEF e
  <2>4. A!IsDict(active_skb_ptrs', Ptr, ActiveHead) /\ Assigned(active_skb_ptrs, active_skb_ptrs', ptr, e)
    <3>1. ptr \in DOMAIN active_skb_ptrs
      BY <1>4
    <3> QED
      BY <2>2, <2>3, <3>1, UpdateEffect DEF Tables, HeadsTyped
  <2>5. HeadsTyped'
    BY <1>4, <2>4 DEF Tables, HeadsTyped
  <2>6. OrderInv'
    BY <1>4, <2>4, OrderKept DEF Tables, Assigned
  <2>7. Tables'
    BY <1>0, <1>4, <2>5, <2>6, PagesTypedKept, LocationsTypedKept DEF Tables
  <2> QED
    BY <1>0, <1>2, <1>4, <2>4, <2>7 DEF e, A!Silent, A!Appends, A!Prints
<1> DEFINE Goal ==
         /\ Tables' /\ now' = t /\ rows' = << >> /\ printed' = {}
         /\ UNCHANGED <<skb_order, freed_skb_ptrs, freed_pages, consume_skb_locations>>
         /\ \E page \in DOMAIN active_pages : \E k \in DOMAIN active_pages[page].frags :
                 /\ active_pages[page].frags[k].ptr = ptr
                 /\ FragChanged(active_pages, active_pages', page, k,
                                WroteTo(active_pages[page].frags[k], t, skb))
                 /\ UNCHANGED active_skb_ptrs
<1>5. ASSUME NEW page \in A!PagesWith(ptr), NEW k \in DOMAIN active_pages[page].frags,
             A!FragIndex(active_pages[page].frags, ptr, k),
             active_pages' = [active_pages EXCEPT
               ![page].frags[k].data_write_time = t, ![page].frags[k].skb_ptr = skb],
             A!Silent,
             UNCHANGED <<active_skb_ptrs, skb_order, freed_skb_ptrs, freed_pages,
                         consume_skb_locations>>
      PROVE  Goal
  <2>1. page \in DOMAIN active_pages
    BY DEF A!PagesWith
  <2> QED
    BY <1>0, <1>1, <1>5, <2>1
<1>6. \/ Goal
      \/ A!PagesWith(ptr) = {} /\ ptr \notin DOMAIN active_skb_ptrs /\ A!Continue
      \/ /\ A!PagesWith(ptr) = {}
         /\ ptr \in DOMAIN active_skb_ptrs
         /\ active_skb_ptrs' = [active_skb_ptrs EXCEPT
              ![ptr].data_write_time = t, ![ptr].skb_ptr = skb]
         /\ A!Silent
         /\ UNCHANGED <<skb_order, active_pages, freed_skb_ptrs, freed_pages,
                          consume_skb_locations>>
  <2> HIDE DEF Goal
  <2> QED
    BY <1>5 DEF A!FinalizeSkbAround, A!Raise
<1> QED
  BY <1>3, <1>4, <1>6

(* skb_head_frag_free: the call site is used up, and the fragment with     *)
(* that address changes if there is one.                                   *)
LEMMA SkbHeadFragFreeEffect ==
  ASSUME Tables, NEW t \in Nat, NEW page \in Page, NEW skb \in Skb, NEW ptr \in Ptr,
         A!SkbHeadFragFree(t, page, skb, ptr), failure' = "none"
  PROVE  /\ Tables' /\ now' = t /\ rows' = << >>
         /\ UNCHANGED <<active_skb_ptrs, skb_order, freed_skb_ptrs, freed_pages>>
         /\ Popped(consume_skb_locations, consume_skb_locations', skb)
         /\ \/ /\ page \notin DOMAIN active_pages
               /\ UNCHANGED active_pages /\ printed' = {}
            \/ /\ page \in DOMAIN active_pages
               /\ \A k \in DOMAIN active_pages[page].frags : active_pages[page].frags[k].ptr # ptr
               /\ UNCHANGED active_pages
            \/ /\ page \in DOMAIN active_pages
               /\ \E k \in DOMAIN active_pages[page].frags :
                    /\ active_pages[page].frags[k].ptr = ptr
                    /\ FragChanged(active_pages, active_pages', page, k,
                                   FreedAs(active_pages[page].frags[k], t, A!FreeFunc(skb)))
               /\ printed' = A!NoLocation(skb, "no consume location")
<1>0. now' = t /\ failure = "none" /\ page \notin DOMAIN freed_pages
  BY DEF A!SkbHeadFragFree, A!Take, A!Raise
<1>1. /\ consume_skb_locations' = A!Pop(consume_skb_locations, skb)
      /\ rows' = << >>
      /\ UNCHANGED <<active_skb_ptrs, skb_order, freed_skb_ptrs, freed_pages>>
  BY <1>0 DEF A!SkbHeadFragFree, A!Raise, A!Silent, A!Appends, A!LocationsWithout
<1>2. /\ A!IsDict(consume_skb_locations', Skb, Loc)
      /\ Popped(consume_skb_locations, consume_skb_locations', skb)
  BY <1>1, PopEffect DEF Tables
<1>3. PagesTyped' => Tables'
  BY <1>0, <1>1, <1>2, HeadsTypedKept, OrderKept DEF Tables
<1>4. UNCHANGED active_pages => Tables'
  BY <1>1, <1>3, PagesTypedKept DEF Tables
<1>5. CASE page \notin DOMAIN active_pages
  <2>1. UNCHANGED active_pages /\ printed' = {}
    BY <1>0, <1>5 DEF A!SkbHeadFragFree, A!Raise, A!Silent, A!Prints
  <2> QED
    BY <1>0, <1>1, <1>2, <1>4, <1>5, <2>1
<1>6. CASE page \in DOMAIN active_pages
  <2>1. active_pages[page].frags \in Seq(A!Entry)
    BY <1>6, ActiveFrags
  <2>2. CASE A!NoFragIndex(active_pages[page].frags, ptr) /\ UNCHANGED active_pages
    BY <1>0, <1>1, <1>2, <1>4, <1>6, <2>2 DEF A!NoFragIndex
  <2>3. ASSUME NEW k \in DOMAIN active_pages[page].frags,
               A!FragIndex(active_pages[page].frags, ptr, k),
               active_pages' = [active_pages EXCEPT ![page].frags[k].free_time = t,
                                ![page].frags[k].free_func = A!FreeFunc(skb)],
               printed' = A!NoLocation(skb, "no consume location")
        PROVE  /\ PagesTyped'
               /\ active_pages[page].frags[k].ptr = ptr
               /\ FragChanged(active_pages, active_pages', page, k,
                              FreedAs(active_pages[page].frags[k], t, A!FreeFunc(skb)))
    <3> DEFINE e == FreedAs(active_pages[page].frags[k], t, A!FreeFunc(skb))
    <3>3. active_pages[page].frags[k] \in A!Entry /\ e \in A!Entry
      BY <2>1, FragElement, EntryEffects, FreeFuncIs
    <3>4. active_pages' = Updated(active_pages, page, k, e)
      <4>1. active_pages[page] \in A!PageEntry
        BY <1>6 DEF Tables, PagesTyped, A!IsDict, ActivePage
      <4> QED
        BY <1>6, <2>1, <2>3, <3>3, <4>1 DEF Updated, FreedAs, A!PageEntry, A!Entry
    <3> HIDE DEF e
    <3>5. /\ A!IsDict(active_pages', Page, ActivePage)
          /\ FragChanged(active_pages, active_pages', page, k, e)
      BY <1>6, <3>3, <3>4, FragEffect DEF Tables, PagesTyped
    <3> QED
      BY <1>1, <2>3, <3>5 DEF e, Tables, PagesTyped, A!FragIndex
  <2>4. \/ A!NoFragIndex(active_pages[page].frags, ptr) /\ UNCHANGED active_pages
        \/ \E k \in DOMAIN active_pages[page].frags :
             /\ A!FragIndex(active_pages[page].frags, ptr, k)
             /\ active_pages' = [active_pages EXCEPT ![page].frags[k].free_time = t,
                                  ![page].frags[k].free_func = A!FreeFunc(skb)]
             /\ printed' = A!NoLocation(skb, "no consume location")
    BY <1>0, <1>6 DEF A!SkbHeadFragFree, A!Raise, A!Prints
  <2> QED
    BY <1>0, <1>1, <1>2, <1>3, <1>6, <2>2, <2>3, <2>4
<1> QED
  BY <1>5, <1>6

(* The entry of a page that has just been allocated.                       *)
NewPage(t) == [alloc_time |-> t, frags |-> << >>, free_time |-> None]

(* It has no fragments.                                                    *)
LEMMA NewPageIs ==
  ASSUME NEW t \in Nat
  PROVE  NewPage(t) \in ActivePage /\ NewPage(t).frags = << >>
<1>1. << >> \in Seq(A!Entry)
  BY SMTT(30)
<1> QED
  BY <1>1 DEF NewPage, ActivePage, A!PageEntry, A!Time

(* A freed page keeps its fragments.                                       *)
LEMMA FreedPageIs ==
  ASSUME NEW t \in Nat, NEW e \in ActivePage
  PROVE  /\ A!FreedPage(t, e) \in GonePage
         /\ A!FreedPage(t, e).frags = e.frags /\ A!FreedPage(t, e).free_time = t
<1>1. /\ A!FreedPage(t, e) \in A!PageEntry
      /\ A!FreedPage(t, e).frags = e.frags /\ A!FreedPage(t, e).free_time = t
  BY DEF A!FreedPage, ActivePage, A!PageEntry, A!Time
<1> QED
  BY <1>1, NoneIsUnset DEF GonePage

(* mm_page_alloc: one row for each fragment of the freed page, which is    *)
(* forgotten.                                                              *)
LEMMA MmPageAllocEffect ==
  ASSUME Tables, NEW t \in Nat, NEW page \in Page, A!MmPageAlloc(t, page), failure' = "none"
  PROVE  /\ Tables' /\ now' = t /\ printed' = {}
         /\ UNCHANGED <<active_skb_ptrs, skb_order, freed_skb_ptrs, consume_skb_locations>>
         /\ page \notin DOMAIN active_pages
         /\ Popped(freed_pages, freed_pages', page)
         /\ Assigned(active_pages, active_pages', page, NewPage(t))
         /\ IF page \in DOMAIN freed_pages
            THEN rows' = [k \in DOMAIN freed_pages[page].frags |->
                            A!Row("frag", freed_pages[page].frags[k].ptr, freed_pages[page].frags[k],
                                  page, t, freed_pages[page].free_time)]
            ELSE DOMAIN rows' = {}
<1>1. /\ now' = t /\ failure = "none" /\ page \notin DOMAIN active_pages /\ printed' = {}
      /\ freed_pages' = A!Pop(freed_pages, page)
      /\ active_pages' = A!Put(active_pages, page, NewPage(t))
      /\ UNCHANGED <<active_skb_ptrs, skb_order, freed_skb_ptrs, consume_skb_locations>>
  BY DEF A!MmPageAlloc, A!Take, A!Raise, A!Appends, A!Prints, A!FreedAfterAlloc, NewPage
<1>2. IF page \in DOMAIN freed_pages
      THEN rows' = [k \in DOMAIN freed_pages[page].frags |->
                      A!Row("frag", freed_pages[page].frags[k].ptr, freed_pages[page].frags[k],
                            page, t, freed_pages[page].free_time)]
      ELSE DOMAIN rows' = {}
  <2>1. CASE page \in DOMAIN freed_pages
    BY <1>1, <2>1 DEF A!MmPageAlloc, A!Raise, A!Appends
  <2>2. CASE page \notin DOMAIN freed_pages
    <3> DEFINE R(k) == A!Row("frag", << >>[k].ptr, << >>[k], page, t, freed_pages[page].free_time)
    <3>1. rows' = [k \in DOMAIN << >> |-> R(k)]
      BY <1>1, <2>2 DEF A!MmPageAlloc, A!Raise, A!Appends
    <3> HIDE DEF R
    <3> QED
      BY <2>2, <3>1, SMTT(30)
  <2> QED
    BY <2>1, <2>2
<1>3. A!IsDict(freed_pages', Page, GonePage) /\ Popped(freed_pages, freed_pages', page)
  BY <1>1, PopEffect DEF Tables, PagesTyped
<1>4. /\ A!IsDict(active_pages', Page, ActivePage)
      /\ Assigned(active_pages, active_pages', page, NewPage(t))
  <2> DEFINE e == NewPage(t)
  <2>1. e \in ActivePage
    BY NewPageIs
  <2> HIDE DEF e
  <2> QED
    BY <1>1, <2>1, PutEffect DEF Tables, PagesTyped, e
<1>5. PagesTyped'
  BY <1>3, <1>4 DEF PagesTyped
<1>6. Tables'
  BY <1>1, <1>5, HeadsTypedKept, OrderKept, LocationsTypedKept DEF Tables
<1> QED
  BY <1>1, <1>2, <1>3, <1>4, <1>6

(* mm_page_free: a page with fragments moves to freed_pages.               *)
LEMMA MmPageFreeEffect ==
  ASSUME Tables, NEW t \in Nat, NEW page \in Page, A!MmPageFree(t, page), failure' = "none"
  PROVE  /\ Tables' /\ now' = t /\ printed' = {} /\ rows' = << >>
         /\ UNCHANGED <<active_skb_ptrs, skb_order, freed_skb_ptrs, consume_skb_locations>>
         /\ Popped(active_pages, active_pages', page)
         /\ IF page \in DOMAIN active_pages /\ active_pages[page].frags # << >>
            THEN Assigned(freed_pages, freed_pages', page, A!FreedPage(t, active_pages[page]))
            ELSE UNCHANGED freed_pages
<1>0. now' = t /\ failure = "none"
  BY DEF A!MmPageFree, A!Take
<1>1. CASE page \notin DOMAIN active_pages
  <2>1. A!Continue
    BY <1>1 DEF A!MmPageFree
  <2> QED
    BY <1>0, <1>1, <2>1, TablesKept
       DEF A!Continue, A!Silent, A!Appends, A!Prints, A!dicts, Popped
<1>2. CASE page \in DOMAIN active_pages
  <2> DEFINE e == A!FreedPage(t, active_pages[page])
  <2>1. /\ active_pages' = A!Pop(active_pages, page)
        /\ freed_pages' = IF active_pages[page].frags = << >> THEN freed_pages
                          ELSE A!Put(freed_pages, page, e)
        /\ rows' = << >> /\ printed' = {}
        /\ UNCHANGED <<active_skb_ptrs, skb_order, freed_skb_ptrs, consume_skb_locations>>
    BY <1>0, <1>2 DEF A!MmPageFree, A!Raise, A!Silent, A!Appends, A!Prints, A!ActiveAfterFree
  <2>2. e \in GonePage
    BY <1>2, FreedPageIs DEF Tables, PagesTyped, A!IsDict
  <2> HIDE DEF e
  <2>3. A!IsDict(active_pages', Page, ActivePage) /\ Popped(active_pages, active_pages', page)
    BY <2>1, PopEffect DEF Tables, PagesTyped
  <2>4. /\ A!IsDict(freed_pages', Page, GonePage)
        /\ IF active_pages[page].frags # << >>
           THEN Assigned(freed_pages, freed_pages', page, e) ELSE UNCHANGED freed_pages
    <3>1. CASE active_pages[page].frags = << >>
      BY <2>1, <3>1 DEF Tables, PagesTyped
    <3>2. CASE active_pages[page].frags # << >>
      <4>1. freed_pages' = A!Put(freed_pages, page, e)
        BY <2>1, <3>2
      <4>2. A!IsDict(freed_pages', Page, GonePage) /\ Assigned(freed_pages, freed_pages', page, e)
        BY <2>2, <4>1, PutEffect DEF Tables, PagesTyped
      <4> QED
        BY <3>2, <4>2
    <3> QED
      BY <3>1, <3>2
  <2>5. PagesTyped'
    BY <2>3, <2>4 DEF PagesTyped
  <2>6. Tables'
    BY <1>0, <2>1, <2>5, HeadsTypedKept, OrderKept, LocationsTypedKept DEF Tables
  <2> QED
    BY <1>0, <1>2, <2>1, <2>3, <2>4, <2>6 DEF e
<1> QED
  BY <1>1, <1>2
-----------------------------------------------------------------------------
(* The dicts correspond to the kernel.                                     *)

(* The fragments of a page, as its list has them.                          *)
InPage(p, frags) ==
  \A k \in DOMAIN frags : frags[k].ptr \in Frag /\ PageOf[frags[k].ptr] = p
(* The list has an entry for the fragment f.                               *)
HasFrag(frags, f) == \E k \in DOMAIN frags : frags[k].ptr = f

(* Pages in use that were seen to be allocated are active, freed ones are  *)
(* not in use, and every fragment handed out of an active page has its     *)
(* entry.                                                                  *)
PagesInv ==
  /\ DOMAIN active_pages = seen
  /\ seen \subseteq page_used
  /\ DOMAIN freed_pages \cap page_used = {}
  /\ \A p \in DOMAIN active_pages : InPage(p, active_pages[p].frags)
  /\ \A p \in DOMAIN freed_pages : InPage(p, freed_pages[p].frags)
  /\ \A f \in handed :
       PageOf[f] \in DOMAIN active_pages => HasFrag(active_pages[PageOf[f]].frags, f)

(* An active entry is of memory that is reserved or a head, written when   *)
(* it is a head; a freed one is complete, and of free memory when every    *)
(* kmalloc is traced.                                                      *)
HeadsInv ==
  /\ \A h \in DOMAIN active_skb_ptrs :
       /\ h \in Kmem /\ h \in Reserved \cup InSkb
       /\ h \in InSkb => active_skb_ptrs[h].data_write_time # None
  /\ \A h \in DOMAIN freed_skb_ptrs :
       /\ h \in Kmem /\ freed_skb_ptrs[h].data_write_time # None
       /\ "untraced_kmalloc" \notin kernel.features => h \notin used

(* The fragments of an active page: handed out (H), each once, reserved    *)
(* (R) or a head (I) while in use (U), complete when not.                  *)
FragsTrue(frags, H, U, R, I) ==
  \A k \in DOMAIN frags :
    /\ frags[k].ptr \in H
    /\ \A j \in DOMAIN frags : frags[j].ptr = frags[k].ptr => j = k
    /\ frags[k].ptr \in U => frags[k].ptr \in R \cup I
    /\ frags[k].ptr \in I => frags[k].data_write_time # None
    /\ frags[k].ptr \notin U => A!Complete(frags[k])

(* The two features that make a page's entries lag behind its memory.      *)
Plain == kernel.features \cap {"recycled_pages", "stolen_heads"} = {}

(* Without them the entries of every page are true, and those of freed     *)
(* pages complete.                                                         *)
FragsInv ==
  Plain =>
    /\ \A p \in DOMAIN active_pages :
         FragsTrue(active_pages[p].frags, handed, used, Reserved, InSkb)
    /\ \A p \in DOMAIN freed_pages :
         \A k \in DOMAIN freed_pages[p].frags : A!Complete(freed_pages[p].frags[k])

(* The state the analyzer is in as long as it has not failed.              *)
Good == Tables /\ PagesInv /\ HeadsInv /\ FragsInv

(* The failure f has one of its causes among the kernel's features.        *)
Explained(f) == f \in DOMAIN Causes /\ Causes[f] \cap kernel.features # {}

(* Which features explain which failure.                                   *)
LEMMA ExplainedIs ==
  /\ ~ Plain => Explained("KeyError_60_72")
  /\ "with_frags" \in kernel.features => Explained("KeyError_167")
  /\ "untraced_kmalloc" \in kernel.features => Explained("assert_173")
BY DEF Explained, Causes, Plain

(* The fragments of a page keep their state when nothing happens to them.  *)
LEMMA FragsTrueKept ==
  ASSUME NEW frags, NEW H, NEW U, NEW R, NEW I, NEW H2, NEW U2, NEW R2, NEW I2,
         FragsTrue(frags, H, U, R, I),
         \A k \in DOMAIN frags :
           /\ frags[k].ptr \in H => frags[k].ptr \in H2
           /\ frags[k].ptr \in U2 => frags[k].ptr \in U
           /\ frags[k].ptr \in U \ U2 => frags[k].ptr \notin R \cup I
           /\ frags[k].ptr \in R <=> frags[k].ptr \in R2
           /\ frags[k].ptr \in I <=> frags[k].ptr \in I2
  PROVE  FragsTrue(frags, H2, U2, R2, I2)
BY DEF FragsTrue

(* An event that is not about pages.                                       *)
LEMMA PagesUntouched ==
  ASSUME PagesInv, FragsInv, UNCHANGED <<active_pages, freed_pages, seen, page_used, kernel>>,
         handed' \subseteq handed, Plain => handed' = handed,
         Plain => \A f \in Frag :
           /\ f \in used' => f \in used
           /\ f \in used \ used' => f \notin Reserved \cup InSkb
           /\ f \in Reserved <=> f \in Reserved'
           /\ f \in InSkb <=> f \in InSkb'
  PROVE  PagesInv' /\ FragsInv'
<1>1. PagesInv'
  BY DEF PagesInv
<1>2. ASSUME Plain, NEW p \in DOMAIN active_pages
      PROVE  FragsTrue(active_pages[p].frags, handed', used', Reserved', InSkb')
  <2>1. FragsTrue(active_pages[p].frags, handed, used, Reserved, InSkb)
    BY <1>2 DEF FragsInv
  <2>2. \A k \in DOMAIN active_pages[p].frags : active_pages[p].frags[k].ptr \in Frag
    BY DEF PagesInv, InPage
  <2> QED
    BY <1>2, <2>1, <2>2, FragsTrueKept, SMTT(30)
<1>3. FragsInv'
  BY <1>2 DEF FragsInv, Plain
<1> QED
  BY <1>1, <1>3

(* An event that is not about heads from kmalloc.                          *)
LEMMA HeadsUntouched ==
  ASSUME HeadsInv, UNCHANGED <<active_skb_ptrs, freed_skb_ptrs, kernel>>,
         \A h \in Kmem :
           /\ h \in Reserved \cup InSkb <=> h \in Reserved' \cup InSkb'
           /\ h \in InSkb <=> h \in InSkb'
           /\ "untraced_kmalloc" \notin kernel.features => (h \in used' => h \in used)
  PROVE  HeadsInv'
BY DEF HeadsInv

(* The analyzer goes on in a good state, or stops for a reason.            *)
Outcome == (failure' = "none" /\ Good') \/ (failure' # "none" /\ Explained(failure'))

(* kmalloc: memory that is neither a fragment nor a head is taken.         *)
LEMMA KmallocGood ==
  ASSUME Good, NEW t \in Nat, NEW ptr \in Kmem, A!Kmalloc(t, ptr),
         UNCHANGED <<kernel, seen, page_used, handed>>, used' = used \cup {ptr},
         Reserved' = Reserved, InSkb' = InSkb
  PROVE  Outcome /\ failure' = "none"
<1>0. ptr \in Ptr /\ ptr \notin Frag
  BY PtrAssumption DEF Ptr
<1>1. failure' = "none"
  <2>1. ASSUME ptr \in DOMAIN freed_skb_ptrs PROVE A!Complete(freed_skb_ptrs[ptr])
    BY <2>1 DEF Good, Tables, HeadsTyped, HeadsInv, A!IsDict, FreedHead, A!Released,
       A!Complete
  <2> QED
    BY <2>1 DEF A!Kmalloc, A!Take, A!Continue, A!Silent, A!Appends
<1>2. /\ Tables' /\ Popped(freed_skb_ptrs, freed_skb_ptrs', ptr)
      /\ UNCHANGED <<active_skb_ptrs, active_pages, freed_pages>>
  BY <1>0, <1>1, KmallocEffect DEF Good
<1>3. PagesInv' /\ FragsInv'
  BY <1>0, <1>2, PagesUntouched DEF Good
<1>4. HeadsInv'
  BY <1>2 DEF Good, HeadsInv, Popped
<1> QED
  BY <1>1, <1>2, <1>3, <1>4 DEF Outcome, Good

(* skb_head_kmalloc: the head has no entry yet, so the assertion at line   *)
(* 157 holds.                                                              *)
LEMMA HeadKmallocGood ==
  ASSUME Good, NEW t \in Nat, NEW ptr \in Kmem, NEW loc \in Loc, A!SkbHeadKmalloc(t, ptr, loc),
         UNCHANGED <<kernel, seen, page_used, handed, used>>,
         ptr \notin Reserved \cup InSkb,
         Reserved' = Reserved \cup {ptr}, InSkb' = InSkb
  PROVE  Outcome /\ failure' = "none"
<1>0. ptr \in Ptr /\ ptr \notin Frag
  BY PtrAssumption DEF Ptr
<1>1. failure' = "none"
  <2>1. ptr \notin DOMAIN active_skb_ptrs
    BY DEF Good, HeadsInv
  <2> QED
    BY <2>1 DEF A!SkbHeadKmalloc, A!Take, A!Silent, A!Appends
<1>2. /\ Tables' /\ Assigned(active_skb_ptrs, active_skb_ptrs', ptr, A!NewEntry(t, ptr, loc))
      /\ UNCHANGED <<freed_skb_ptrs, active_pages, freed_pages>>
  BY <1>0, <1>1, SkbHeadKmallocEffect DEF Good
<1>3. PagesInv' /\ FragsInv'
  BY <1>0, <1>2, PagesUntouched DEF Good
<1>4. HeadsInv'
  BY <1>2 DEF Good, HeadsInv, Assigned
<1> QED
  BY <1>1, <1>2, <1>3, <1>4 DEF Outcome, Good

(* consume_skb, kfree_skb                                                  *)
LEMMA ConsumeGood ==
  ASSUME Good, NEW t \in Nat, NEW skb \in Skb, NEW loc \in Loc, A!ConsumeSkb(t, skb, loc),
         UNCHANGED <<kernel, seen, page_used, handed, used>>,
         Reserved' = Reserved, InSkb' = InSkb
  PROVE  Outcome /\ failure' = "none"
<1>2. /\ Tables' /\ failure' = "none"
      /\ UNCHANGED <<active_skb_ptrs, freed_skb_ptrs, active_pages, freed_pages>>
  BY ConsumeSkbEffect DEF Good
<1>3. PagesInv' /\ FragsInv'
  BY <1>2, PagesUntouched DEF Good
<1>4. HeadsInv'
  BY <1>2, HeadsUntouched DEF Good
<1> QED
  BY <1>2, <1>3, <1>4 DEF Outcome, Good

(* alloc_skb_with_frags: it fails only at line 167, and that needs the     *)
(* event.                                                                  *)
LEMMA WithFragsGood ==
  ASSUME Good, NEW t \in Nat, NEW skb \in Skb, NEW loc \in Loc, A!AllocSkbWithFrags(t, skb, loc),
         UNCHANGED <<kernel, seen, page_used, handed, used>>,
         Reserved' = Reserved, InSkb' = InSkb, "with_frags" \in kernel.features
  PROVE  Outcome /\ failure' \in {"none", "KeyError_167"}
<1>1. CASE failure' = "KeyError_167"
  BY <1>1, ExplainedIs DEF Outcome
<1>2. CASE failure' = "none"
  <2>1. /\ Tables' /\ UNCHANGED <<skb_order, freed_skb_ptrs, active_pages, freed_pages>>
        /\ \/ UNCHANGED active_skb_ptrs
           \/ \E k \in DOMAIN skb_order :
                Assigned(active_skb_ptrs, active_skb_ptrs', skb_order[k],
                         [active_skb_ptrs[skb_order[k]] EXCEPT !.alloc_func = loc])
    BY <1>2, AllocSkbWithFragsEffect DEF Good
  <2>2. PagesInv' /\ FragsInv'
    BY <2>1, PagesUntouched DEF Good
  <2>3. HeadsInv'
    <3>1. CASE UNCHANGED active_skb_ptrs
      BY <2>1, <3>1, HeadsUntouched DEF Good
    <3>2. ASSUME NEW h \in DOMAIN active_skb_ptrs,
                 Assigned(active_skb_ptrs, active_skb_ptrs', h,
                          [active_skb_ptrs[h] EXCEPT !.alloc_func = loc])
          PROVE  HeadsInv'
      <4>1. DOMAIN active_skb_ptrs' = DOMAIN active_skb_ptrs
        BY <3>2 DEF Assigned
      <4>2. active_skb_ptrs[h] \in A!Entry
        BY DEF Good, Tables, HeadsTyped, A!IsDict, ActiveHead
      <4>3. \A g \in DOMAIN active_skb_ptrs :
              active_skb_ptrs'[g].data_write_time = active_skb_ptrs[g].data_write_time
        BY <3>2, <4>2 DEF Assigned, A!Entry
      <4> QED
        BY <2>1, <4>1, <4>3 DEF Good, HeadsInv
    <3>3. \A k \in DOMAIN skb_order : skb_order[k] \in DOMAIN active_skb_ptrs
      BY DEF Good, Tables, OrderInv
    <3> QED
      BY <2>1, <3>1, <3>2, <3>3
  <2> QED
    BY <1>2, <2>1, <2>2, <2>3 DEF Outcome, Good
<1> QED
  BY <1>1, <1>2 DEF A!AllocSkbWithFrags, A!Take, A!Raise, A!Continue, A!Silent, A!Appends

(* A page other than the one that an event is about.                       *)
LEMMA OtherFrags ==
  ASSUME NEW p, NEW q, NEW frags, p # q, InPage(p, frags), NEW ptr, PageOf[ptr] = q
  PROVE  \A k \in DOMAIN frags : frags[k].ptr # ptr
BY DEF InPage

(* The fragment allocators: the page is in use, so the assertion at line   *)
(* 81 holds.                                                               *)
LEMMA AllocFragGood ==
  ASSUME Good, KernelInv, NEW t \in Nat, NEW ptr \in Frag, NEW loc \in Loc,
         A!AllocFrag(t, PageOf[ptr], ptr, loc), UNCHANGED <<kernel, seen, page_used>>,
         ptr \notin handed, PageOf[ptr] \in page_used,
         ptr \notin used \cup Reserved \cup InSkb,
         handed' = handed \cup {ptr}, used' = used \cup {ptr},
         Reserved' = Reserved \cup {ptr}, InSkb' = InSkb
  PROVE  Outcome /\ failure' = "none"
<1> DEFINE page == PageOf[ptr]
           e == A!NewEntry(t, ptr, loc)
<1>0. ptr \in Ptr /\ ptr \notin Kmem /\ page \in Page
  BY PtrAssumption DEF Ptr
<1>1. failure' = "none"
  <2>1. page \notin DOMAIN freed_pages
    BY DEF Good, PagesInv
  <2> QED
    BY <2>1 DEF A!AllocFrag, A!Take, A!Continue, A!Silent, A!Appends
<1>2. /\ Tables' /\ UNCHANGED <<active_skb_ptrs, freed_skb_ptrs, freed_pages>>
      /\ IF page \in DOMAIN active_pages
         THEN FragAdded(active_pages, active_pages', page, e) ELSE UNCHANGED active_pages
  BY <1>0, <1>1, AllocFragEffect DEF Good
<1>3. HeadsInv'
  BY <1>0, <1>2, HeadsUntouched DEF Good
<1>4. e.ptr = ptr /\ e.data_write_time = None
  BY DEF A!NewEntry
<1>5. ASSUME Plain, NEW p \in DOMAIN active_pages, p # page
      PROVE  FragsTrue(active_pages[p].frags, handed', used', Reserved', InSkb')
  <2>1. \A k \in DOMAIN active_pages[p].frags : active_pages[p].frags[k].ptr # ptr
    BY <1>5, OtherFrags DEF Good, PagesInv
  <2>2. FragsTrue(active_pages[p].frags, handed, used, Reserved, InSkb)
    BY <1>5 DEF Good, FragsInv
  <2> QED
    BY <2>1, <2>2, FragsTrueKept, SMTT(30)
<1>6. CASE page \notin DOMAIN active_pages
  <2>1. UNCHANGED active_pages
    BY <1>2, <1>6
  <2>2. PagesInv'
    BY <1>2, <1>6, <2>1 DEF Good, PagesInv
  <2>3. FragsInv'
    BY <1>2, <1>5, <1>6, <2>1 DEF Good, FragsInv, Plain
  <2> QED
    BY <1>1, <1>2, <1>3, <2>2, <2>3 DEF Outcome, Good
<1>7. CASE page \in DOMAIN active_pages
  <2> DEFINE old == active_pages[page].frags
             new == active_pages'[page].frags
             n == Len(old) + 1
  <2>1. /\ DOMAIN active_pages' = DOMAIN active_pages
        /\ \A p \in DOMAIN active_pages \ {page} : active_pages'[p] = active_pages[p]
        /\ new = Append(old, e)
    BY <1>2, <1>7 DEF FragAdded
  <2>2. old \in Seq(A!Entry) /\ e \in A!Entry
    BY <1>0, <1>7, ActiveFrags, NewEntryIs DEF Good, ActiveHead
  <2> HIDE DEF e, new, old
  <2>3. /\ DOMAIN new = DOMAIN old \cup {n} /\ n \notin DOMAIN old
        /\ new[n] = e /\ \A k \in DOMAIN old : new[k] = old[k]
    BY <2>1, <2>2, AppendElements, SMTT(30)
  <2> HIDE DEF n
  <2>4. InPage(page, new)
    <3>1. InPage(page, old)
      BY <1>7 DEF Good, PagesInv, old
    <3> QED
      BY <1>4, <2>3, <3>1 DEF InPage
  <2>5. ASSUME NEW f \in handed', PageOf[f] \in DOMAIN active_pages
        PROVE  HasFrag(active_pages'[PageOf[f]].frags, f)
    <3>1. CASE f = ptr
      BY <1>4, <2>3, <3>1 DEF HasFrag, new
    <3>2. CASE f # ptr /\ PageOf[f] = page
      <4>1. HasFrag(old, f)
        BY <2>5, <3>2 DEF Good, PagesInv, old
      <4> QED
        BY <2>3, <3>2, <4>1 DEF HasFrag, new
    <3>3. CASE f # ptr /\ PageOf[f] # page
      BY <2>1, <2>5, <3>3 DEF Good, PagesInv
    <3> QED
      BY <3>1, <3>2, <3>3
  <2>6. PagesInv'
    BY <1>2, <2>1, <2>4, <2>5 DEF Good, PagesInv, new
  <2>7. ASSUME Plain PROVE FragsTrue(new, handed', used', Reserved', InSkb')
    <3>1. FragsTrue(old, handed, used, Reserved, InSkb)
      BY <1>7, <2>7 DEF Good, FragsInv, old
    <3> QED
      BY <1>4, <2>3, <3>1 DEF FragsTrue
  <2>8. FragsInv'
    BY <1>2, <1>5, <2>1, <2>7 DEF Good, FragsInv, Plain, new
  <2> QED
    BY <1>1, <1>2, <1>3, <2>6, <2>8 DEF Outcome, Good
<1> QED
  BY <1>6, <1>7

(* mm_page_alloc: the page is not in use, so the assertion at line 57      *)
(* holds, and rows are complete unless pages are recycled or heads stolen. *)
LEMMA PageAllocGood ==
  ASSUME Good, KernelInv, NEW t \in Nat, NEW page \in Page, A!MmPageAlloc(t, page),
         UNCHANGED <<kernel, used, handed>>, page \notin page_used,
         page_used' = page_used \cup {page}, seen' = seen \cup {page},
         Reserved' = Reserved, InSkb' = InSkb
  PROVE  Outcome /\ failure' \in {"none", "KeyError_60_72"}
<1>1. page \notin DOMAIN active_pages
  BY DEF Good, PagesInv
<1>2. CASE failure' = "KeyError_60_72"
  <2>1. \E k \in DOMAIN freed_pages[page].frags : ~ A!Complete(freed_pages[page].frags[k])
        /\ page \in DOMAIN freed_pages
    BY <1>1, <1>2, SMTT(30) DEF A!MmPageAlloc, A!Take, A!Appends
  <2>2. ~ Plain
    BY <2>1 DEF Good, FragsInv
  <2> QED
    BY <1>2, <2>2, ExplainedIs DEF Outcome
<1>3. CASE failure' = "none"
  <2>1. /\ Tables' /\ UNCHANGED <<active_skb_ptrs, freed_skb_ptrs>>
        /\ Popped(freed_pages, freed_pages', page)
        /\ Assigned(active_pages, active_pages', page, NewPage(t))
    BY <1>3, MmPageAllocEffect DEF Good
  <2>2. HeadsInv'
    BY <2>1, HeadsUntouched DEF Good
  <2>3. active_pages'[page].frags = << >>
    BY <2>1, NewPageIs DEF Assigned
  <2>4. \A f \in handed : PageOf[f] # page
    BY DEF KernelInv, MemoryConsistent
  <2>5. PagesInv'
    BY <1>1, <2>1, <2>3, <2>4, SMTT(30) DEF Good, PagesInv, Assigned, Popped, InPage
  <2>6. FragsInv'
    BY <1>1, <2>1, <2>3, SMTT(30) DEF Good, FragsInv, Assigned, Popped, FragsTrue, Plain
  <2> QED
    BY <1>3, <2>1, <2>2, <2>5, <2>6 DEF Outcome, Good
<1> QED
  BY <1>1, <1>2, <1>3 DEF A!MmPageAlloc, A!Take, A!Raise, A!Appends

(* mm_page_free: the page was in use, so the assertion at line 152 holds.  *)
LEMMA PageFreeGood ==
  ASSUME Good, KernelInv, NEW t \in Nat, NEW page \in Page, A!MmPageFree(t, page),
         UNCHANGED <<kernel, used>>, page \in page_used, FragsOf(page) \cap used = {},
         page_used' = page_used \ {page}, handed' = handed \ FragsOf(page),
         seen' = seen \ {page}, Reserved' = Reserved, InSkb' = InSkb
  PROVE  Outcome /\ failure' = "none"
<1>1. failure' = "none"
  <2>1. page \notin DOMAIN freed_pages
    BY DEF Good, PagesInv
  <2> QED
    BY <2>1 DEF A!MmPageFree, A!Take, A!Continue, A!Silent, A!Appends
<1>2. /\ Tables' /\ UNCHANGED <<active_skb_ptrs, freed_skb_ptrs>>
      /\ Popped(active_pages, active_pages', page)
      /\ IF page \in DOMAIN active_pages /\ active_pages[page].frags # << >>
         THEN Assigned(freed_pages, freed_pages', page, A!FreedPage(t, active_pages[page]))
         ELSE UNCHANGED freed_pages
  BY <1>1, MmPageFreeEffect DEF Good
<1>3. HeadsInv'
  BY <1>2, HeadsUntouched DEF Good
<1>4. /\ DOMAIN active_pages' = DOMAIN active_pages \ {page}
      /\ \A p \in DOMAIN active_pages' : active_pages'[p] = active_pages[p]
  BY <1>2 DEF Popped
<1>5. ASSUME NEW p \in DOMAIN freed_pages'
      PROVE  \/ p \in DOMAIN freed_pages /\ p # page /\ freed_pages'[p] = freed_pages[p]
             \/ /\ p = page /\ page \in DOMAIN active_pages
                /\ freed_pages'[p].frags = active_pages[page].frags
  <2>1. page \notin DOMAIN freed_pages
    BY DEF Good, PagesInv
  <2>2. page \in DOMAIN active_pages => active_pages[page] \in ActivePage
    BY DEF Good, Tables, PagesTyped, A!IsDict
  <2> QED
    BY <1>2, <2>1, <2>2, FreedPageIs, SMTT(30) DEF Assigned
<1>6. PagesInv'
  <2>1. \A f \in handed' : PageOf[f] # page
    BY DEF FragsOf, KernelInv, MemoryConsistent
  <2>2. \A p \in DOMAIN freed_pages' : InPage(p, freed_pages'[p].frags)
    BY <1>5 DEF Good, PagesInv
  <2>3. \A p \in DOMAIN active_pages' : InPage(p, active_pages'[p].frags)
    BY <1>4 DEF Good, PagesInv
  <2>4. \A f \in handed' : PageOf[f] \in DOMAIN active_pages' =>
          HasFrag(active_pages'[PageOf[f]].frags, f)
    BY <1>4, <2>1 DEF Good, PagesInv
  <2>5. /\ DOMAIN active_pages' = seen' /\ seen' \subseteq page_used'
        /\ DOMAIN freed_pages' \cap page_used' = {}
    BY <1>4, <1>5 DEF Good, PagesInv
  <2> QED
    BY <2>2, <2>3, <2>4, <2>5 DEF PagesInv
<1>7. ASSUME Plain PROVE FragsInv'
  <2>1. ASSUME NEW p \in DOMAIN active_pages'
        PROVE  FragsTrue(active_pages'[p].frags, handed', used', Reserved', InSkb')
    <3>1. FragsTrue(active_pages[p].frags, handed, used, Reserved, InSkb)
      BY <1>4, <1>7 DEF Good, FragsInv
    <3>2. \A k \in DOMAIN active_pages[p].frags :
            active_pages[p].frags[k].ptr \in handed => active_pages[p].frags[k].ptr \in handed'
      BY <1>4 DEF Good, PagesInv, InPage, FragsOf
    <3> QED
      BY <1>4, <3>1, <3>2, FragsTrueKept, SMTT(30)
  <2>2. ASSUME NEW p \in DOMAIN freed_pages', NEW k \in DOMAIN freed_pages'[p].frags
        PROVE  A!Complete(freed_pages'[p].frags[k])
    <3>1. CASE p \in DOMAIN freed_pages /\ p # page /\ freed_pages'[p] = freed_pages[p]
      BY <1>7, <3>1 DEF Good, FragsInv
    <3>2. CASE /\ p = page /\ page \in DOMAIN active_pages
               /\ freed_pages'[p].frags = active_pages[page].frags
      <4>1. active_pages[page].frags[k].ptr \notin used
        BY <3>2, SMTT(30) DEF Good, PagesInv, InPage, FragsOf
      <4> QED
        BY <1>7, <3>2, <4>1 DEF Good, FragsInv, FragsTrue
    <3> QED
      BY <1>5, <3>1, <3>2
  <2> QED
    BY <2>1, <2>2 DEF FragsInv
<1>8. FragsInv'
  BY <1>7 DEF FragsInv, Plain
<1> QED
  BY <1>1, <1>2, <1>3, <1>6, <1>8 DEF Outcome, Good

(* One fragment of a page changes, and what happens to it is what is       *)
(* recorded.                                                               *)
LEMMA FragChangedGood ==
  ASSUME PagesInv, FragsInv, NEW page \in DOMAIN active_pages,
         NEW k \in DOMAIN active_pages[page].frags, NEW e,
         FragChanged(active_pages, active_pages', page, k, e),
         e.ptr = active_pages[page].frags[k].ptr,
         UNCHANGED <<freed_pages, seen, page_used, handed, kernel>>,
         \A f \in Frag \ {e.ptr} :
           /\ f \in used <=> f \in used'
           /\ f \in Reserved <=> f \in Reserved'
           /\ f \in InSkb <=> f \in InSkb',
         e.ptr \in used' => e.ptr \in Reserved' \cup InSkb',
         e.ptr \in InSkb' => e.data_write_time # None,
         Plain /\ e.ptr \notin used' => A!Complete(e)
  PROVE  PagesInv' /\ FragsInv'
<1> DEFINE old == active_pages[page].frags
           new == active_pages'[page].frags
<1>1. /\ DOMAIN active_pages' = DOMAIN active_pages
      /\ \A p \in DOMAIN active_pages \ {page} : active_pages'[p] = active_pages[p]
  BY DEF FragChanged
<1>2. /\ DOMAIN new = DOMAIN old /\ new[k] = e
      /\ \A j \in DOMAIN old \ {k} : new[j] = old[j]
  BY DEF FragChanged
<1>3. \A j \in DOMAIN old : new[j].ptr = old[j].ptr
  BY <1>2
<1>4. InPage(page, old) /\ \A f : HasFrag(old, f) => HasFrag(new, f)
  BY <1>2, <1>3 DEF PagesInv, HasFrag
<1>5. InPage(page, new)
  BY <1>2, <1>3, <1>4 DEF InPage
<1>6. ASSUME Plain PROVE FragsTrue(new, handed', used', Reserved', InSkb')
  <2>1. FragsTrue(old, handed, used, Reserved, InSkb)
    BY <1>6 DEF FragsInv
  <2>2. \A j \in DOMAIN old \ {k} : old[j].ptr # e.ptr /\ old[j].ptr \in Frag
    BY <1>4, <2>1 DEF FragsTrue, InPage
  <2>3. k \in DOMAIN old /\ old[k].ptr = e.ptr
    OBVIOUS
  <2> HIDE DEF old, new
  <2> QED
    BY <1>2, <1>3, <1>6, <2>1, <2>2, <2>3 DEF FragsTrue
<1>7. ASSUME Plain, NEW p \in DOMAIN active_pages, p # page
      PROVE  FragsTrue(active_pages[p].frags, handed', used', Reserved', InSkb')
  <2>1. InPage(p, active_pages[p].frags) /\ e.ptr \in Frag /\ PageOf[e.ptr] = page
    BY <1>4 DEF PagesInv, InPage
  <2>2. \A j \in DOMAIN active_pages[p].frags : active_pages[p].frags[j].ptr \in Frag \ {e.ptr}
    BY <1>7, <2>1 DEF InPage
  <2>3. FragsTrue(active_pages[p].frags, handed, used, Reserved, InSkb)
    BY <1>7 DEF FragsInv
  <2> QED
    BY <2>2, <2>3, FragsTrueKept, SMTT(30)
<1> HIDE DEF old, new
<1>8. \A f \in handed : PageOf[f] \in DOMAIN active_pages' =>
        HasFrag(active_pages'[PageOf[f]].frags, f)
  BY <1>1, <1>4 DEF PagesInv, old, new
<1>9. \A p \in DOMAIN active_pages' : InPage(p, active_pages'[p].frags)
  BY <1>1, <1>5 DEF PagesInv, new
<1>10. PagesInv'
  BY <1>1, <1>8, <1>9 DEF PagesInv
<1>11. ASSUME Plain, NEW p \in DOMAIN active_pages'
       PROVE  FragsTrue(active_pages'[p].frags, handed', used', Reserved', InSkb')
  BY <1>1, <1>6, <1>7, <1>11 DEF new
<1>12. FragsInv'
  BY <1>11 DEF FragsInv, Plain
<1> QED
  BY <1>10, <1>12

(* finalize_skb_around: the page was in use, so the assertion at line 103  *)
(* holds.                                                                  *)
LEMMA FinalizeGood ==
  ASSUME Good, KernelInv, NEW t \in Nat, NEW skb \in Skb, NEW ptr \in Ptr,
         A!FinalizeSkbAround(t, skb, ptr),
         UNCHANGED <<kernel, seen, page_used, handed, used>>,
         ptr \in Reserved, Reserved' = Reserved \ {ptr}, InSkb' = InSkb \cup {ptr}
  PROVE  Outcome /\ failure' = "none"
<1>1. failure' = "none"
  <2>1. \A p \in DOMAIN active_pages : p \notin DOMAIN freed_pages
    BY DEF Good, PagesInv
  <2> QED
    BY <2>1 DEF A!FinalizeSkbAround, A!PagesWith, A!Take, A!Continue, A!Silent, A!Appends
<1>2. ptr \in used /\ ptr \notin InSkb
  BY HeldMemory
<1>3. /\ Tables' /\ UNCHANGED <<freed_skb_ptrs, freed_pages>>
      /\ \/ \E page \in DOMAIN active_pages : \E k \in DOMAIN active_pages[page].frags :
                 /\ active_pages[page].frags[k].ptr = ptr
                 /\ FragChanged(active_pages, active_pages', page, k,
                                WroteTo(active_pages[page].frags[k], t, skb))
                 /\ UNCHANGED active_skb_ptrs
         \/ /\ \A p \in DOMAIN active_pages : \A k \in DOMAIN active_pages[p].frags :
                    active_pages[p].frags[k].ptr # ptr
            /\ IF ptr \in DOMAIN active_skb_ptrs
               THEN Assigned(active_skb_ptrs, active_skb_ptrs', ptr,
                             WroteTo(active_skb_ptrs[ptr], t, skb))
               ELSE UNCHANGED active_skb_ptrs
            /\ UNCHANGED active_pages
  BY <1>1, FinalizeEffect DEF Good
<1>4. CASE \E page \in DOMAIN active_pages : \E k \in DOMAIN active_pages[page].frags :
                 /\ active_pages[page].frags[k].ptr = ptr
                 /\ FragChanged(active_pages, active_pages', page, k,
                                WroteTo(active_pages[page].frags[k], t, skb))
                 /\ UNCHANGED active_skb_ptrs
  <2>0. PICK page \in DOMAIN active_pages : \E k \in DOMAIN active_pages[page].frags :
                 /\ active_pages[page].frags[k].ptr = ptr
                 /\ FragChanged(active_pages, active_pages', page, k,
                                WroteTo(active_pages[page].frags[k], t, skb))
                 /\ UNCHANGED active_skb_ptrs
    BY <1>4
  <2>1. PICK k \in DOMAIN active_pages[page].frags :
                 /\ active_pages[page].frags[k].ptr = ptr
                 /\ FragChanged(active_pages, active_pages', page, k,
                                WroteTo(active_pages[page].frags[k], t, skb))
                 /\ UNCHANGED active_skb_ptrs
    BY <2>0
  <2> DEFINE e == WroteTo(active_pages[page].frags[k], t, skb)
  <2>2. e.ptr = ptr /\ e.data_write_time # None
    <3>1. active_pages[page].frags[k] \in A!Entry
      BY ActiveFrags, FragElement DEF Good
    <3> QED
      BY <2>1, <3>1, NoneIsUnset DEF WroteTo, A!Entry
  <2>3. ptr \in Frag /\ ptr \notin Kmem
    BY <2>1, PtrAssumption, SMTT(30) DEF Good, PagesInv, InPage
  <2> HIDE DEF e
  <2>4. FragChanged(active_pages, active_pages', page, k, e)
    BY <2>1 DEF e
  <2>5. PagesInv' /\ FragsInv'
    BY <1>2, <1>3, <2>1, <2>2, <2>4, FragChangedGood DEF Good
  <2>6. HeadsInv'
    BY <1>3, <2>1, <2>3, HeadsUntouched DEF Good
  <2> QED
    BY <1>1, <1>3, <2>5, <2>6 DEF Outcome, Good
<1>5. CASE /\ \A p \in DOMAIN active_pages : \A k \in DOMAIN active_pages[p].frags :
                    active_pages[p].frags[k].ptr # ptr
           /\ IF ptr \in DOMAIN active_skb_ptrs
               THEN Assigned(active_skb_ptrs, active_skb_ptrs', ptr,
                             WroteTo(active_skb_ptrs[ptr], t, skb))
               ELSE UNCHANGED active_skb_ptrs
           /\ UNCHANGED active_pages
  <2>1. PagesInv'
    BY <1>3, <1>5 DEF Good, PagesInv
  <2>2. ASSUME Plain, NEW p \in DOMAIN active_pages
        PROVE  FragsTrue(active_pages[p].frags, handed', used', Reserved', InSkb')
    <3>1. FragsTrue(active_pages[p].frags, handed, used, Reserved, InSkb)
      BY <2>2 DEF Good, FragsInv
    <3> QED
      BY <1>5, <3>1, FragsTrueKept, SMTT(30)
  <2>3. FragsInv'
    BY <1>3, <1>5, <2>2 DEF Good, FragsInv, Plain
  <2>4. HeadsInv'
    <3>1. CASE ptr \notin DOMAIN active_skb_ptrs
      BY <1>3, <1>5, <3>1 DEF Good, HeadsInv
    <3>2. CASE ptr \in DOMAIN active_skb_ptrs
      <4>1. active_skb_ptrs[ptr] \in A!Entry
        BY <3>2 DEF Good, Tables, HeadsTyped, A!IsDict, ActiveHead
      <4>2. WroteTo(active_skb_ptrs[ptr], t, skb).data_write_time # None
        BY <4>1, NoneIsUnset DEF WroteTo, A!Entry
      <4>3. /\ DOMAIN active_skb_ptrs' = DOMAIN active_skb_ptrs
            /\ active_skb_ptrs'[ptr].data_write_time # None
            /\ \A h \in DOMAIN active_skb_ptrs \ {ptr} : active_skb_ptrs'[h] = active_skb_ptrs[h]
        BY <1>5, <3>2, <4>2 DEF Assigned
      <4> QED
        BY <1>3, <4>3 DEF Good, HeadsInv
    <3> QED
      BY <3>1, <3>2
  <2> QED
    BY <1>1, <1>3, <2>1, <2>3, <2>4 DEF Outcome, Good
<1> QED
  BY <1>3, <1>4, <1>5

(* A head's memory is freed: it leaves used and its sk_buff.               *)
LEMMA KfreeGood ==
  ASSUME Good, KernelInv, NEW t \in Nat, NEW skb \in Skb, NEW ptr \in Kmem,
         A!SkbHeadKfree(t, skb, ptr), UNCHANGED <<kernel, seen, page_used, handed>>,
         ptr \in InSkb, used' = used \ {ptr}, Reserved' = Reserved, InSkb' = InSkb \ {ptr}
  PROVE  Outcome /\ failure' \in {"none", "assert_173"}
<1>0. ptr \in Ptr /\ ptr \notin Frag /\ ptr \in used /\ ptr \notin Reserved
  BY PtrAssumption, HeldMemory DEF Ptr
<1>1. CASE failure' = "assert_173"
  <2>1. ptr \in DOMAIN freed_skb_ptrs
    BY <1>1 DEF A!SkbHeadKfree, A!Take, A!Appends, A!Continue, A!Silent
  <2> QED
    BY <1>0, <1>1, <2>1, ExplainedIs DEF Outcome, Good, HeadsInv
<1>2. CASE failure' = "none"
  <2>1. /\ Tables' /\ ptr \notin DOMAIN freed_skb_ptrs /\ UNCHANGED <<active_pages, freed_pages>>
        /\ \/ ptr \notin DOMAIN active_skb_ptrs /\ UNCHANGED <<active_skb_ptrs, freed_skb_ptrs>>
           \/ /\ ptr \in DOMAIN active_skb_ptrs
              /\ Popped(active_skb_ptrs, active_skb_ptrs', ptr)
              /\ Assigned(freed_skb_ptrs, freed_skb_ptrs', ptr,
                          FreedAs(active_skb_ptrs[ptr], t, A!FreeFunc(skb)))
    BY <1>0, <1>2, SkbHeadKfreeEffect DEF Good, A!dicts
  <2>2. PagesInv' /\ FragsInv'
    BY <1>0, <2>1, PagesUntouched DEF Good
  <2>3. CASE ptr \notin DOMAIN active_skb_ptrs
    BY <1>2, <2>1, <2>2, <2>3 DEF Outcome, Good, HeadsInv
  <2>4. CASE ptr \in DOMAIN active_skb_ptrs
    <3> DEFINE e == FreedAs(active_skb_ptrs[ptr], t, A!FreeFunc(skb))
    <3>1. e.data_write_time # None
      <4>1. active_skb_ptrs[ptr] \in A!Entry /\ active_skb_ptrs[ptr].data_write_time # None
        BY <2>4 DEF Good, Tables, HeadsTyped, HeadsInv, A!IsDict, ActiveHead
      <4> QED
        BY <4>1 DEF FreedAs, A!Entry
    <3>2. Popped(active_skb_ptrs, active_skb_ptrs', ptr) /\ Assigned(freed_skb_ptrs, freed_skb_ptrs', ptr, e)
      BY <2>1, <2>4
    <3> HIDE DEF e
    <3>3. HeadsInv'
      BY <3>1, <3>2 DEF Good, HeadsInv, Popped, Assigned
    <3> QED
      BY <1>2, <2>1, <2>2, <3>3 DEF Outcome, Good
  <2> QED
    BY <2>3, <2>4
<1> QED
  BY <1>1, <1>2 DEF A!SkbHeadKfree, A!Take, A!Raise, A!Continue, A!Silent, A!Appends

(* skb_head_frag_free: the page was in use, so the assertion at line 122   *)
(* holds.                                                                  *)
LEMMA FragFreeGood ==
  ASSUME Good, KernelInv, NEW t \in Nat, NEW skb \in Skb, NEW ptr \in Frag,
         A!SkbHeadFragFree(t, PageOf[ptr], skb, ptr), UNCHANGED <<kernel, seen, page_used, handed>>,
         ptr \in InSkb, used' = used \ {ptr}, Reserved' = Reserved, InSkb' = InSkb \ {ptr}
  PROVE  Outcome /\ failure' = "none"
<1> DEFINE page == PageOf[ptr]
<1>0. ptr \in Ptr /\ ptr \notin Kmem /\ ptr \in used /\ ptr \notin Reserved /\ page \in Page
  BY PtrAssumption, HeldMemory DEF Ptr
<1>1. ptr \in handed /\ page \in page_used
  BY <1>0 DEF KernelInv, MemoryConsistent
<1>2. failure' = "none"
  <2>1. page \notin DOMAIN freed_pages
    BY <1>1 DEF Good, PagesInv
  <2> QED
    BY <2>1 DEF A!SkbHeadFragFree, A!Take, A!Silent, A!Appends
<1>3. /\ Tables' /\ UNCHANGED <<active_skb_ptrs, skb_order, freed_skb_ptrs, freed_pages>>
      /\ \/ page \notin DOMAIN active_pages /\ UNCHANGED active_pages
         \/ /\ page \in DOMAIN active_pages
            /\ \A k \in DOMAIN active_pages[page].frags : active_pages[page].frags[k].ptr # ptr
         \/ /\ page \in DOMAIN active_pages
            /\ \E k \in DOMAIN active_pages[page].frags :
                 /\ active_pages[page].frags[k].ptr = ptr
                 /\ FragChanged(active_pages, active_pages', page, k,
                                FreedAs(active_pages[page].frags[k], t, A!FreeFunc(skb)))
  <2> HIDE DEF page
  <2>1. /\ Tables' /\ now' = t /\ rows' = << >>
        /\ UNCHANGED <<active_skb_ptrs, skb_order, freed_skb_ptrs, freed_pages>>
        /\ Popped(consume_skb_locations, consume_skb_locations', skb)
        /\ \/ /\ page \notin DOMAIN active_pages
              /\ UNCHANGED active_pages /\ printed' = {}
           \/ /\ page \in DOMAIN active_pages
              /\ \A k \in DOMAIN active_pages[page].frags : active_pages[page].frags[k].ptr # ptr
              /\ UNCHANGED active_pages
           \/ /\ page \in DOMAIN active_pages
              /\ \E k \in DOMAIN active_pages[page].frags :
                   /\ active_pages[page].frags[k].ptr = ptr
                   /\ FragChanged(active_pages, active_pages', page, k,
                                  FreedAs(active_pages[page].frags[k], t, A!FreeFunc(skb)))
              /\ printed' = A!NoLocation(skb, "no consume location")
    <3>1. A!SkbHeadFragFree(t, page, skb, ptr)
      BY DEF page
    <3> QED
      BY <1>0, <1>2, <3>1, SkbHeadFragFreeEffect DEF Good
  <2> QED
    BY <2>1
<1>4. HeadsInv'
  BY <1>0, <1>3, HeadsUntouched DEF Good
<1>5. CASE page \notin DOMAIN active_pages
  <2>1. UNCHANGED active_pages
    BY <1>3, <1>5
  <2>2. PagesInv'
    BY <1>3, <2>1 DEF Good, PagesInv
  <2>3. ASSUME Plain, NEW p \in DOMAIN active_pages
        PROVE  FragsTrue(active_pages[p].frags, handed', used', Reserved', InSkb')
    <3>1. FragsTrue(active_pages[p].frags, handed, used, Reserved, InSkb)
      BY <2>3 DEF Good, FragsInv
    <3>2. \A k \in DOMAIN active_pages[p].frags : active_pages[p].frags[k].ptr # ptr
      BY <1>5, OtherFrags DEF Good, PagesInv
    <3> QED
      BY <3>1, <3>2, FragsTrueKept, SMTT(30)
  <2>4. FragsInv'
    BY <1>3, <2>1, <2>3 DEF Good, FragsInv, Plain
  <2> QED
    BY <1>2, <1>3, <1>4, <2>2, <2>4 DEF Outcome, Good
<1>6. CASE page \in DOMAIN active_pages
  <2>1. HasFrag(active_pages[page].frags, ptr)
    BY <1>1, <1>6 DEF Good, PagesInv
  <2>2. PICK k \in DOMAIN active_pages[page].frags :
                 /\ active_pages[page].frags[k].ptr = ptr
                 /\ FragChanged(active_pages, active_pages', page, k,
                                FreedAs(active_pages[page].frags[k], t, A!FreeFunc(skb)))
    BY <1>3, <1>6, <2>1 DEF HasFrag
  <2> DEFINE old == active_pages[page].frags[k]
             e == FreedAs(old, t, A!FreeFunc(skb))
  <2>3. old \in A!Entry
    BY <1>6, ActiveFrags, FragElement DEF Good
  <2>4. e.ptr = ptr /\ e.data_write_time = old.data_write_time /\ e.free_time = t
    BY <2>2, <2>3 DEF FreedAs, A!Entry
  <2>5. ASSUME Plain PROVE A!Complete(e)
    <3>1. FragsTrue(active_pages[page].frags, handed, used, Reserved, InSkb)
      BY <1>6, <2>5 DEF Good, FragsInv
    <3>2. old.data_write_time # None
      BY <2>2, <3>1 DEF FragsTrue
    <3> QED
      BY <2>4, <3>2, NoneIsUnset DEF A!Complete
  <2>6. FragChanged(active_pages, active_pages', page, k, e)
    BY <2>2
  <2> HIDE DEF e
  <2>7. e.ptr \notin used' /\ e.ptr \notin InSkb'
    BY <2>4
  <2>8. PagesInv' /\ FragsInv'
    BY <1>3, <1>6, <2>2, <2>4, <2>5, <2>6, <2>7, FragChangedGood DEF Good
  <2> QED
    BY <1>2, <1>3, <1>4, <2>8 DEF Outcome, Good
<1> QED
  BY <1>5, <1>6

(* Memory that is reserved or a head is in use, as a state predicate.      *)
Held == Reserved \cup InSkb \subseteq used

(* The same in the state after a step.                                     *)
LEMMA HeldAfter ==
  KernelInv' => Held'
<1>1. KernelInv => Held
  BY HeldMemory DEF Held
<1> QED
  BY <1>1, PTL

(* Steps without an event keep the tables true.                            *)
LEMMA SilentGood ==
  ASSUME Good, KernelInv, UNCHANGED <<kernel, seen, now>>, failure = "none", A!Continue, SilentEffect
  PROVE  Outcome
<1>1. /\ failure' = "none"
      /\ UNCHANGED <<active_skb_ptrs, skb_order, active_pages, freed_skb_ptrs, freed_pages,
                     consume_skb_locations>>
  BY DEF A!Continue, A!Silent, A!Appends, A!dicts
<1>2. Tables'
  BY <1>1 DEF Good, Tables, HeadsTyped, PagesTyped, OrderInv, A!IsDict
<1>3. HeadsInv'
  <2>1. \A h \in Kmem : h \in InSkb <=> h \in InSkb'
    BY PtrAssumption DEF SilentEffect
  <2> QED
    BY <1>1, <2>1, HeadsUntouched DEF Good, SilentEffect
<1>4. PagesInv' /\ FragsInv'
  <2>1. ASSUME Plain PROVE handed' = handed /\ InSkb' = InSkb /\ Reserved' = Reserved
    BY <2>1 DEF SilentEffect, Plain
  <2>2. ASSUME NEW f \in Frag PROVE f \in used' => f \in used
    BY PtrAssumption DEF SilentEffect
  <2>3. Reserved' \cup InSkb' \subseteq used'
    BY HeldAfter DEF SilentEffect, Held
  <2> QED
    BY <1>1, <2>1, <2>2, <2>3, PagesUntouched DEF Good, SilentEffect
<1> QED
  BY <1>1, <1>2, <1>3, <1>4 DEF Outcome, Good

(* No event is handled after a failure.                                    *)
LEMMA EventTakes ==
  ASSUME NEW t, Event(t) PROVE failure = "none" /\ now' = t
<1>1. ASSUME NEW skb, NEW ptr, NEW func, HeadFree(t, skb, ptr, func) PROVE A!Take(t)
  BY <1>1 DEF HeadFree, A!SkbHeadKfree, A!SkbHeadFragFree
<1>2. CASE Reserve(t) \/ OtherKmalloc(t) \/ HeadKmalloc(t)
  BY <1>2 DEF Reserve, OtherKmalloc, HeadKmalloc, A!Kmalloc, A!SkbHeadKmalloc, A!Take
<1>3. CASE AllocFrag(t) \/ Finalize(t)
  BY <1>3 DEF AllocFrag, Finalize, A!AllocFrag, A!FinalizeSkbAround, A!Take
<1>4. CASE WithFrags(t) \/ Consume(t)
  BY <1>4 DEF WithFrags, Consume, A!AllocSkbWithFrags, A!ConsumeSkb, A!Take
<1>5. CASE ReleaseHead(t) \/ ReleaseUntraced(t)
  BY <1>1, <1>5 DEF ReleaseHead, ReleaseUntraced, A!Take
<1>6. CASE PageAlloc(t) \/ PageFree(t)
  BY <1>6 DEF PageAlloc, PageFree, A!MmPageAlloc, A!MmPageFree, A!Take
<1> QED
  BY <1>2, <1>3, <1>4, <1>5, <1>6 DEF Event

(* What every step does to the tables, whatever the event.                 *)
LEMMA EventGood ==
  ASSUME KernelInv, Good, UNCHANGED kernel, NEW t \in Nat, Event(t)
  PROVE  KernelInv' /\ Outcome
<1>0. kernel.locs \subseteq Loc
  BY KernelMem
<1>1. CASE Reserve(t)
  <2>1. PICK c \in Ctx, skb \in Skb, ptr \in Kmem :
          KReserve(c, skb, ptr) /\ A!Kmalloc(t, ptr) /\ UNCHANGED seen
    BY <1>1 DEF Reserve
  <2>2. KernelInv' /\ Reserved' = Reserved /\ InSkb' = InSkb
    BY <2>1, KReserveStep
  <2>3. used' = used \cup {ptr} /\ UNCHANGED <<page_used, handed>>
    BY <2>1 DEF KReserve
  <2> QED
    BY <2>1, <2>2, <2>3, KmallocGood
<1>2. CASE OtherKmalloc(t)
  <2>1. PICK ptr \in Kmem : KOtherKmalloc(ptr) /\ A!Kmalloc(t, ptr) /\ UNCHANGED seen
    BY <1>2 DEF OtherKmalloc
  <2>2. KernelInv' /\ Reserved' = Reserved /\ InSkb' = InSkb
    BY <2>1, KOtherKmallocStep
  <2>3. used' = used \cup {ptr} /\ UNCHANGED <<page_used, handed>>
    BY <2>1 DEF KOtherKmalloc
  <2> QED
    BY <2>1, <2>2, <2>3, KmallocGood
<1>3. CASE HeadKmalloc(t)
  <2>1. PICK c \in Ctx, loc \in kernel.locs :
          KHeadKmalloc(c) /\ A!SkbHeadKmalloc(t, ctx[c].ptr, loc) /\ UNCHANGED seen
    BY <1>3 DEF HeadKmalloc
  <2>2. /\ KernelInv' /\ ctx[c].ptr \in Kmem /\ ctx[c].ptr \notin Reserved \cup InSkb
        /\ Reserved' = Reserved \cup {ctx[c].ptr} /\ InSkb' = InSkb
    BY <2>1, KHeadKmallocStep
  <2>3. UNCHANGED <<used, page_used, handed>>
    BY <2>1 DEF KHeadKmalloc
  <2> QED
    BY <1>0, <2>1, <2>2, <2>3, HeadKmallocGood
<1>4. CASE AllocFrag(t)
  <2>1. PICK c \in Ctx, skb \in Skb, ptr \in Frag, loc \in kernel.locs :
          KAllocFrag(c, skb, ptr) /\ A!AllocFrag(t, PageOf[ptr], ptr, loc) /\ UNCHANGED seen
    BY <1>4 DEF AllocFrag
  <2>2. /\ KernelInv' /\ ptr \notin used \cup Reserved \cup InSkb
        /\ Reserved' = Reserved \cup {ptr} /\ InSkb' = InSkb
    BY <2>1, KAllocFragStep
  <2>3. /\ ptr \notin handed /\ PageOf[ptr] \in page_used /\ UNCHANGED page_used
        /\ handed' = handed \cup {ptr} /\ used' = used \cup {ptr}
    BY <2>1 DEF KAllocFrag
  <2> QED
    BY <1>0, <2>1, <2>2, <2>3, AllocFragGood
<1>5. CASE Finalize(t)
  <2>1. PICK c \in Ctx :
          KFinalize(c) /\ A!FinalizeSkbAround(t, ctx[c].skb, ctx[c].ptr) /\ UNCHANGED seen
    BY <1>5 DEF Finalize
  <2>2. /\ KernelInv' /\ ctx[c].ptr \in Reserved /\ ctx[c].skb \in Skb
        /\ Reserved' = Reserved \ {ctx[c].ptr} /\ InSkb' = InSkb \cup {ctx[c].ptr}
    BY <2>1, KFinalizeStep
  <2>3. UNCHANGED <<used, page_used, handed>> /\ ctx[c].ptr \in Ptr
    BY <2>1, <2>2 DEF KFinalize, Reserved
  <2> QED
    BY <2>1, <2>2, <2>3, FinalizeGood
<1>6. CASE WithFrags(t)
  <2>1. PICK c \in Ctx, loc \in kernel.locs :
          KWithFrags(c) /\ A!AllocSkbWithFrags(t, ctx[c].skb, loc) /\ UNCHANGED seen
    BY <1>6 DEF WithFrags
  <2>2. KernelInv' /\ Reserved' = Reserved /\ InSkb' = InSkb
    BY <2>1, KWithFragsStep
  <2>3. UNCHANGED <<used, page_used, handed>> /\ At(c, "finalized")
    BY <2>1 DEF KWithFrags
  <2>4. ctx[c].skb \in Skb /\ "with_frags" \in kernel.features
    BY <2>3, WorkFacts DEF At
  <2> QED
    BY <1>0, <2>1, <2>2, <2>3, <2>4, WithFragsGood
<1>7. CASE Consume(t)
  <2>1. PICK c \in Ctx, skb \in Skb, loc \in kernel.locs :
          KConsume(c, skb, loc) /\ A!ConsumeSkb(t, skb, loc) /\ UNCHANGED seen
    BY <1>7 DEF Consume
  <2>2. KernelInv' /\ Reserved' = Reserved /\ InSkb' = InSkb
    BY <1>0, <2>1, KConsumeStep
  <2>3. UNCHANGED <<used, page_used, handed>>
    BY <2>1 DEF KConsume
  <2> QED
    BY <1>0, <2>1, <2>2, <2>3, ConsumeGood
<1>8. ASSUME NEW skb \in Skb, NEW ptr \in InSkb, NEW func, HeadFree(t, skb, ptr, func), KernelInv',
             UNCHANGED <<page_used, handed>>,
             used' = used \ {ptr}, Reserved' = Reserved, InSkb' = InSkb \ {ptr}
      PROVE  KernelInv' /\ Outcome
  <2>1. /\ UNCHANGED seen
        /\ \/ ptr \in Kmem /\ A!SkbHeadKfree(t, skb, ptr)
           \/ ptr \in Frag /\ A!SkbHeadFragFree(t, PageOf[ptr], skb, ptr)
    BY <1>8 DEF HeadFree
  <2> QED
    BY <1>8, <2>1, KfreeGood, FragFreeGood
<1>9. CASE ReleaseHead(t)
  <2>1. PICK c \in Ctx : KReleaseHead(c) /\ HeadFree(t, ctx[c].skb, ctx[c].ptr, ctx[c].loc)
    BY <1>9 DEF ReleaseHead
  <2>2. /\ KernelInv' /\ ctx[c] \in Releases /\ Reserved' = Reserved /\ InSkb' = InSkb \ {ctx[c].ptr}
    BY <2>1, KReleaseHeadStep
  <2>3. UNCHANGED <<page_used, handed>> /\ used' = used \ {ctx[c].ptr}
    BY <2>1 DEF KReleaseHead
  <2>4. ctx[c].skb \in Skb /\ ctx[c].ptr \in InSkb
    BY <2>2, ReleaseFacts
  <2> QED
    BY <1>8, <2>1, <2>2, <2>3, <2>4
<1>10. CASE ReleaseUntraced(t)
  <2>1. PICK skb \in Skb : KReleaseUntraced(skb) /\ HeadFree(t, skb, head_of[skb], "NOT FOUND")
    BY <1>10 DEF ReleaseUntraced
  <2>2. /\ KernelInv' /\ head_of[skb] \in InSkb
        /\ Reserved' = Reserved /\ InSkb' = InSkb \ {head_of[skb]}
    BY <2>1, KReleaseUntracedStep
  <2>3. UNCHANGED <<page_used, handed>> /\ used' = used \ {head_of[skb]}
    BY <2>1 DEF KReleaseUntraced
  <2> QED
    BY <1>8, <2>1, <2>2, <2>3
<1>11. CASE PageAlloc(t)
  <2>1. PICK page \in Page :
          KPageAlloc(page) /\ A!MmPageAlloc(t, page) /\ seen' = seen \cup {page}
    BY <1>11 DEF PageAlloc
  <2>2. KernelInv' /\ Reserved' = Reserved /\ InSkb' = InSkb
    BY <2>1, KPageAllocStep
  <2>3. /\ page \notin page_used /\ page_used' = page_used \cup {page}
        /\ UNCHANGED <<used, handed>>
    BY <2>1 DEF KPageAlloc
  <2> QED
    BY <2>1, <2>2, <2>3, PageAllocGood
<1>12. CASE PageFree(t)
  <2>1. PICK page \in Page :
          KPageFree(page) /\ A!MmPageFree(t, page) /\ seen' = seen \ {page}
    BY <1>12 DEF PageFree
  <2>2. KernelInv' /\ Reserved' = Reserved /\ InSkb' = InSkb
    BY <2>1, KPageFreeStep
  <2>3. /\ page \in page_used /\ FragsOf(page) \cap used = {} /\ UNCHANGED used
        /\ page_used' = page_used \ {page} /\ handed' = handed \ FragsOf(page)
    BY <2>1 DEF KPageFree
  <2> QED
    BY <2>1, <2>2, <2>3, PageFreeGood
<1> QED
  BY <1>1, <1>2, <1>3, <1>4, <1>5, <1>6, <1>7, <1>9, <1>10, <1>11, <1>12 DEF Event

(* The tables correspond to the kernel as long as the analyzer runs, and   *)
(* when it has stopped the kernel explains why.                            *)
Corresponds ==
  /\ KernelInv
  /\ failure = "none" => Good
  /\ failure # "none" => Explained(failure)

(* The tables correspond to the kernel at the start of the trace.          *)
LEMMA InitCorresponds ==
  ASSUME Init PROVE Corresponds
<1>1. KernelInv
  BY KInitInv DEF Init
<1>2. /\ active_skb_ptrs = A!EmptyDict /\ skb_order = << >> /\ active_pages = A!EmptyDict
      /\ freed_skb_ptrs = A!EmptyDict /\ freed_pages = A!EmptyDict
      /\ consume_skb_locations = A!EmptyDict /\ now = 0 /\ failure = "none" /\ seen = {}
  BY DEF Init, A!Init
<1>3. DOMAIN A!EmptyDict = {} /\ \A K, V : A!IsDict(A!EmptyDict, K, V)
  BY DEF A!EmptyDict, A!IsDict
<1>4. OrderInv
  <2>1. DOMAIN skb_order = {} /\ skb_order \in Seq(Ptr)
    BY <1>2, SMTT(30)
  <2> QED
    BY <1>2, <1>3, <2>1 DEF OrderInv
<1>5. Tables
  BY <1>2, <1>3, <1>4 DEF Tables, HeadsTyped, PagesTyped
<1>6. PagesInv /\ HeadsInv /\ FragsInv
  BY <1>2, <1>3 DEF PagesInv, HeadsInv, FragsInv
<1> QED
  BY <1>1, <1>2, <1>5, <1>6 DEF Corresponds, Good

(* And after every step.                                                   *)
LEMMA NextCorresponds ==
  ASSUME Corresponds, [Next]_vars PROVE Corresponds'
<1>1. CASE UNCHANGED vars
  <2>1. UNCHANGED <<kernel, ctx, head_of, used, page_used, handed, active_skb_ptrs, skb_order,
                    active_pages, freed_skb_ptrs, freed_pages, consume_skb_locations,
                    failure, now, seen>>
    BY <1>1 DEF vars, kvars, A!vars, A!dicts
  <2>2. KernelInv'
    BY <2>1 DEF Corresponds, KernelInv, MemoryConsistent, Shared, Exclusive, At
  <2>3. UNCHANGED <<Reserved, InSkb>>
    BY <2>1 DEF Reserved, InSkb, At
  <2>4. failure = "none" => Good'
    BY <2>1, <2>3 DEF Corresponds, Good, Tables, HeadsTyped, PagesTyped, OrderInv, A!IsDict,
                      PagesInv, HeadsInv, FragsInv, Plain
  <2> QED
    BY <2>1, <2>2, <2>4 DEF Corresponds, Explained
<1>2. CASE Next
  <2>0. UNCHANGED kernel
    BY <1>2 DEF Next
  <2>1. failure = "none"
    BY <1>2, EventTakes DEF Next, Silent
  <2>2. KernelInv /\ Good /\ now \in Nat
    BY <2>1 DEF Corresponds, Good, Tables
  <2>3. ASSUME NEW t \in {now, now + 1}, Event(t) PROVE KernelInv' /\ Outcome
    <3>1. t \in Nat
      BY <2>2, SMTT(30)
    <3> QED
      BY <2>0, <2>2, <2>3, <3>1, EventGood
  <2>4. ASSUME Silent PROVE KernelInv' /\ Outcome
    <3>1. KSilent /\ A!Continue /\ UNCHANGED <<now, seen>>
      BY <2>4 DEF Silent
    <3>2. SilentEffect
      BY <2>0, <2>2, <3>1, KSilentStep
    <3>3. KernelInv'
      BY <3>2 DEF SilentEffect
    <3> QED
      BY <2>0, <2>1, <2>2, <3>1, <3>2, <3>3, SilentGood
  <2>5. KernelInv' /\ Outcome
    BY <1>2, <2>3, <2>4 DEF Next
  <2> QED
    BY <2>0, <2>5 DEF Outcome, Corresponds, Explained
<1> QED
  BY <1>1, <1>2

(* The event loop of analyze_trace.py (lines 52-207) reaches the end of    *)
(* the trace of every kernel but for three failures, each with its cause:  *)
(* on no kernel does one of the other seven assertions and look-ups fail.  *)
THEOREM AnalysisFailureExplained == Spec => []FailureExplained
<1>1. Init => Corresponds
  BY InitCorresponds
<1>2. Corresponds /\ [Next]_vars => Corresponds'
  BY NextCorresponds
<1>3. Corresponds => FailureExplained
  BY DEF Corresponds, FailureExplained, Explained
<1> QED
  BY <1>1, <1>2, <1>3, PTL DEF Spec
-----------------------------------------------------------------------------
(* The call sites.                                                         *)

(* Every head from kmalloc in use has an entry, and the call site of every *)
(* release of a head that has an entry is known.                           *)
Known ==
  /\ \A h \in Kmem : h \in Reserved \cup InSkb => h \in DOMAIN active_skb_ptrs
  /\ \A r \in Releases :
       r.skb \in DOMAIN consume_skb_locations \/ (r.ptr \in Frag /\ PageOf[r.ptr] \notin seen)

(* No call site without its release, and nothing to complain about.        *)
Fresh ==
  /\ \A skb \in DOMAIN consume_skb_locations : \E r \in Releases : r.skb = skb
  /\ printed = {}

(* The inductive invariant for the call sites.                             *)
LocationsInv == AllHeadsTraced => Fresh /\ (failure = "none" => Known)

(* What a kernel all of whose heads are traced does not do.                *)
LEMMA TracedFeatures ==
  ASSUME AllHeadsTraced
  PROVE  /\ kernel.features \cap {"clones", "untraced_free", "untraced_kmalloc", "stolen_heads",
                                  "recycled_pages"} = {}
         /\ \A f : Explained(f) => f = "KeyError_167"
<1>1. kernel.features \cap {"clones", "untraced_free", "untraced_kmalloc", "stolen_heads",
                                  "recycled_pages"} = {}
  BY DEF AllHeadsTraced
<1> QED
  BY <1>1, SMTT(30) DEF Explained, Causes

(* An event that is not about call sites.                                  *)
LEMMA LocationsKept ==
  ASSUME Fresh, Known, printed' = {}, UNCHANGED consume_skb_locations, Releases' = Releases,
         DOMAIN active_skb_ptrs \subseteq DOMAIN active_skb_ptrs',
         \A h \in Kmem : h \in Reserved' \cup InSkb' =>
           h \in Reserved \cup InSkb \cup DOMAIN active_skb_ptrs',
         \A r \in Releases : r.ptr \in Frag /\ PageOf[r.ptr] \in seen' => PageOf[r.ptr] \in seen
  PROVE  Fresh' /\ Known'
BY DEF Fresh, Known

(* The call site of a release is recorded.                                 *)
LEMMA ConsumeLocations ==
  ASSUME KernelInv, Good, Fresh, Known, UNCHANGED <<kernel, seen>>, NEW t \in Nat,
         NEW c \in Ctx, NEW skb \in Skb, NEW loc \in Loc, KConsume(c, skb, loc), A!ConsumeSkb(t, skb, loc)
  PROVE  Fresh' /\ Known'
<1> DEFINE new == [at |-> "consumed", skb |-> skb, ptr |-> head_of[skb], loc |-> loc]
<1>1. Reserved' = Reserved /\ InSkb' = InSkb /\ Releases' = Releases \cup {new}
  BY KConsumeStep
<1>2. new.skb = skb
  OBVIOUS
<1> HIDE DEF new
<1>3. skb \notin DOMAIN consume_skb_locations
  <2>1. ~ Busy(skb)
    BY DEF KConsume
  <2> QED
    BY <2>1, ReleaseFacts DEF Fresh
<1>4. /\ printed' = {} /\ UNCHANGED active_skb_ptrs
      /\ Assigned(consume_skb_locations, consume_skb_locations', skb, loc)
  BY <1>3, ConsumeSkbEffect DEF Good
<1> QED
  BY <1>1, <1>2, <1>4 DEF Fresh, Known, Assigned

(* The release of a fragment, when its call site is known or the page is   *)
(* none of the analyzer's.                                                 *)
LEMMA FragFreeLocations ==
  ASSUME KernelInv, Good, NEW t \in Nat, NEW skb \in Skb, NEW ptr \in Frag, ptr \in InSkb,
         A!SkbHeadFragFree(t, PageOf[ptr], skb, ptr), failure' = "none",
         PageOf[ptr] \in DOMAIN active_pages => skb \in DOMAIN consume_skb_locations
  PROVE  /\ printed' = {} /\ Popped(consume_skb_locations, consume_skb_locations', skb)
         /\ UNCHANGED active_skb_ptrs
<1> DEFINE page == PageOf[ptr]
<1>1. ptr \in Ptr /\ page \in Page
  BY PtrAssumption DEF Ptr
<1>2. page \in DOMAIN active_pages => HasFrag(active_pages[page].frags, ptr)
  BY HeldMemory DEF KernelInv, MemoryConsistent, Good, PagesInv
<1>3. /\ UNCHANGED <<active_skb_ptrs, skb_order, freed_skb_ptrs, freed_pages>>
      /\ Popped(consume_skb_locations, consume_skb_locations', skb)
      /\ \/ page \notin DOMAIN active_pages /\ UNCHANGED active_pages /\ printed' = {}
         \/ /\ page \in DOMAIN active_pages
            /\ \A k \in DOMAIN active_pages[page].frags : active_pages[page].frags[k].ptr # ptr
            /\ UNCHANGED active_pages
         \/ /\ page \in DOMAIN active_pages
            /\ \E k \in DOMAIN active_pages[page].frags :
                 /\ active_pages[page].frags[k].ptr = ptr
                 /\ FragChanged(active_pages, active_pages', page, k,
                                FreedAs(active_pages[page].frags[k], t, A!FreeFunc(skb)))
            /\ printed' = A!NoLocation(skb, "no consume location")
  BY <1>1, SkbHeadFragFreeEffect DEF Good
<1> QED
  BY <1>2, <1>3 DEF HasFrag, A!NoLocation

(* The call site of a release is used up.                                  *)
LEMMA ReleaseLocations ==
  ASSUME KernelInv, Good, Fresh, Known, AllHeadsTraced, UNCHANGED <<kernel, seen>>, NEW t \in Nat,
         NEW c \in Ctx, NEW func, KReleaseHead(c), HeadFree(t, ctx[c].skb, ctx[c].ptr, func)
  PROVE  Fresh' /\ Known'
<1> DEFINE skb == ctx[c].skb
           ptr == ctx[c].ptr
<1>1. /\ ctx[c] \in Releases /\ Reserved' = Reserved /\ InSkb' = InSkb \ {ptr}
      /\ Releases' = Releases \ {ctx[c]}
  BY KReleaseHeadStep
<1>2. /\ skb \in Skb /\ ptr \in InSkb /\ ptr \in Ptr
      /\ \A r \in Releases \ {ctx[c]} : r.skb # skb
  BY <1>1, ReleaseFacts DEF InSkb
<1>3. /\ used' = used \ {ptr} /\ UNCHANGED <<page_used, handed>>
  BY DEF KReleaseHead
<1>4. /\ printed' = {} /\ Popped(consume_skb_locations, consume_skb_locations', skb)
      /\ DOMAIN active_skb_ptrs \ {ptr} \subseteq DOMAIN active_skb_ptrs'
  <2>1. CASE ptr \in Kmem /\ A!SkbHeadKfree(t, skb, ptr)
    <3>1. failure' = "none"
      BY <1>1, <1>2, <1>3, <2>1, KfreeGood, TracedFeatures DEF Outcome
    <3>2. ptr \in DOMAIN active_skb_ptrs /\ ptr \notin Frag
      BY <1>2, <2>1, PtrAssumption DEF Known
    <3>3. skb \in DOMAIN consume_skb_locations
      BY <1>1, <3>2 DEF Known
    <3>4. /\ Popped(active_skb_ptrs, active_skb_ptrs', ptr)
          /\ Popped(consume_skb_locations, consume_skb_locations', skb)
          /\ printed' = A!NoLocation(skb, "not in consume locations")
      BY <1>2, <2>1, <3>1, <3>2, SkbHeadKfreeEffect DEF Good
    <3> QED
      BY <3>3, <3>4 DEF Popped, A!NoLocation
  <2>2. CASE ptr \in Frag /\ A!SkbHeadFragFree(t, PageOf[ptr], skb, ptr)
    <3>1. failure' = "none"
      BY <1>1, <1>2, <1>3, <2>2, FragFreeGood
    <3>2. PageOf[ptr] \in DOMAIN active_pages => skb \in DOMAIN consume_skb_locations
      BY <1>1 DEF Good, PagesInv, Known
    <3> HIDE DEF skb, ptr
    <3> QED
      BY <1>2, <2>2, <3>1, <3>2, FragFreeLocations
  <2> QED
    BY <2>1, <2>2 DEF HeadFree
<1>5. ptr \notin Reserved' \cup InSkb'
  BY <1>1, <1>2, HeldMemory
<1> HIDE DEF skb, ptr
<1>6. Fresh'
  BY <1>1, <1>2, <1>4 DEF Fresh, Popped, skb
<1>7. Known'
  BY <1>1, <1>2, <1>4, <1>5 DEF Known, Popped
<1> QED
  BY <1>6, <1>7

(* Every event keeps the call sites fresh.                                 *)
LEMMA EventLocations ==
  ASSUME KernelInv, Good, Fresh, Known, AllHeadsTraced, UNCHANGED kernel, NEW t \in Nat, Event(t)
  PROVE  Fresh' /\ (failure' = "none" => Known')
<1>0. kernel.locs \subseteq Loc
  BY KernelMem
<1>1. ASSUME NEW ptr \in Kmem, A!Kmalloc(t, ptr), used' = used \cup {ptr},
             UNCHANGED <<seen, page_used, handed>>,
             Reserved' = Reserved, InSkb' = InSkb, Releases' = Releases
      PROVE  Fresh' /\ Known'
  <2>1. failure' = "none" /\ ptr \in Ptr
    BY <1>1, KmallocGood DEF Ptr
  <2>2. printed' = {} /\ UNCHANGED <<active_skb_ptrs, consume_skb_locations>>
    BY <1>1, <2>1, KmallocEffect DEF Good
  <2> QED
    BY <1>1, <2>2, LocationsKept
<1>2. CASE Reserve(t)
  <2>1. PICK c \in Ctx, skb \in Skb, ptr \in Kmem :
          KReserve(c, skb, ptr) /\ A!Kmalloc(t, ptr) /\ UNCHANGED seen
    BY <1>2 DEF Reserve
  <2> QED
    BY <1>1, <2>1, KReserveStep DEF KReserve
<1>3. CASE OtherKmalloc(t)
  <2>1. PICK ptr \in Kmem : KOtherKmalloc(ptr) /\ A!Kmalloc(t, ptr) /\ UNCHANGED seen
    BY <1>3 DEF OtherKmalloc
  <2> QED
    BY <1>1, <2>1, KOtherKmallocStep DEF KOtherKmalloc
<1>4. CASE HeadKmalloc(t)
  <2>1. PICK c \in Ctx, loc \in kernel.locs :
          KHeadKmalloc(c) /\ A!SkbHeadKmalloc(t, ctx[c].ptr, loc) /\ UNCHANGED seen
    BY <1>4 DEF HeadKmalloc
  <2> DEFINE ptr == ctx[c].ptr
  <2>2. /\ ptr \in Kmem /\ ptr \notin Reserved \cup InSkb
        /\ Reserved' = Reserved \cup {ptr} /\ InSkb' = InSkb /\ Releases' = Releases
    BY <2>1, KHeadKmallocStep
  <2>3. UNCHANGED <<used, page_used, handed>>
    BY <2>1 DEF KHeadKmalloc
  <2>4. failure' = "none" /\ ptr \in Ptr
    BY <1>0, <2>1, <2>2, <2>3, HeadKmallocGood DEF Ptr
  <2>5. /\ printed' = {} /\ UNCHANGED consume_skb_locations
        /\ Assigned(active_skb_ptrs, active_skb_ptrs', ptr, A!NewEntry(t, ptr, loc))
    BY <1>0, <2>1, <2>4, SkbHeadKmallocEffect DEF Good
  <2>6. DOMAIN active_skb_ptrs' = DOMAIN active_skb_ptrs \cup {ptr}
    BY <2>5 DEF Assigned
  <2> QED
    BY <2>1, <2>2, <2>5, <2>6, LocationsKept
<1>5. CASE AllocFrag(t)
  <2>1. PICK c \in Ctx, skb \in Skb, ptr \in Frag, loc \in kernel.locs :
          KAllocFrag(c, skb, ptr) /\ A!AllocFrag(t, PageOf[ptr], ptr, loc) /\ UNCHANGED seen
    BY <1>5 DEF AllocFrag
  <2>2. /\ ptr \notin used \cup Reserved \cup InSkb
        /\ Reserved' = Reserved \cup {ptr} /\ InSkb' = InSkb /\ Releases' = Releases
    BY <2>1, KAllocFragStep
  <2>3. /\ ptr \notin handed /\ PageOf[ptr] \in page_used /\ UNCHANGED page_used
        /\ handed' = handed \cup {ptr} /\ used' = used \cup {ptr}
    BY <2>1 DEF KAllocFrag
  <2>4. failure' = "none" /\ ptr \in Ptr /\ ptr \notin Kmem /\ PageOf[ptr] \in Page
    BY <1>0, <2>1, <2>2, <2>3, AllocFragGood, PtrAssumption DEF Ptr
  <2>5. printed' = {} /\ UNCHANGED <<active_skb_ptrs, consume_skb_locations>>
    BY <1>0, <2>1, <2>4, AllocFragEffect DEF Good
  <2> QED
    BY <2>1, <2>2, <2>4, <2>5, LocationsKept
<1>6. CASE Finalize(t)
  <2>1. PICK c \in Ctx :
          KFinalize(c) /\ A!FinalizeSkbAround(t, ctx[c].skb, ctx[c].ptr) /\ UNCHANGED seen
    BY <1>6 DEF Finalize
  <2> DEFINE skb == ctx[c].skb
             ptr == ctx[c].ptr
  <2>2. /\ ptr \in Reserved /\ skb \in Skb
        /\ Reserved' = Reserved \ {ptr} /\ InSkb' = InSkb \cup {ptr} /\ Releases' = Releases
    BY <2>1, KFinalizeStep
  <2>3. UNCHANGED <<used, page_used, handed>> /\ ptr \in Ptr
    BY <2>1, <2>2 DEF KFinalize, Reserved
  <2>4. failure' = "none"
    BY <2>1, <2>2, <2>3, FinalizeGood
  <2>5. /\ printed' = {} /\ UNCHANGED consume_skb_locations
        /\ \/ UNCHANGED active_skb_ptrs
           \/ /\ ptr \in DOMAIN active_skb_ptrs
              /\ Assigned(active_skb_ptrs, active_skb_ptrs', ptr,
                          WroteTo(active_skb_ptrs[ptr], t, skb))
    BY <2>1, <2>2, <2>3, <2>4, FinalizeEffect DEF Good
  <2>6. DOMAIN active_skb_ptrs' = DOMAIN active_skb_ptrs
    BY <2>5 DEF Assigned
  <2> QED
    BY <2>1, <2>2, <2>5, <2>6, LocationsKept
<1>7. CASE WithFrags(t)
  <2>1. PICK c \in Ctx, loc \in kernel.locs :
          KWithFrags(c) /\ A!AllocSkbWithFrags(t, ctx[c].skb, loc) /\ UNCHANGED seen
    BY <1>7 DEF WithFrags
  <2>2. /\ ctx[c].skb \in Skb
        /\ Reserved' = Reserved /\ InSkb' = InSkb /\ Releases' = Releases
    BY <2>1, KWithFragsStep
  <2>3. CASE failure' = "none"
    <3>1. /\ printed' = {} /\ UNCHANGED <<skb_order, consume_skb_locations>>
          /\ \/ UNCHANGED active_skb_ptrs
             \/ \E k \in DOMAIN skb_order :
                  Assigned(active_skb_ptrs, active_skb_ptrs', skb_order[k],
                           [active_skb_ptrs[skb_order[k]] EXCEPT !.alloc_func = loc])
      BY <1>0, <2>1, <2>2, <2>3, AllocSkbWithFragsEffect DEF Good
    <3>2. DOMAIN active_skb_ptrs' = DOMAIN active_skb_ptrs
      <4>1. ASSUME NEW k \in DOMAIN skb_order, NEW e,
                   Assigned(active_skb_ptrs, active_skb_ptrs', skb_order[k], e)
            PROVE  DOMAIN active_skb_ptrs' = DOMAIN active_skb_ptrs
        <5>1. skb_order[k] \in DOMAIN active_skb_ptrs
          BY DEF Good, Tables, OrderInv
        <5> QED
          BY <4>1, <5>1 DEF Assigned
      <4> QED
        BY <3>1, <4>1
    <3> QED
      BY <2>1, <2>2, <3>1, <3>2, LocationsKept
  <2>4. CASE failure' # "none"
    <3>1. printed' = {} /\ UNCHANGED consume_skb_locations
      <4>1. A!Raise("KeyError_167")
        BY <2>1, <2>4 DEF A!AllocSkbWithFrags, A!Take, A!Continue, A!Silent, A!Appends
      <4> QED
        BY <4>1 DEF A!Raise, A!dicts
    <3> QED
      BY <2>2, <2>4, <3>1 DEF Fresh
  <2> QED
    BY <2>3, <2>4
<1>8. CASE Consume(t)
  <2>1. PICK c \in Ctx, skb \in Skb, loc \in kernel.locs :
          KConsume(c, skb, loc) /\ A!ConsumeSkb(t, skb, loc) /\ UNCHANGED seen
    BY <1>8 DEF Consume
  <2> QED
    BY <1>0, <2>1, ConsumeLocations
<1>9. CASE ReleaseHead(t)
  <2>1. PICK c \in Ctx : KReleaseHead(c) /\ HeadFree(t, ctx[c].skb, ctx[c].ptr, ctx[c].loc)
    BY <1>9 DEF ReleaseHead
  <2>2. UNCHANGED seen
    BY <2>1 DEF HeadFree
  <2> QED
    BY <2>1, <2>2, ReleaseLocations
<1>10. CASE ReleaseUntraced(t)
  BY <1>10, TracedFeatures DEF ReleaseUntraced, KReleaseUntraced
<1>11. CASE PageAlloc(t)
  <2>1. PICK page \in Page :
          KPageAlloc(page) /\ A!MmPageAlloc(t, page) /\ seen' = seen \cup {page}
    BY <1>11 DEF PageAlloc
  <2>2. Reserved' = Reserved /\ InSkb' = InSkb /\ Releases' = Releases
    BY <2>1, KPageAllocStep
  <2>3. /\ page \notin page_used /\ page_used' = page_used \cup {page}
        /\ UNCHANGED <<used, handed>>
    BY <2>1 DEF KPageAlloc
  <2>4. failure' = "none"
    BY <2>1, <2>2, <2>3, PageAllocGood, TracedFeatures DEF Outcome
  <2>5. printed' = {} /\ UNCHANGED <<active_skb_ptrs, consume_skb_locations>>
    BY <2>1, <2>4, MmPageAllocEffect DEF Good
  <2>6. ASSUME NEW r \in Releases, r.ptr \in Frag PROVE PageOf[r.ptr] # page
    <3>1. r.ptr \in InSkb
      BY ReleaseFacts
    <3>2. r.ptr \in used
      BY <3>1, HeldMemory
    <3>3. PageOf[r.ptr] \in page_used
      BY <2>6, <3>2 DEF KernelInv, MemoryConsistent
    <3> QED
      BY <2>3, <3>3
  <2> QED
    BY <2>1, <2>2, <2>5, <2>6, LocationsKept
<1>12. CASE PageFree(t)
  <2>1. PICK page \in Page :
          KPageFree(page) /\ A!MmPageFree(t, page) /\ seen' = seen \ {page}
    BY <1>12 DEF PageFree
  <2>2. Reserved' = Reserved /\ InSkb' = InSkb /\ Releases' = Releases
    BY <2>1, KPageFreeStep
  <2>3. /\ page \in page_used /\ FragsOf(page) \cap used = {} /\ UNCHANGED used
        /\ page_used' = page_used \ {page} /\ handed' = handed \ FragsOf(page)
    BY <2>1 DEF KPageFree
  <2>4. failure' = "none"
    BY <2>1, <2>2, <2>3, PageFreeGood
  <2>5. printed' = {} /\ UNCHANGED <<active_skb_ptrs, consume_skb_locations>>
    BY <2>1, <2>4, MmPageFreeEffect DEF Good
  <2> QED
    BY <2>1, <2>2, <2>5, LocationsKept
<1> QED
  BY <1>2, <1>3, <1>4, <1>5, <1>6, <1>7, <1>8, <1>9, <1>10, <1>11, <1>12 DEF Event

(* There are no call sites at the start.                                   *)
LEMMA InitLocations ==
  ASSUME Init PROVE LocationsInv
<1> SUFFICES ASSUME AllHeadsTraced PROVE Fresh /\ Known
  BY DEF LocationsInv
<1>1. KernelInv /\ KInit
  BY KInitInv DEF Init
<1>2. DOMAIN consume_skb_locations = {} /\ printed = {} /\ seen = {}
  BY DEF Init, A!Init, A!EmptyDict
<1>3. CASE "pre_trace" \notin kernel.features
  <2>1. ctx = [c \in Ctx |-> Idle] /\ head_of = [skb \in Skb |-> None]
    BY <1>1, <1>3 DEF KInit
  <2>2. Releases = {} /\ Reserved = {} /\ InSkb = {}
    BY <2>1, NoneIsNull DEF Releases, Reserved, InSkb, At, Idle
  <2> QED
    BY <1>2, <2>2 DEF Fresh, Known
<1>4. CASE "pre_trace" \in kernel.features
  <2>1. kernel.mem \subseteq Frag
    BY <1>4 DEF AllHeadsTraced
  <2>2. used \subseteq Frag /\ Reserved \cup InSkb \subseteq used
    BY <1>1, <2>1, HeldMemory DEF KernelInv, MemoryConsistent
  <2> QED
    BY <1>1, <1>2, <2>2, ReleaseFacts, PtrAssumption DEF Fresh, Known
<1> QED
  BY <1>3, <1>4

(* They stay fresh in every step.                                          *)
LEMMA NextLocations ==
  ASSUME Corresponds, LocationsInv, [Next]_vars PROVE LocationsInv'
<1>1. CASE UNCHANGED vars
  <2>1. UNCHANGED <<kernel, ctx, head_of, active_skb_ptrs, consume_skb_locations, printed,
                    failure, seen>>
    BY <1>1 DEF vars, kvars, A!vars, A!dicts
  <2>2. UNCHANGED <<Reserved, InSkb, Releases>>
    BY <2>1 DEF Reserved, InSkb, Releases, At
  <2> QED
    BY <2>1, <2>2 DEF LocationsInv, Fresh, Known, AllHeadsTraced
<1>2. CASE Next
  <2> SUFFICES ASSUME AllHeadsTraced' PROVE Fresh' /\ (failure' = "none" => Known')
    BY DEF LocationsInv
  <2>0. UNCHANGED kernel /\ AllHeadsTraced
    BY <1>2 DEF Next, AllHeadsTraced
  <2>1. failure = "none"
    BY <1>2, EventTakes DEF Next, Silent
  <2>2. KernelInv /\ Good /\ now \in Nat /\ Fresh /\ Known
    BY <2>0, <2>1 DEF Corresponds, LocationsInv, Good, Tables
  <2>3. ASSUME NEW t \in {now, now + 1}, Event(t) PROVE Fresh' /\ (failure' = "none" => Known')
    <3>1. t \in Nat
      BY <2>2, SMTT(30)
    <3> QED
      BY <2>0, <2>2, <2>3, <3>1, EventLocations
  <2>4. CASE Silent
    <3>1. KSilent /\ A!Continue /\ UNCHANGED seen
      BY <2>4 DEF Silent
    <3>2. SilentEffect
      BY <2>0, <2>2, <3>1, KSilentStep
    <3>3. Reserved' = Reserved /\ InSkb' = InSkb /\ Releases' = Releases
      BY <2>0, <3>2, TracedFeatures DEF SilentEffect
    <3>4. printed' = {} /\ UNCHANGED <<active_skb_ptrs, consume_skb_locations>>
      BY <3>1 DEF A!Continue, A!Silent, A!Prints, A!dicts
    <3> QED
      BY <2>2, <3>1, <3>3, <3>4, LocationsKept
  <2> QED
    BY <1>2, <2>3, <2>4 DEF Next
<1> QED
  BY <1>1, <1>2

(* consume_skb_locations (written at line 207, read at lines 124-133 and   *)
(* 178-182) holds a call site only while its sk_buff is being released,    *)
(* and no BUG message is printed, on every kernel all of whose heads are   *)
(* traced.                                                                 *)
THEOREM AnalysisLocationsFresh == Spec => []LocationsFresh
<1>1. Init => Corresponds /\ LocationsInv
  BY InitCorresponds, InitLocations
<1>2. Corresponds /\ LocationsInv /\ [Next]_vars => Corresponds' /\ LocationsInv'
  BY NextCorresponds, NextLocations
<1>3. LocationsInv => LocationsFresh
  BY DEF LocationsInv, LocationsFresh, Fresh, Releases
<1> QED
  BY <1>1, <1>2, <1>3, PTL DEF Spec
=============================================================================
