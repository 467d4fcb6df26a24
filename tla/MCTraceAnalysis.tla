-------------------------- MODULE MCTraceAnalysis --------------------------
(* Small kernels under analysis. *)
EXTENDS TraceAnalysis, TLC, FiniteSetsExt

MCPageOf == [ptr \in Ptr |-> CHOOSE page \in Page : TRUE]

(* The kernels with k heads from kmalloc, f fragments and l call sites.    *)
Sized(features, k, f, l, last) ==
  {[features |-> features, mem |-> K \cup F, locs |-> L, last |-> last] :
     K \in kSubset(k, Kmem), F \in kSubset(f, Frag), L \in kSubset(l, Loc)}

AllKernels ==
  Sized({"with_frags"}, 2, 1, 2, 1)
    \cup Sized({"pre_trace"}, 0, 2, 2, 2)
    \cup Sized({"pre_trace", "with_frags"}, 2, 0, 2, 0)
    \cup Sized({"pre_trace", "clones"}, 1, 1, 2, 1)
    \cup Sized({"clones"}, 2, 0, 1, 1)
    \cup Sized(AllFeatures, 1, 2, 1, 0)
    \cup Sized(AllFeatures \ Causes["KeyError_60_72"], 1, 2, 1, 0)
    \cup Sized(AllFeatures \ Causes["assert_173"], 1, 2, 1, 0)

UntracedKmallocKernel == Sized({"untraced_kmalloc"}, 1, 0, 1, 1)

(* Contexts, sk_buffs, addresses and call sites are interchangeable: no    *)
(* definition chooses among them.                                          *)
Symmetry ==
  Permutations(Ctx) \cup Permutations(Skb) \cup Permutations(Kmem)
    \cup Permutations(Frag) \cup Permutations(Loc)
=============================================================================
