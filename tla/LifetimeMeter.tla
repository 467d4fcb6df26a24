--------------------------- MODULE LifetimeMeter ---------------------------
(***************************************************************************)
(* What the lifetime table promises: an ideal meter that watches every skb *)
(* head from its allocation over the first write and the release to the    *)
(* moment its memory is used again, and at that moment, and only then,     *)
(* reports how long each phase lasted and which functions were involved.   *)
(***************************************************************************)
EXTENDS Integers

CONSTANTS Ptr, Func, None

VARIABLES
  life,     \* what is known of the current lifetime of each head
  report,   \* the lifetimes reported by the current step
  now

mvars == <<life, report, now>>

Unknown ==
  [phase |-> "unknown", alloc |-> None, write |-> None, free |-> None, page_free |-> None,
   alloc_func |-> None, free_func |-> None]

Allocated(l, t, func) == [l EXCEPT !.phase = "allocated", !.alloc = t, !.alloc_func = func]
Written(l, t) == [l EXCEPT !.phase = "written", !.write = t]
Freed(l, t, func) == [l EXCEPT !.phase = "freed", !.free = t, !.free_func = func]

Lifetime(ptr, l, t) ==
  [ptr |-> ptr,
   lifetime |-> t - l.alloc,
   use_time |-> l.free - l.alloc,
   free_time |-> t - l.free,
   page_free_time |-> IF l.page_free = None THEN None ELSE t - l.page_free,
   none_page_free_time |-> IF l.page_free = None THEN None ELSE l.page_free - l.free,
   real_use_time |-> l.free - l.write,
   alloc_func |-> l.alloc_func, free_func |-> l.free_func]

MInit ==
  /\ life = [ptr \in Ptr |-> Unknown]
  /\ report = {}
  /\ now = 0

Step(ptr, next) == life' = [life EXCEPT ![ptr] = next] /\ report' = {}

Alloc(ptr, func) ==
  life[ptr].phase = "unknown" /\ Step(ptr, Allocated(life[ptr], now', func))

Write(ptr) ==
  life[ptr].phase = "allocated" /\ Step(ptr, Written(life[ptr], now'))

Attribute(ptr, func) ==
  life[ptr].phase = "written" /\ Step(ptr, [life[ptr] EXCEPT !.alloc_func = func])

Free(ptr, func) ==
  life[ptr].phase = "written" /\ Step(ptr, Freed(life[ptr], now', func))

(* The page that all of S was cut from is given back.                      *)
PageFree(S) ==
  /\ \A ptr \in S : life[ptr].phase = "freed" /\ life[ptr].page_free = None
  /\ life' = [ptr \in Ptr |-> IF ptr \in S THEN [life[ptr] EXCEPT !.page_free = now']
                              ELSE life[ptr]]
  /\ report' = {}

(* The memory of all of S is used again.                                   *)
Reuse(S) ==
  /\ \A ptr \in S : life[ptr].phase = "freed"
  /\ life' = [ptr \in Ptr |-> IF ptr \in S THEN Unknown ELSE life[ptr]]
  /\ report' = {Lifetime(ptr, life[ptr], now') : ptr \in S}

MNext ==
  /\ now' >= now
  /\ \/ \E ptr \in Ptr, func \in Func : Alloc(ptr, func) \/ Attribute(ptr, func) \/ Free(ptr, func)
     \/ \E ptr \in Ptr : Write(ptr)
     \/ \E S \in SUBSET Ptr : PageFree(S) \/ Reuse(S)

MSpec == MInit /\ [][MNext]_mvars
=============================================================================
