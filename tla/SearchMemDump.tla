--------------------------- MODULE SearchMemDump ---------------------------
(***************************************************************************)
(* search_mem_dump.py: the scan of a physical memory dump for the marker   *)
(* that the traffic generators send.  The dump is a byte array; the loop   *)
(* repeats mm.find from one past the last hit until find returns -1 and    *)
(* prints address, page number and page offset of every hit.               *)
(***************************************************************************)
EXTENDS Integers, Sequences

CONSTANTS
  Byte,       \* the byte values that occur in a dump
  Pattern,    \* b"LEAK"
  DumpSize,   \* number of bytes of the dump
  PageSize    \* 1 << page_size_shift

ASSUME PatternAssumption == Pattern \in Seq(Byte) /\ Len(Pattern) > 0
ASSUME DumpSizeAssumption == DumpSize \in Nat \ {0}   \* an empty file cannot be mapped
ASSUME PageSizeAssumption == PageSize \in Nat \ {0}

VARIABLES
  mm,         \* the mapped dump
  i,          \* address of the hit to be printed, or -1
  printed     \* the lines printed so far

searchvars == <<mm, i, printed>>

Addr == 0 .. DumpSize - 1

Line == [full_addr : Addr, page_number : Nat, page_offset : 0 .. PageSize - 1]

(* The marker occurs at address a of dump m. *)
OccursAt(m, a) ==
  /\ a \in 0 .. DumpSize - Len(Pattern)
  /\ \A k \in 1 .. Len(Pattern) : m[a + k - 1] = Pattern[k]

(* The contract of mmap.find(b"LEAK", start): the lowest match at or after *)
(* start, or -1.                                                           *)
Find(m, start, j) ==
  \/ /\ j = -1
     /\ \A a \in start .. DumpSize - 1 : ~ OccursAt(m, a)
  \/ /\ j \in start .. DumpSize - 1
     /\ OccursAt(m, j)
     /\ \A a \in start .. j - 1 : ~ OccursAt(m, a)

(* On a non-negative address the masks and the shift are mod and div.      *)
PageOffset(a) == a % PageSize

(* Mutant: the offset is not masked off before the division rounds up.     *)
PageNumber_RoundUp(a) == (a + PageSize - 1) \div PageSize

PageNumber(a) == (a - PageOffset(a)) \div PageSize

(* Mutants: resume past the end of the hit, or at the hit itself.          *)
ResumeAt_PastHit(a) == a + Len(Pattern) + 1
ResumeAt_SameHit(a) == a

ResumeAt(a) == a + 1

LineOf(a) ==
  [full_addr |-> a, page_number |-> PageNumber(a), page_offset |-> PageOffset(a)]

SearchInit ==
  /\ mm \in [Addr -> Byte]
  /\ i \in Addr \cup {-1}
  /\ Find(mm, 0, i)
  /\ printed = {}

Report ==
  /\ i # -1
  /\ printed' = printed \cup {LineOf(i)}
  /\ \E j \in Addr \cup {-1} : Find(mm, ResumeAt(i), j) /\ i' = j
  /\ mm' = mm

SearchNext == Report

(* The script is a sequential loop: it keeps running while it can.         *)
SearchSpec == SearchInit /\ [][SearchNext]_searchvars /\ WF_searchvars(SearchNext)
-----------------------------------------------------------------------------
SearchTypeOK ==
  /\ mm \in [Addr -> Byte]
  /\ i \in Addr \cup {-1}
  /\ printed \in SUBSET Line

(* When the loop ends (find returned -1), every occurrence of the marker   *)
(* in the dump has been printed and nothing else has: restarting the       *)
(* search one byte after a hit loses no hit and invents none.              *)
AllHitsPrinted ==
  i = -1 => {l.full_addr : l \in printed} = {a \in Addr : OccursAt(mm, a)}

(* Page number and page offset locate the hit: together they give back the *)
(* address (that the offset lies within a page is part of SearchTypeOK).         *)
PageSplitExact ==
  \A l \in printed :
    l.page_number * PageSize + l.page_offset = l.full_addr

(* The scan ends for every dump.                                           *)
Terminates == <>(i = -1)
=============================================================================
