------------------------------ MODULE HeapExtend ------------------------------
(***************************************************************************)
(* How dmalloc gets memory from the system (heap.c): _dmalloc_heap_alloc   *)
(* extends the heap once for the size and, when the system's break is not  *)
(* on a block boundary, once more for the difference.  Between the two     *)
(* extensions others may move the break.                                   *)
(***************************************************************************)
EXTENDS Integers

CONSTANTS
  BLOCK_SIZE,
  SystemEnd,     \* the system has the addresses 1 .. SystemEnd - 1 to give
  Directions,    \* ways the break may move: "up" (sbrk), "down" (mmap)
  Starts,        \* where the break may be when the program starts
  Others         \* bytes that others take at a time, for each direction

ASSUME HeapExtendAssumption ==
  /\ BLOCK_SIZE \in Nat \ {0} /\ SystemEnd \in Nat
  /\ Directions \subseteq {"up", "down"}
  /\ Starts \subseteq 1 .. SystemEnd
  /\ Others \in [Directions -> SUBSET (Nat \ {0})]

VARIABLES
  grows,       \* which way the break moves
  brk,         \* the break
  low, high,   \* _dmalloc_heap_low, _dmalloc_heap_high; 0 before the first extension
  want,        \* the size being allocated, 0 outside of _dmalloc_heap_alloc
  first,       \* heap_new, the result of the first extension; 0 before it
  got,         \* what _dmalloc_heap_alloc last returned, 0 for HEAP_ALLOC_ERROR
  given        \* history: the ranges it has returned

heapvars == <<grows, brk, low, high, want, first, got, given>>

HEAP_ALLOC_ERROR == 0
Extent(lo, size) == [lo |-> lo, size |-> size]
Apart(r, s) == r.lo + r.size <= s.lo \/ s.lo + s.size <= r.lo

HeapInit ==
  /\ grows \in Directions
  /\ brk \in Starts
  /\ low = 0 /\ high = 0 /\ want = 0 /\ first = 0 /\ got = 0 /\ given = {}

-----------------------------------------------------------------------------
(* sbrk or mmap: where incr more bytes would be, and whether there are any. *)
Place(incr) == IF grows = "up" THEN brk ELSE brk - incr
Room(incr) == IF grows = "up" THEN brk + incr <= SystemEnd ELSE brk - incr >= 1

(* heap_extend.  After a failure it moves the bounds all the same, from     *)
(* SBRK_ERROR, the highest address there is, and from what that and the     *)
(* size wrap around to.                                                     *)
Extended(incr) ==
  /\ Room(incr)
  /\ brk' = IF grows = "up" THEN brk + incr ELSE brk - incr
  /\ low' = IF low = 0 \/ Place(incr) < low THEN Place(incr) ELSE low
  /\ high' = IF high < Place(incr) + incr THEN Place(incr) + incr ELSE high
Refused(incr) ==
  /\ ~Room(incr)
  /\ low' = IF low = 0 THEN SystemEnd ELSE low
  /\ high' = IF high < incr - 1 THEN incr - 1 ELSE high
  /\ UNCHANGED brk

AskHeap(size) == want = 0 /\ size > 0 /\ want' = size /\ first' = 0
HeapAlloc(size) == AskHeap(size) /\ UNCHANGED <<grows, brk, low, high, got, given>>

Return(mem) ==
  /\ got' = mem /\ want' = 0 /\ first' = 0
  /\ given' = IF mem = HEAP_ALLOC_ERROR THEN given ELSE given \cup {Extent(mem, want)}
  /\ UNCHANGED grows

FirstExtension ==
  /\ want > 0 /\ first = 0
  /\ \/ Refused(want) /\ Return(HEAP_ALLOC_ERROR)
     \/ /\ Extended(want)
        /\ Place(want) % BLOCK_SIZE = 0
        /\ Return(Place(want))
     \/ /\ Extended(want)
        /\ Place(want) % BLOCK_SIZE # 0
        /\ first' = Place(want)
        /\ UNCHANGED <<grows, want, got, given>>

(* Mutant: where the second extension went is not looked at. *)
SecondExtensionBlind ==
  LET diff == BLOCK_SIZE - (first % BLOCK_SIZE) IN
  /\ want > 0 /\ first > 0
  /\ \/ Refused(diff) /\ Return(HEAP_ALLOC_ERROR)
     \/ Extended(diff) /\ Return(first + diff)

(* The difference joins the first extension on one side or on the other, or *)
(* somebody came in between and it starts over, giving nothing back.        *)
SecondExtension ==
  LET diff == BLOCK_SIZE - (first % BLOCK_SIZE) IN
  /\ want > 0 /\ first > 0
  /\ \/ Refused(diff) /\ Return(HEAP_ALLOC_ERROR)
     \/ Extended(diff) /\ Place(diff) + diff = first /\ Return(Place(diff))
     \/ Extended(diff) /\ first + want = Place(diff) /\ Return(first + diff)
     \/ /\ Extended(diff)
        /\ Place(diff) + diff # first /\ first + want # Place(diff)
        /\ first' = 0
        /\ UNCHANGED <<grows, want, got, given>>

HeapStep == FirstExtension \/ SecondExtension

(* Another caller of sbrk. *)
OtherMoves(n) ==
  /\ Room(n)
  /\ brk' = IF grows = "up" THEN brk + n ELSE brk - n
  /\ UNCHANGED <<grows, low, high, want, first, got, given>>

HeapNext == \/ \E size \in Nat : HeapAlloc(size)
            \/ HeapStep
            \/ \E n \in Others[grows] : OtherMoves(n)
HeapSpec == HeapInit /\ [][HeapNext]_heapvars

-----------------------------------------------------------------------------
HeapType ==
  /\ grows \in Directions /\ brk \in Int
  /\ low \in Int /\ high \in Int /\ want \in Nat /\ first \in Int /\ got \in Int
  /\ given \subseteq [lo : Int, size : Nat \ {0}]

(* What the heap gave out lies behind the break, and so does the extension  *)
(* that waits for its second half.                                          *)
Behind(lo, size) == IF grows = "up" THEN lo + size <= brk ELSE brk <= lo
GivenBehind ==
  /\ \A r \in given : Behind(r.lo, r.size)
  /\ first # 0 => /\ Behind(first, want) /\ first > 0 /\ want > 0
                  /\ low # 0 /\ low <= first /\ first + want <= high
                  /\ \A r \in given : Apart(r, Extent(first, want))
  /\ brk >= 1
  /\ given # {} => low # 0

(* Blocks do not overlap, whoever else moves the break, and every pointer   *)
(* passes the test against _dmalloc_heap_low and _dmalloc_heap_high.        *)
GivenApart == \A r, s \in given : r # s => Apart(r, s)
GivenInBounds == \A r \in given : low <= r.lo /\ r.lo + r.size <= high
HInv == HeapType /\ GivenBehind /\ GivenApart /\ GivenInBounds

(* Where the break moves up, as sbrk's does, blocks start on block          *)
(* boundaries; where it moves down, only if the first extension missed one  *)
(* by nothing or by half a block.                                           *)
BlocksAligned == grows = "up" => \A r \in given : r.lo % BLOCK_SIZE = 0
=============================================================================
