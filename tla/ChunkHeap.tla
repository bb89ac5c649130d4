------------------------------ MODULE ChunkHeap ------------------------------
(***************************************************************************)
(* The chunk layer of dmalloc (chunk.c): the structures that say which     *)
(* piece of the heap is used, which is free and which is waiting to be     *)
(* reusable, and the calls that move a piece between them.                 *)
(*                                                                         *)
(* A chunk is cut once, and from then on its slot (skip_alloc_t) never     *)
(* changes its address or its total size; so a slot is named by its        *)
(* sa_mem.  A call that needs memory runs as several steps, one for each   *)
(* iteration of the loops below it (pc), because each step may fail on     *)
(* its own and leave what the earlier ones did.                            *)
(***************************************************************************)
EXTENDS Integers, Sequences, Functions, FiniteSets

CONSTANTS
  BLOCK_SIZE,            \* bytes of a basic block
  BitSizes,              \* bit_sizes[]: the sizes a block may be divided into
  FENCE_BOTTOM_SIZE,
  FENCE_TOP_SIZE,
  FREED_POINTER_DELAY,   \* calls a freed chunk waits before it is reusable
  LARGEST_ALLOCATION,
  Levels,                \* heights of a skip-list slot
  SlotsPerBlock,         \* slots of each height that fit in an admin block
  MemoryLimit,           \* _dmalloc_memory_limit, 0 for none
  Sizes,                 \* sizes the program asks for
  MallocFns,             \* allocation functions it calls
  Settings,              \* values the program gives to _dmalloc_flags
  ScribbleParts,         \* places the program may write by mistake
  HeapEnd,               \* bound: the system gives no address from here on
  MaxIter,               \* bound on the calls
  MaxScribbles           \* bound on the mistaken writes that are standing

NULL == 0
Addr == BLOCK_SIZE .. HeapEnd - 1
DebugFlags == {"FENCE", "ALLOC_BLANK", "FREE_BLANK", "CHECK_BLANK",
               "REALLOC_COPY", "NEVER_REUSE", "ERROR_FREE_NULL"}
Parts == {"below", "bottom", "top", "above", "body"}

(* The entry of bit_sizes where get_divided_memory's loop stops. *)
FirstFit(n, b) == n <= b /\ \A c \in BitSizes : n <= c => b <= c

ASSUME GeometryAssumption ==
  /\ BLOCK_SIZE \in Nat \ {0}
  /\ BitSizes \subseteq 1 .. BLOCK_SIZE \div 2
  /\ \A n \in 0 .. BLOCK_SIZE \div 2 : \E b \in BitSizes : FirstFit(n, b)
  /\ FENCE_BOTTOM_SIZE \in 1 .. BLOCK_SIZE
  /\ FENCE_TOP_SIZE \in Nat \ {0}
  /\ HeapEnd \in Nat

ASSUME ParameterAssumption ==
  /\ FREED_POINTER_DELAY \in Nat \ {0}
  /\ LARGEST_ALLOCATION \in Nat
  /\ Levels # {}
  /\ SlotsPerBlock \in [Levels -> Nat \ {0, 1}]
  /\ MemoryLimit \in Nat
  /\ Sizes \subseteq Nat
  /\ MallocFns \subseteq {"malloc", "valloc"}
  /\ Settings \subseteq SUBSET DebugFlags
  /\ Settings # {}
  /\ ScribbleParts \subseteq Parts
  /\ MaxIter \in Nat
  /\ MaxScribbles \in Nat

VARIABLES
  iter,        \* _dmalloc_iter_c, one per call into the library
  debug,       \* _dmalloc_flags
  slot,        \* the skip_alloc_t of the chunk at each address
  used,        \* skip_address_list
  free_list,   \* skip_free_list, one stack for each size
  wait_list,   \* free_wait_list_head .. free_wait_list_tail
  entry_free,  \* entry_free_list[]: unused slots of each height
  heap_high,   \* _dmalloc_heap_high
  stats,       \* the alloc_ counters and the block counters
  pc, call,    \* where the current call is, and its arguments and locals
  result,      \* how the last call ended: "ok" or the dmalloc_errno it set
  damage,      \* bytes the library wrote that the program has overwritten
  handed       \* history: the pointer last handed out for each chunk

vars == <<iter, debug, slot, used, free_list, wait_list, entry_free,
          heap_high, stats, pc, call, result, damage, handed>>
heap == <<slot, used, free_list, wait_list, entry_free, heap_high, stats,
          damage, handed>>

-----------------------------------------------------------------------------
(* Slots and the geometry of a chunk. *)

SlotFlags == {"USER", "FREE", "ADMIN", "FENCE", "VALLOC", "BLANK"}
NoSlot == [flags |-> {}, size |-> 0, usize |-> 0, iter |-> 0, seen |-> 0]
AdminSlot == [NoSlot EXCEPT !.flags = {"ADMIN"}, !.size = BLOCK_SIZE]
FreshPiece(size) == [NoSlot EXCEPT !.flags = {"FREE"}, !.size = size]

NoCall == [fn |-> "none", size |-> 0, fence |-> FALSE, old |-> NULL,
           need |-> 0, mem |-> 0, bounds |-> 0]

Is(flag, a) == flag \in slot[a].flags
Slots == {a \in Addr : slot[a].flags # {}}
UserChunks == {a \in used : Is("USER", a)}

UserOffset(flags) ==
  IF "FENCE" \notin flags THEN 0
  ELSE IF "VALLOC" \in flags THEN BLOCK_SIZE ELSE FENCE_BOTTOM_SIZE
FenceTop(flags) == IF "FENCE" \in flags THEN FENCE_TOP_SIZE ELSE 0

UserStart(a) == a + UserOffset(slot[a].flags)
UpperBounds(a) == a + slot[a].size - FenceTop(slot[a].flags)
Contains(a, pnt) == a <= pnt /\ pnt < a + slot[a].size

(* Loose search of the address list: the used chunk around the pointer. *)
Holders(pnt) == {a \in used : Contains(a, pnt)}

(* The program never saw an address inside a block the library keeps for   *)
(* its own slots, so it passes none.                                       *)
Known(pnt) == \A a \in Holders(pnt) : ~Is("ADMIN", a)

(* Bytes of chunk a the library has written and will look at again. *)
WatchedParts(a) ==
  IF Is("FREE", a) THEN {p \in {"body"} : Is("BLANK", a)}
  ELSE {p \in {"bottom", "top"} : Is("FENCE", a)}
       \cup {p \in {"below"} : /\ {"FENCE", "VALLOC", "BLANK"} \subseteq slot[a].flags
                               /\ BLOCK_SIZE > FENCE_BOTTOM_SIZE}
       \cup {p \in {"above"} : /\ Is("BLANK", a)
                               /\ UserStart(a) + slot[a].usize < UpperBounds(a)}

Damaged == {a \in Slots : damage[a] # {}}

(* The checks of check_used_slot that do not depend on the user's pointer, *)
(* in the call numbered now.                                               *)
SlotError(a, now) ==
  CASE slot[a].usize > LARGEST_ALLOCATION -> "BAD_SIZE"
    [] slot[a].size > BLOCK_SIZE \div 2 /\ slot[a].size % BLOCK_SIZE # 0 -> "BAD_SIZE"
    [] Is("VALLOC", a) /\ UserStart(a) % BLOCK_SIZE # 0 -> "NOT_ON_BLOCK"
    [] Is("VALLOC", a) /\ slot[a].size < BLOCK_SIZE -> "SLOT_CORRUPT"
    [] "below" \in damage[a] -> "FREE_OVERWRITTEN"
    [] "bottom" \in damage[a] -> "UNDER_FENCE"
    [] "top" \in damage[a] -> "OVER_FENCE"
    [] "above" \in damage[a] -> "FREE_OVERWRITTEN"
    [] slot[a].seen \div 2 > now -> "SLOT_CORRUPT"
    [] OTHER -> "ok"

(* check_used_slot with exact_b set. *)
PointerError(a, pnt) ==
  CASE pnt < UserStart(a) -> "WOULD_OVERWRITE"
    [] pnt > UserStart(a) -> "NOT_START_BLOCK"
    [] OTHER -> SlotError(a, iter')

(* check_free_slot, in the call numbered now. *)
FreeSlotError(a, now) ==
  CASE Is("BLANK", a) /\ "body" \in damage[a] -> "FREE_OVERWRITTEN"
    [] slot[a].seen \div 2 > now -> "SLOT_CORRUPT"
    [] OTHER -> "ok"

-----------------------------------------------------------------------------
(* Where the program's calls start and end. *)

Returns(r) == pc' = "idle" /\ call' = NoCall /\ result' = r

Enter == pc = "idle" /\ iter < MaxIter /\ iter' = iter + 1

(* Mutant: no room for the fence posts. *)
NeededSizeNoFence(fn, size) ==
  IF fn = "valloc" /\ size <= BLOCK_SIZE \div 2 THEN BLOCK_SIZE ELSE size

(* The size a request takes from the heap, before it is rounded. *)
NeededSize(fn, size) ==
  LET aligned == fn = "valloc" IN
  IF "FENCE" \in debug
  THEN size + FENCE_BOTTOM_SIZE + FENCE_TOP_SIZE + (IF aligned THEN BLOCK_SIZE ELSE 0)
  ELSE IF aligned /\ size <= BLOCK_SIZE \div 2 THEN BLOCK_SIZE ELSE size

Divided(n) == n <= BLOCK_SIZE \div 2
(* Mutants: a whole block too many for an exact multiple; no rounding. *)
RoundUpPast(n) ==
  IF Divided(n) THEN CHOOSE b \in BitSizes : FirstFit(n, b)
                ELSE (n \div BLOCK_SIZE + 1) * BLOCK_SIZE
RoundUpNot(n) ==
  IF Divided(n) THEN CHOOSE b \in BitSizes : FirstFit(n, b) ELSE n

RoundUp(n) ==
  IF Divided(n)
  THEN CHOOSE b \in BitSizes : FirstFit(n, b)
  ELSE ((n + BLOCK_SIZE - 1) \div BLOCK_SIZE) * BLOCK_SIZE

(* _dmalloc_chunk_malloc up to its use of the heap. *)
BeginMalloc(fn, size, old) ==
  LET needed == NeededSize(fn, size) IN
  /\ \/ /\ size > LARGEST_ALLOCATION
        /\ Returns("TOO_BIG")
     \/ /\ size <= LARGEST_ALLOCATION
        /\ MemoryLimit > 0 /\ stats.cur_given + needed > MemoryLimit
        /\ Returns("OVER_LIMIT")
     \/ /\ size <= LARGEST_ALLOCATION
        /\ ~(MemoryLimit > 0 /\ stats.cur_given + needed > MemoryLimit)
        /\ pc' = "reuse"
        /\ call' = [NoCall EXCEPT !.fn = fn, !.size = size, !.old = old,
                                  !.fence = "FENCE" \in debug,
                                  !.need = RoundUp(needed)]
        /\ UNCHANGED result
  /\ UNCHANGED heap


-----------------------------------------------------------------------------
(* Counters. *)

Larger(m, n) == IF m < n THEN n ELSE m

(* alloc_current moves by delta; size bytes were requested. *)
Grown(st, size, delta) ==
  [st EXCEPT !.current = @ + delta,
             !.maximum = Larger(@, st.current + delta),
             !.total = @ + size,
             !.one_max = Larger(@, size),
             !.tot_pnts = @ + 1]

Allocated(st, given) ==
  LET grown == Grown(st, call.size, call.size) IN
  [grown EXCEPT !.cur_given = @ + given,
                !.max_given = Larger(@, st.cur_given + given),
                !.cur_pnts = @ + 1,
                !.max_pnts = Larger(@, st.cur_pnts + 1)]

(* Mutant: the freed chunk is not added to the free space. *)
FreedNoSpace(st, given, size) ==
  [st EXCEPT !.current = @ - size, !.cur_given = @ - given, !.cur_pnts = @ - 1]

Freed(st, given, size) ==
  [st EXCEPT !.current = @ - size, !.cur_given = @ - given,
             !.free_space = @ + given, !.cur_pnts = @ - 1]

-----------------------------------------------------------------------------
(* The loops and steps of use_free_memory, create_divided_chunks and       *)
(* get_memory.                                                             *)

SizeClasses == 1 .. HeapEnd
Available(n) == n \in SizeClasses /\ free_list[n] # <<>>
(* Mutant: the delay is one call short. *)
HeadDueEarly == wait_list # <<>> /\ slot[Head(wait_list)].iter + FREED_POINTER_DELAY <= iter + 1

HeadDue == wait_list # <<>> /\ slot[Head(wait_list)].iter + FREED_POINTER_DELAY <= iter

(* clear_alloc blanks a chunk for good: nothing takes the flag off. *)
BlankFlag(settings) == {f \in {"BLANK"} : debug \cap settings # {}}
AllocBlank == BlankFlag({"ALLOC_BLANK", "CHECK_BLANK"})
FreeBlank == BlankFlag({"FREE_BLANK", "CHECK_BLANK"})

UserFlags == {"USER"} \cup {f \in {"FENCE"} : call.fence}
                      \cup {f \in {"VALLOC"} : call.fn = "valloc"} \cup AllocBlank
UserSlot(s) == [s EXCEPT !.flags = UserFlags, !.usize = call.size,
                         !.iter = iter, !.seen = @ + 1]

(* The end of _dmalloc_chunk_malloc on chunk a; realloc still has to free. *)
HandOut(a) ==
  /\ handed' = [handed EXCEPT ![a] = a + UserOffset(UserFlags)]
  /\ damage' = [damage EXCEPT ![a] = {}]
  /\ IF call.fn = "realloc" THEN pc' = "replace" /\ UNCHANGED <<call, result>>
                            ELSE Returns("ok")

(* insert_address of slot s at a: get_slot may need an admin block first. *)
Insert(a, s, level, st) ==
  \/ /\ entry_free[level] > 0
     /\ entry_free' = [entry_free EXCEPT ![level] = @ - 1]
     /\ slot' = [slot EXCEPT ![a] = s]
     /\ used' = used \cup {c \in {a} : "USER" \in s.flags}
     /\ stats' = st
     /\ UNCHANGED heap_high
  \/ /\ entry_free[level] = 0
     /\ heap_high + BLOCK_SIZE <= HeapEnd
     /\ heap_high' = heap_high + BLOCK_SIZE
     /\ entry_free' = [entry_free EXCEPT ![level] = SlotsPerBlock[level] - 2]
     /\ slot' = [slot EXCEPT ![a] = s, ![heap_high] = AdminSlot]
     /\ used' = used \cup {c \in {a} : "USER" \in s.flags} \cup {heap_high}
     /\ stats' = [st EXCEPT !.admin_blocks = @ + 1]

(* Mutants: a due chunk goes back to the end of the wait list; it stays on  *)
(* it although it is on the free list; it replaces what the list held.      *)
DrainRequeues ==
  /\ pc \in {"reuse", "retake"} /\ HeadDue
  /\ wait_list' = Append(Tail(wait_list), Head(wait_list))
  /\ UNCHANGED <<iter, debug, slot, used, free_list, entry_free, heap_high, stats,
                 pc, call, result, damage, handed>>
DrainTwice ==
  /\ pc \in {"reuse", "retake"} /\ HeadDue
  /\ Head(wait_list) \notin Range(free_list[slot[Head(wait_list)].size])
  /\ free_list' = [free_list EXCEPT ![slot[Head(wait_list)].size] = <<Head(wait_list)>> \o @]
  /\ UNCHANGED <<iter, debug, slot, used, wait_list, entry_free, heap_high, stats,
                 pc, call, result, damage, handed>>
DrainOver ==
  /\ pc \in {"reuse", "retake"} /\ HeadDue
  /\ free_list' = [free_list EXCEPT ![slot[Head(wait_list)].size] = <<Head(wait_list)>>]
  /\ wait_list' = Tail(wait_list)
  /\ UNCHANGED <<iter, debug, slot, used, entry_free, heap_high, stats,
                 pc, call, result, damage, handed>>

DrainOne ==
  /\ pc \in {"reuse", "retake"}
  /\ HeadDue
  /\ LET a == Head(wait_list) IN
       free_list' = [free_list EXCEPT ![slot[a].size] = <<a>> \o @]
  /\ wait_list' = Tail(wait_list)
  /\ UNCHANGED <<iter, debug, slot, used, entry_free, heap_high, stats,
                 pc, call, result, damage, handed>>

TakeFree ==
  /\ pc \in {"reuse", "retake"}
  /\ ~HeadDue
  /\ Available(call.need)
  /\ LET a == Head(free_list[call.need]) IN
     /\ slot' = [slot EXCEPT ![a] = UserSlot(@)]
     /\ used' = used \cup {a}
     /\ stats' = [Allocated(stats, call.need) EXCEPT !.free_space = @ - call.need]
     /\ HandOut(a)
  /\ free_list' = [free_list EXCEPT ![call.need] = Tail(@)]
  /\ UNCHANGED <<iter, debug, wait_list, entry_free, heap_high>>

(* Nothing of the size is free: a block from the heap, to be cut up or not. *)
GrowHeap ==
  LET grown == IF Divided(call.need) THEN BLOCK_SIZE ELSE call.need IN
  /\ pc = "reuse"
  /\ ~HeadDue /\ ~Available(call.need)
  /\ heap_high + grown <= HeapEnd
  /\ heap_high' = heap_high + grown
  /\ stats' = [stats EXCEPT !.user_blocks = @ + grown \div BLOCK_SIZE]
  /\ pc' = IF Divided(call.need) THEN "carve" ELSE "insert"
  /\ call' = [call EXCEPT !.mem = heap_high, !.bounds = heap_high + grown - call.need]
  /\ UNCHANGED <<iter, debug, slot, used, free_list, wait_list, entry_free,
                 result, damage, handed>>

CarvePiece ==
  /\ pc = "carve"
  /\ \E level \in Levels :
       Insert(call.mem, FreshPiece(call.need), level,
              [stats EXCEPT !.free_space = @ + call.need])
  /\ free_list' = [free_list EXCEPT ![call.need] = <<call.mem>> \o @]
  /\ call' = [call EXCEPT !.mem = @ + call.need]
  /\ pc' = IF call.mem + call.need <= call.bounds THEN "carve" ELSE "retake"
  /\ UNCHANGED <<iter, debug, wait_list, result, damage, handed>>

InsertBlocks ==
  /\ pc = "insert"
  /\ \E level \in Levels :
       Insert(call.mem, UserSlot(FreshPiece(call.need)), level,
              Allocated(stats, call.need))
  /\ HandOut(call.mem)
  /\ UNCHANGED <<iter, debug, free_list, wait_list>>

(* heap_alloc fails, for the chunk or for the admin block of its slot; what *)
(* the call took from the heap before that stays taken.                     *)
AllocFails ==
  /\ \/ pc = "reuse" /\ ~HeadDue /\ ~Available(call.need)
     \/ pc \in {"carve", "insert"} /\ \E level \in Levels : entry_free[level] = 0
  /\ Returns("ALLOC_FAILED")
  /\ UNCHANGED <<iter, debug, heap>>

-----------------------------------------------------------------------------
(* _dmalloc_chunk_free. *)

Waiting == Range(wait_list)
FreeListed == UNION {Range(free_list[n]) : n \in SizeClasses}

Release(a) ==
  /\ slot' = [slot EXCEPT
       ![a].flags = {"FREE"} \cup (@ \cap {"FENCE"}) \cup FreeBlank,
       ![a].iter = iter', ![a].seen = @ + 1]
  /\ used' = used \ {a}
  /\ wait_list' = IF "NEVER_REUSE" \in debug THEN wait_list
                                             ELSE Append(wait_list, a)
  /\ stats' = Freed(stats, slot[a].size, slot[a].usize)
  /\ UNCHANGED <<free_list, entry_free, heap_high, damage, handed>>

(* Mutant: the wait list is not searched. *)
MissingErrorUnlisted(pnt) ==
  IF \E a \in FreeListed : Contains(a, pnt) THEN {"ALREADY_FREE", "NOT_FOUND"}
                                            ELSE {"NOT_FOUND"}

(* The free list is sorted by size, and find_address walks it looking for  *)
(* an address: a chunk that is there may or may not be found.              *)
MissingError(pnt) ==
  CASE \E a \in Waiting : Contains(a, pnt) ->
         {IF \E a \in Waiting : Contains(a, pnt) /\ UserStart(a) = pnt
          THEN "ALREADY_FREE" ELSE "NOT_FOUND"}
    [] \E a \in FreeListed : Contains(a, pnt) -> {"ALREADY_FREE", "NOT_FOUND"}
    [] OTHER -> {"NOT_FOUND"}

(* Mutant: check_used_slot is not called. *)
ChunkFreeUnchecked(pnt) ==
  \/ /\ pnt = NULL
     /\ Returns(IF "ERROR_FREE_NULL" \in debug THEN "IS_NULL" ELSE "no_errno")
     /\ UNCHANGED heap
  \/ /\ pnt # NULL /\ Holders(pnt) = {}
     /\ \E error \in MissingError(pnt) : Returns(error)
     /\ UNCHANGED heap
  \/ \E a \in Holders(pnt) : Returns("ok") /\ Release(a)

ChunkFree(pnt) ==
  \/ /\ pnt = NULL
     /\ Returns(IF "ERROR_FREE_NULL" \in debug THEN "IS_NULL" ELSE "no_errno")
     /\ UNCHANGED heap
  \/ /\ pnt # NULL /\ Holders(pnt) = {}
     /\ \E error \in MissingError(pnt) : Returns(error)
     /\ UNCHANGED heap
  \/ \E a \in Holders(pnt) :
       \/ /\ PointerError(a, pnt) # "ok"
          /\ Returns(PointerError(a, pnt))
          /\ UNCHANGED heap
       \/ /\ PointerError(a, pnt) = "ok"
          /\ Returns("ok")
          /\ Release(a)

-----------------------------------------------------------------------------
(* The calls of the program. *)

Pointers == {NULL} \cup Addr

MallocCall(fn, size) == Enter /\ BeginMalloc(fn, size, NULL) /\ UNCHANGED debug
FreeCall(pnt) == Enter /\ Known(pnt) /\ ChunkFree(pnt) /\ UNCHANGED debug

Resize(a, size) ==
  /\ slot' = [slot EXCEPT ![a].flags = @ \cup AllocBlank, ![a].usize = size,
                          ![a].iter = iter', ![a].seen = @ + 2]
  /\ stats' = Grown(stats, size, size - slot[a].usize)
  /\ damage' = [damage EXCEPT ![a] = {}]
  /\ UNCHANGED <<used, free_list, wait_list, entry_free, heap_high, handed>>

(* Mutant: the whole chunk is taken to be the user's. *)
MustCopyLoose(a, size) == \/ UserStart(a) + size > a + slot[a].size
                          \/ debug \cap {"REALLOC_COPY", "NEVER_REUSE"} # {}

MustCopy(a, size) == \/ UserStart(a) + size > UpperBounds(a)
                     \/ debug \cap {"REALLOC_COPY", "NEVER_REUSE"} # {}

ReallocCall(pnt, size) ==
  /\ Enter /\ Known(pnt) /\ UNCHANGED debug
  /\ \/ pnt = NULL /\ BeginMalloc("malloc", size, NULL)
     \/ pnt # NULL /\ size = 0 /\ ChunkFree(pnt)
     \/ /\ pnt # NULL /\ size > 0 /\ Holders(pnt) = {}
        /\ Returns("NOT_FOUND")
        /\ UNCHANGED heap
     \/ /\ pnt # NULL /\ size > 0
        /\ \E a \in Holders(pnt) :
             \/ MustCopy(a, size) /\ BeginMalloc("realloc", size, pnt)
             \/ ~MustCopy(a, size) /\ Returns("ok") /\ Resize(a, size)

(* The data is copied; the old pointer is freed as any pointer would be. *)
Replace ==
  /\ pc = "replace"
  /\ UNCHANGED <<iter, debug>>
  /\ ChunkFree(call.old)

(* Mutants: the pass ends before it starts when no chunk is free; it ends   *)
(* before the wait list in any case.                                        *)
VisitedIfFree == IF FreeListed = {} THEN {} ELSE used \cup FreeListed \cup Waiting
VisitedUnwaited == used \cup FreeListed

(* One pass goes over the used list and then, when the size list is not    *)
(* empty, over it and the wait list.                                       *)
Visited == used \cup IF FreeListed = {} THEN {} ELSE FreeListed \cup Waiting

VerifyHeap ==
  /\ Enter
  /\ Returns(IF \A a \in Visited :
                  IF a \in used THEN SlotError(a, iter') = "ok"
                                 ELSE FreeSlotError(a, iter') = "ok"
             THEN "ok" ELSE "HEAP_BAD")
  /\ UNCHANGED <<debug, heap>>

VerifyPointer(pnt) ==
  /\ Enter /\ Known(pnt)
  /\ \/ Holders(pnt) = {} /\ Returns("NOT_FOUND")
     \/ \E a \in Holders(pnt) : Returns(PointerError(a, pnt))
  /\ UNCHANGED <<debug, heap>>

(* dmalloc_debug takes no lock: it may come in the middle of a call. *)
DebugCall(flags) ==
  /\ debug' = flags
  /\ UNCHANGED <<iter, heap, pc, call, result>>

(* The program writes where it should not. *)
Scribble(a, part) ==
  /\ pc = "idle"
  /\ part \in WatchedParts(a) \ damage[a]
  /\ Cardinality({c \in Addr : damage[c] # {}}) < MaxScribbles
  /\ damage' = [damage EXCEPT ![a] = @ \cup {part}]
  /\ UNCHANGED <<iter, debug, slot, used, free_list, wait_list, entry_free,
                 heap_high, stats, pc, call, result, handed>>

-----------------------------------------------------------------------------
Init ==
  /\ iter = 0
  /\ debug \in Settings
  /\ slot = [a \in Addr |-> NoSlot]
  /\ used = {}
  /\ free_list = [n \in SizeClasses |-> <<>>]
  /\ wait_list = <<>>
  /\ entry_free = [level \in Levels |-> 0]
  /\ heap_high = BLOCK_SIZE
  /\ stats = [current |-> 0, maximum |-> 0, cur_given |-> 0, max_given |-> 0,
              one_max |-> 0, total |-> 0, free_space |-> 0, cur_pnts |-> 0,
              max_pnts |-> 0, tot_pnts |-> 0, user_blocks |-> 0,
              admin_blocks |-> 0]
  /\ pc = "idle"
  /\ call = NoCall
  /\ result = "ok"
  /\ damage = [a \in Addr |-> {}]
  /\ handed = [a \in Addr |-> NULL]

(* The steps of a call that is under way. *)
Step == \/ DrainOne \/ TakeFree \/ GrowHeap \/ CarvePiece \/ InsertBlocks
        \/ AllocFails \/ Replace

Program ==
  \/ \E fn \in MallocFns, size \in Sizes : MallocCall(fn, size)
  \/ \E pnt \in Pointers : FreeCall(pnt)
  \/ \E pnt \in Pointers, size \in Sizes : ReallocCall(pnt, size)
  \/ VerifyHeap
  \/ \E pnt \in Addr : VerifyPointer(pnt)
  \/ \E flags \in Settings : DebugCall(flags)
  \/ \E a \in Addr, part \in ScribbleParts : Scribble(a, part)

Next == Step \/ Program
Spec == Init /\ [][Next]_vars

(* A call that has entered the library runs on; nobody has to make one. *)
FairSpec == Spec /\ WF_vars(Step)

-----------------------------------------------------------------------------
(* Properties. *)

Results == {"ok", "no_errno", "IS_NULL", "NOT_FOUND", "ALREADY_FREE",
            "WOULD_OVERWRITE", "NOT_START_BLOCK", "BAD_SIZE", "NOT_ON_BLOCK",
            "SLOT_CORRUPT", "UNDER_FENCE", "OVER_FENCE", "FREE_OVERWRITTEN",
            "TOO_BIG", "OVER_LIMIT", "ALLOC_FAILED", "HEAP_BAD"}

SlotType == [flags : SUBSET SlotFlags, size : 0 .. HeapEnd, usize : Nat,
             iter : Nat, seen : Nat]
StatsType == [current : Int, maximum : Int, cur_given : Int, max_given : Int,
              one_max : Int, total : Int, free_space : Int, cur_pnts : Int,
              max_pnts : Int, tot_pnts : Int, user_blocks : Int,
              admin_blocks : Int]
CallType == [fn : {"none", "malloc", "valloc", "realloc"}, size : Nat,
             fence : BOOLEAN, old : Pointers, need : Nat, mem : Nat, bounds : Int]

TypeOK ==
  /\ iter \in 0 .. MaxIter
  /\ debug \in SUBSET DebugFlags
  /\ slot \in [Addr -> SlotType]
  /\ used \in SUBSET Addr
  /\ free_list \in [SizeClasses -> Seq(Addr)]
  /\ wait_list \in Seq(Addr)
  /\ entry_free \in [Levels -> Nat]
  /\ heap_high \in Nat
  /\ stats \in StatsType
  /\ pc \in {"idle", "reuse", "carve", "retake", "insert", "replace"}
  /\ call \in CallType
  /\ result \in Results
  /\ damage \in [Addr -> SUBSET Parts]
  /\ handed \in [Addr -> Nat]

(* Every chunk is on the list its flags name and on no other, and once:     *)
(* insert_slot, remove_slot and the wait list's links agree with sa_flags   *)
(* in the middle of a call too.                                             *)
OneKind == \A a \in Slots : \E kind \in {"USER", "FREE", "ADMIN"} :
                               slot[a].flags \cap {"USER", "FREE", "ADMIN"} = {kind}
UsedAgrees == used = {a \in Slots : ~Is("FREE", a)}
WaitAgrees ==
  /\ \A a \in Waiting : Is("FREE", a)
  /\ IsInjective(wait_list)
FreeAgrees ==
  \A n \in SizeClasses :
    /\ IsInjective(free_list[n])
    /\ \A a \in Range(free_list[n]) :
         Is("FREE", a) /\ slot[a].size = n /\ a \notin Waiting
ListsAgree == OneKind /\ UsedAgrees /\ WaitAgrees /\ FreeAgrees

(* What a call has worked out by the time it is at pc: its size, and where  *)
(* the block lies that it is cutting up or about to insert.                 *)
CallOK ==
  /\ pc # "idle" => call.need > 0
  /\ pc = "carve" => Divided(call.need) /\ call.mem <= call.bounds
  /\ pc = "insert" => call.mem = call.bounds
  /\ pc = "replace" => call.fn = "realloc"
  /\ pc \in {"carve", "insert"} => /\ BLOCK_SIZE <= call.mem
                                   /\ call.bounds + call.need <= heap_high
                                   /\ heap_high <= HeapEnd

(* While realloc makes its copy the old chunk stays with the program.       *)
OldHeld == pc # "idle" /\ call.fn = "realloc" =>
           \E a \in UserChunks : Contains(a, call.old)

(* What is on the free list was never handed out or has waited long enough. *)
FreeRested ==
  \A n \in SizeClasses : \A a \in Range(free_list[n]) :
    slot[a].seen = 0 \/ slot[a].iter + FREED_POINTER_DELAY <= iter

(* get_divided_memory: after a block was cut up the second look at the free *)
(* list finds a piece, so "huh?  This isn't right." is never reached.       *)
RetakeFindsPiece == pc = "retake" => Available(call.need) /\ ~HeadDue

(* While the program never asks for NEVER_REUSE, no free chunk falls off    *)
(* the lists: the memory a call returned, or has just cut up, can always be *)
(* handed out.                                                              *)
NothingLost ==
  /\ (\A s \in Settings : "NEVER_REUSE" \notin s) =>
       \A a \in Slots : Is("FREE", a) => a \in FreeListed \cup Waiting
  /\ RetakeFindsPiece

(* No two chunks share a byte, nor does a chunk share one with the memory   *)
(* that a call under way is cutting up, and all of them are in the heap.    *)
ChunksApart == \A a, b \in Slots : a < b => a + slot[a].size <= b
CutApart == pc \in {"carve", "insert"} =>
            \A a \in Slots : \/ a + slot[a].size <= call.mem
                             \/ call.bounds + call.need <= a
ChunksInHeap == \A a \in Slots : slot[a].size > 0 /\ a + slot[a].size <= heap_high
NoOverlap == ChunksApart /\ CutApart /\ ChunksInHeap

(* The inductive invariant behind the safety properties above.              *)
IInv == /\ TypeOK /\ CallOK /\ NoOverlap /\ ListsAgree /\ OldHeld
        /\ FreeRested /\ BLOCK_SIZE <= heap_high

(* The size a call takes has room for the user's bytes and the fence posts, *)
(* is a size the heap has chunks of, and was within the limits.             *)
Rounded(n) == Divided(n) \/ n % BLOCK_SIZE = 0
CallFits ==
  pc # "idle" =>
    /\ iter > 0
    /\ call.size <= LARGEST_ALLOCATION
    /\ call.size + UserOffset(UserFlags) + FenceTop(UserFlags) <= call.need
    /\ Rounded(call.need)
    /\ call.fn = "valloc" => ~Divided(call.need) /\ "valloc" \in MallocFns
    /\ MemoryLimit > 0 /\ pc # "replace" =>
         stats.cur_given + call.need < MemoryLimit + BLOCK_SIZE

(* Chunks of whole blocks lie on block boundaries, as the heap's end does.  *)
OnBlocks ==
  /\ heap_high % BLOCK_SIZE = 0
  /\ pc = "insert" => ~Divided(call.need) /\ call.mem % BLOCK_SIZE = 0
  /\ \A a \in Slots :
       /\ Rounded(slot[a].size)
       /\ Divided(slot[a].size) \/ a % BLOCK_SIZE = 0
       /\ Is("VALLOC", a) => ~Divided(slot[a].size) /\ "valloc" \in MallocFns

(* A chunk is used, and seen, once or twice a call at the most; its bytes   *)
(* stay where they were handed out for as long as it rests.                 *)
SeenInTime ==
  \A a \in Slots :
    /\ slot[a].iter <= iter
    /\ slot[a].seen <= 2 * slot[a].iter + (IF Is("USER", a) THEN 0 ELSE 1)
    /\ Is("USER", a) => slot[a].seen > 0
    /\ slot[a].seen > 0 => /\ Contains(a, handed[a])
                           /\ handed[a] + slot[a].usize <= a + slot[a].size

(* Damage is to bytes the library will look at.                             *)
DamageWatched == \A a \in Addr : damage[a] \subseteq WatchedParts(a)

(* What the program was given lies within the chunk and between its fence   *)
(* posts (get_pnt_info).                                                    *)
UserFits ==
  \A a \in UserChunks : /\ UserStart(a) + slot[a].usize <= UpperBounds(a)
                        /\ handed[a] = UserStart(a)

(* What a call knows of the memory it works for, and the slots that earlier *)
(* calls have left: inductive together with IInv.                           *)
CInv == IInv /\ CallFits /\ OnBlocks /\ SeenInTime /\ DamageWatched /\ UserFits
        /\ debug \in Settings

(* The counters are the sums they stand for in every state, whichever way   *)
(* the calls in between ended.                                              *)
ChunkSize == [a \in Addr |-> slot[a].size]
UserSize == [a \in Addr |-> slot[a].usize]
FreeChunks == {a \in Slots : Is("FREE", a)}
Accounting ==
  /\ stats.cur_pnts = Cardinality(UserChunks)
  /\ stats.current = SumFunctionOnSet(UserSize, UserChunks)
  /\ stats.cur_given = SumFunctionOnSet(ChunkSize, UserChunks)
  /\ stats.free_space = SumFunctionOnSet(ChunkSize, FreeChunks)

(* _dmalloc_chunk_get_stats reports blocks * BLOCK_SIZE as the space of the *)
(* library, current + free_space as the program's: no block goes uncounted  *)
(* and the second is within the first.                                      *)
BlocksAccounted ==
  LET total_space == (stats.user_blocks + stats.admin_blocks) * BLOCK_SIZE IN
  /\ heap_high = BLOCK_SIZE + total_space
  /\ stats.current + stats.free_space <= total_space

(* The maxima are maxima of what they are printed beside (log_stats).       *)
MaximaOrdered ==
  /\ stats.one_max <= stats.maximum /\ stats.maximum <= stats.total
  /\ stats.maximum <= stats.max_given
  /\ stats.cur_pnts <= stats.max_pnts /\ stats.max_pnts <= stats.tot_pnts

(* What log_stats and get_stats print adds up, in every state.              *)
Counters == Accounting /\ BlocksAccounted /\ MaximaOrdered

(* check_used_slot never rejects a chunk the program has left intact: every *)
(* field it looks at is kept in range by the calls that write it.           *)
NoFalseAlarm == \A a \in UserChunks : damage[a] = {} => SlotError(a, iter) = "ok"

(* get_memory checks the limit before it rounds a size up: the memory that  *)
(* is given stays less than a block over it.                                *)
LimitRounded == MemoryLimit > 0 => stats.cur_given < MemoryLimit + BLOCK_SIZE

(* count_changed counts all of the memory that has changed since a mark, on *)
(* whichever list it is by now.  (With an empty free list its pass ends     *)
(* before the wait list, and with NEVER_REUSE a freed chunk is on no list.) *)
Changed(mark) == {a \in Slots : slot[a].iter > mark /\ ~Is("ADMIN", a)}
CountChanged(mark, not_freed, freed) ==
  SumFunctionOnSet(UserSize, {a \in Visited \cap Changed(mark) :
                                \/ not_freed /\ Is("USER", a)
                                \/ freed /\ Is("FREE", a)})
FreedCounted ==
  FreeListed # {} => \A mark \in 0 .. iter :
    CountChanged(mark, TRUE, TRUE) = SumFunctionOnSet(UserSize, Changed(mark))

(* A freed chunk is not handed out again before FREED_POINTER_DELAY calls.  *)
Reused(a) == Is("FREE", a) /\ slot[a].seen > 0 /\ "USER" \in slot'[a].flags
ReuseDelayed ==
  [][\A a \in Addr : Reused(a) => iter' >= slot[a].iter + FREED_POINTER_DELAY]_vars

(* With NEVER_REUSE set no memory that was used and freed is handed out.    *)
NeverReuse == [][\A a \in Addr : Reused(a) => "NEVER_REUSE" \notin debug]_vars

(* Bytes of a used chunk that were overwritten stay seen: no call takes the *)
(* chunk off the used list, and none writes over the evidence but a realloc *)
(* of that very chunk that stays in place, which the settings may forbid.   *)
MayResize == debug \cap {"REALLOC_COPY", "NEVER_REUSE"} = {}
Resized(a) == MayResize /\ "USER" \in slot'[a].flags /\ slot[a].iter < slot'[a].iter
DamageKept ==
  [][\A a \in UserChunks : damage[a] # {} =>
       a \in used' /\ (damage[a] \subseteq damage'[a] \/ Resized(a))]_vars

(* dmalloc_verify fails exactly when the program has written over a chunk   *)
(* that is in use or, as long as anything is on the size lists, over one    *)
(* that was freed and is on them or still waiting: no damage there is       *)
(* missed and nothing else rejected, whatever calls the chunks went through.*)
VerifyTrue ==
  [][VerifyHeap =>
       (result' = "HEAP_BAD" <=>
          \E a \in Damaged : \/ Is("USER", a)
                             \/ FreeListed # {} /\ a \in FreeListed \cup Waiting)]_vars

(* Freeing again a pointer that is waiting is told as what it is.           *)
DoubleFreeReported ==
  [][\A a \in Waiting : FreeCall(handed[a]) => result' = "ALREADY_FREE"]_vars

(* A call that has entered the library comes back.                          *)
CallsReturn == (pc # "idle") ~> (pc = "idle")
=============================================================================
