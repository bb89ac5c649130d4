--------------------- MODULE ChunkHeapRefinement_proofs ---------------------
(***************************************************************************)
(* The proof that the chunk layer implements the abstract allocator, for   *)
(* every geometry of the heap and every sequence of calls.  The program    *)
(* owns, of each used chunk, the range that starts at the pointer it was   *)
(* last handed; the steps of a call's loops are stuttering steps.          *)
(***************************************************************************)
EXTENDS ChunkHeapRefinement, ChunkHeapLists_proofs

(* The size a call was made with, and the bound on the addresses.           *)
SizeAsked == pc # "idle" => call.size \in Sizes
HeapWithin == heap_high = BLOCK_SIZE \/ heap_high <= HeapEnd

LEMMA SizeAskedStep ==
  ASSUME CInv, SizeAsked, [Next]_vars
  PROVE  SizeAsked'
<1>1. IInv /\ call \in CallType
  BY DEF CInv, IInv, TypeOK
<1>2. ASSUME pc' = "idle" PROVE SizeAsked'
  BY <1>2 DEF SizeAsked
<1>3. ASSUME pc # "idle", call'.size = call.size PROVE SizeAsked'
  BY <1>3 DEF SizeAsked
<1>4. ASSUME UNCHANGED <<pc, call>> PROVE SizeAsked'
  BY <1>4 DEF SizeAsked
<1>5. CASE TakeFree
  BY <1>2, <1>3, <1>5 DEF TakeFree, HandOut, Returns
<1>6. CASE InsertBlocks
  BY <1>2, <1>3, <1>6 DEF InsertBlocks, HandOut, Returns
<1>7. CASE CarvePiece
  BY <1>1, <1>3, <1>7 DEF CarvePiece, CallType
<1>8. CASE GrowHeap
  BY <1>1, <1>3, <1>8 DEF GrowHeap, CallType
<1>9. CASE DrainOne
  BY <1>4, <1>9 DEF DrainOne
<1>10. CASE Quiet
  BY <1>2, <1>4, <1>10 DEF Quiet
<1>11. ASSUME NEW a, Frees(a) PROVE SizeAsked'
  BY <1>2, <1>11 DEF Frees, Returns
<1>12. ASSUME NEW a, NEW size, Resizes(a, size) PROVE SizeAsked'
  BY <1>2, <1>12 DEF Resizes, Returns
<1>13. ASSUME NEW a, NEW part, Scribble(a, part) PROVE SizeAsked'
  BY <1>4, <1>13 DEF Scribble
<1>14. ASSUME NEW fn, NEW size \in Sizes, NEW old, Begins(fn, size, old) PROVE SizeAsked'
  <2>1. \/ pc' = "idle"
        \/ call' = [NoCall EXCEPT !.fn = fn, !.size = size, !.old = old,
                                  !.fence = "FENCE" \in debug,
                                  !.need = RoundUp(NeededSize(fn, size))]
    BY <1>14 DEF Begins, BeginMalloc, Returns
  <2>2. pc' = "idle" \/ call'.size = size
    BY <2>1 DEF NoCall
  <2> QED BY <1>2, <2>2 DEF SizeAsked
<1>15. UNCHANGED vars => SizeAsked'
  BY <1>4 DEF vars
<1>16. Step => SizeAsked'
  BY <1>1, <1>5, <1>6, <1>7, <1>8, <1>9, <1>10, <1>11, StepKinds
<1>17. Program => SizeAsked'
  BY <1>1, <1>10, <1>11, <1>12, <1>13, <1>14, ProgramKinds
<1> QED BY <1>15, <1>16, <1>17 DEF Next

LEMMA HeapWithinStep ==
  ASSUME CInv, HeapWithin, [Next]_vars
  PROVE  HeapWithin'
<1>1. /\ heap_high \in Nat /\ BLOCK_SIZE \in Nat /\ BLOCK_SIZE > 0 /\ HeapEnd \in Nat
      /\ call.need \in Nat /\ pc \in {"carve", "insert"} => heap_high <= HeapEnd
  BY GeometryAssumption DEF CInv, IInv, TypeOK, CallType, CallOK
<1>2. heap_high' = heap_high => HeapWithin'
  BY DEF HeapWithin
<1>3. ASSUME pc \in {"carve", "insert"}, NEW s, NEW level, NEW st, Insert(call.mem, s, level, st)
      PROVE  HeapWithin'
  BY <1>1, <1>3 DEF Insert, HeapWithin
<1>4. CASE CarvePiece
  BY <1>3, <1>4 DEF CarvePiece
<1>5. CASE InsertBlocks
  BY <1>3, <1>5 DEF InsertBlocks
<1>6. CASE GrowHeap
  <2>1. PICK grown : heap_high' = heap_high + grown /\ heap_high + grown <= HeapEnd
    BY <1>6 DEF GrowHeap
  <2> QED BY <2>1 DEF HeapWithin
<1>7. CASE TakeFree \/ DrainOne \/ Rests
  BY <1>2, <1>7 DEF TakeFree, DrainOne, Rests, heap
<1>8. ASSUME NEW a, Frees(a) PROVE HeapWithin'
  BY <1>2, <1>8 DEF Frees, Release
<1>9. ASSUME NEW a, NEW size, Resizes(a, size) PROVE HeapWithin'
  BY <1>2, <1>9 DEF Resizes, Resize
<1>10. ASSUME NEW a, NEW part, Scribble(a, part) PROVE HeapWithin'
  BY <1>2, <1>10 DEF Scribble
<1> QED BY <1>4, <1>5, <1>6, <1>7, <1>8, <1>9, <1>10, NextKinds

-----------------------------------------------------------------------------
(* The ranges of the abstract allocator. *)

(* The range of the chunk at a, as the program owns it and as it rests.     *)
Given(a) == [lo |-> handed[a], len |-> slot[a].usize]
Left(a) == [lo |-> handed[a], len |-> slot[a].usize, when |-> slot[a].iter]
FreedChunks == {c \in Slots : Is("FREE", c) /\ slot[c].seen > 0}

Mapped == /\ live = {Given(a) : a \in UserChunks}
          /\ resting = {Left(a) : a \in FreedChunks}
          /\ \A a \in UserChunks : a \in Slots /\ slot[a].seen > 0
          /\ \A a \in FreedChunks : a \in Slots /\ slot[a].seen > 0

(* Chunks that were handed out keep to their own bytes.                     *)
OwnBytes ==
  \A a, b \in Slots :
    a # b /\ slot[a].seen > 0 /\ slot[b].seen > 0 => Abstract!Apart(Given(a), Given(b))
InAddr == \A a \in Slots : slot[a].seen > 0 => handed[a] \in Addr

LEMMA RangesApart ==
  ASSUME NEW a \in Int, NEW m \in Int, NEW b \in Int, NEW n \in Int,
         NEW lo \in Int, NEW len \in Int, NEW at \in Int, NEW size \in Int,
         a <= lo, lo < a + m, lo + len <= a + m,
         b <= at, at < b + n, at + size <= b + n,
         a + m <= b \/ b + n <= a
  PROVE  lo # at /\ (lo .. lo + len - 1) \cap (at .. at + size - 1) = {}
OBVIOUS

LEMMA SlotInts ==
  ASSUME CInv, NEW a \in Slots
  PROVE  /\ a \in Int /\ a \in Addr /\ slot[a].size \in Int /\ slot[a].usize \in Int
         /\ slot[a].iter \in Int /\ slot[a].seen \in Int
         /\ handed[a] \in Int /\ slot[a].size > 0
         /\ a + slot[a].size <= heap_high /\ heap_high \in Int
<1>1. /\ a \in Addr /\ slot[a] \in SlotType /\ handed[a] \in Nat /\ heap_high \in Nat
      /\ slot[a].size > 0 /\ a + slot[a].size <= heap_high
  BY OnLists DEF CInv, IInv, TypeOK, NoOverlap, ChunksInHeap
<1> QED BY <1>1, GeometryAssumption DEF SlotType, Addr

LEMMA BytesOwned == CInv => OwnBytes
<1> SUFFICES ASSUME CInv, NEW a \in Slots, NEW b \in Slots, a # b,
                    slot[a].seen > 0, slot[b].seen > 0
             PROVE  Abstract!Apart(Given(a), Given(b))
  BY DEF OwnBytes
<1>1. /\ a \in Int /\ slot[a].size \in Int /\ slot[a].usize \in Int /\ handed[a] \in Int
      /\ b \in Int /\ slot[b].size \in Int /\ slot[b].usize \in Int /\ handed[b] \in Int
  BY SlotInts
<1>2. /\ a <= handed[a] /\ handed[a] < a + slot[a].size
      /\ handed[a] + slot[a].usize <= a + slot[a].size
      /\ b <= handed[b] /\ handed[b] < b + slot[b].size
      /\ handed[b] + slot[b].usize <= b + slot[b].size
  BY DEF CInv, SeenInTime, Contains
<1>3. a < b => a + slot[a].size <= b
  BY DEF CInv, IInv, NoOverlap, ChunksApart
<1>4. b < a => b + slot[b].size <= a
  BY DEF CInv, IInv, NoOverlap, ChunksApart
<1>5. a + slot[a].size <= b \/ b + slot[b].size <= a
  BY <1>1, <1>3, <1>4
<1>6. /\ handed[a] # handed[b]
      /\ (handed[a] .. handed[a] + slot[a].usize - 1)
           \cap (handed[b] .. handed[b] + slot[b].usize - 1) = {}
  BY <1>1, <1>2, <1>5, RangesApart
<1> QED BY <1>6 DEF Abstract!Apart, Abstract!Bytes, Given

LEMMA StatesMapped == CInv => Mapped
<1> SUFFICES ASSUME CInv PROVE Mapped
  OBVIOUS
<1>1. \A a \in UserChunks : a \in Slots /\ handed[a] = UserStart(a) /\ slot[a].seen > 0
  BY UserChunksAre DEF CInv, UserFits, SeenInTime
<1>2. live = {Given(a) : a \in UserChunks}
  BY <1>1 DEF live, Given
<1>3. resting = {Left(a) : a \in FreedChunks}
  BY DEF resting, Left, FreedChunks
<1> QED BY <1>1, <1>2, <1>3 DEF Mapped, FreedChunks

LEMMA StartsAreAddr == CInv /\ HeapWithin => InAddr
<1> SUFFICES ASSUME CInv, HeapWithin, NEW a \in Slots, slot[a].seen > 0
             PROVE  handed[a] \in Addr
  BY DEF InAddr
<1>1. /\ a \in Int /\ a \in Addr /\ slot[a].size \in Int /\ handed[a] \in Int
      /\ a + slot[a].size <= heap_high /\ heap_high \in Int /\ slot[a].size > 0
  BY SlotInts
<1>2. a <= handed[a] /\ handed[a] < a + slot[a].size
  BY DEF CInv, SeenInTime, Contains
<1>3. BLOCK_SIZE <= a /\ BLOCK_SIZE \in Int /\ HeapEnd \in Int
  BY <1>1, GeometryAssumption DEF Addr
<1>4. heap_high <= HeapEnd
  BY <1>1, <1>3 DEF HeapWithin
<1> QED BY <1>1, <1>2, <1>3, <1>4 DEF Addr

(* What holds of the states before and after a step.                        *)
StepOK == /\ CInv /\ Mapped /\ OwnBytes /\ InAddr /\ SizeAsked
          /\ CInv' /\ Mapped' /\ OwnBytes' /\ InAddr' /\ [Next]_vars

(* Memory is handed out: of a free chunk that has rested, or a new one.     *)
HandsOut(a, len, admin) ==
  /\ Slots' = Slots \cup {a} \cup admin /\ admin \cap Slots = {} /\ a \notin admin
  /\ \A b \in admin : slot'[b].flags = {"ADMIN"}
  /\ \A b \in Slots \ {a} : slot'[b] = slot[b] /\ handed'[b] = handed[b]
  /\ slot'[a].flags \cap {"USER", "FREE", "ADMIN"} = {"USER"} /\ slot'[a].usize = len
  /\ a \in Slots => /\ Is("FREE", a)
                    /\ slot[a].seen = 0 \/ slot[a].iter + FREED_POINTER_DELAY <= iter
  /\ iter' = iter

LEMMA HandsOutImplements ==
  ASSUME StepOK, NEW a, NEW len \in Sizes, NEW admin, HandsOut(a, len, admin)
  PROVE  Abstract!Next
<1>1. /\ UserChunks' = UserChunks \cup {a} /\ a \notin UserChunks
      /\ FreedChunks' = FreedChunks \ {a} /\ a \in Slots'
  <2>1. /\ UserChunks' = {b \in Slots' : "USER" \in slot'[b].flags}
        /\ UserChunks = {b \in Slots : Is("USER", b)}
        /\ \A b \in Slots : ~(Is("USER", b) /\ Is("FREE", b))
    BY KindsNext DEF StepOK
  <2>2. /\ a \in Slots' /\ "USER" \in slot'[a].flags /\ "FREE" \notin slot'[a].flags
        /\ a \in Slots => Is("FREE", a)
    BY DEF HandsOut
  <2>3. /\ \A b \in Slots' : b \in Slots \/ b = a \/ b \in admin
        /\ \A b \in admin : "USER" \notin slot'[b].flags /\ "FREE" \notin slot'[b].flags
        /\ \A b \in Slots \ {a} : b \in Slots' /\ slot'[b] = slot[b]
    BY DEF HandsOut
  <2>4. UserChunks' = UserChunks \cup {a} /\ a \notin UserChunks
    BY <2>1, <2>2, <2>3 DEF Is
  <2>5. FreedChunks' = FreedChunks \ {a}
    BY <2>2, <2>3 DEF FreedChunks, Is
  <2> QED BY <2>2, <2>4, <2>5
<1>2. \A b \in Slots \ {a} : /\ Given(b)' = Given(b) /\ Left(b)' = Left(b)
                             /\ slot'[b] = slot[b] /\ b \in Slots'
  BY DEF HandsOut, Given, Left
<1>3. PICK r : r = Given(a)'
  OBVIOUS
<1>4. r = [lo |-> handed'[a], len |-> len]
  BY <1>3 DEF Given, HandsOut
<1>5. live' = live \cup {r}
  <2>1. live' = {Given(b)' : b \in UserChunks'} /\ live = {Given(b) : b \in UserChunks}
        /\ \A b \in UserChunks : b \in Slots
    BY DEF StepOK, Mapped
  <2> QED BY <1>1, <1>2, <1>3, <2>1
<1>6. /\ resting = {Left(b) : b \in FreedChunks} /\ resting' = {Left(b) : b \in FreedChunks \ {a}}
  <2>1. /\ resting' = {Left(b)' : b \in FreedChunks'} /\ resting = {Left(b) : b \in FreedChunks}
        /\ \A b \in FreedChunks : b \in Slots
    BY DEF StepOK, Mapped
  <2> QED BY <1>1, <1>2, <2>1
<1>7. a \in Slots' /\ slot'[a].seen > 0 /\ handed'[a] \in Addr
  BY <1>1 DEF StepOK, Mapped, InAddr
<1>8. ASSUME NEW b \in Slots \ {a}, slot[b].seen > 0
      PROVE  Abstract!Apart(r, Given(b))
  <2>1. b \in Slots' /\ slot'[b].seen > 0 /\ b # a
    BY <1>2, <1>8
  <2>2. Abstract!Apart(Given(a)', Given(b)')
    BY <1>7, <2>1 DEF StepOK, OwnBytes, Abstract!Apart, Abstract!Bytes
  <2> QED BY <1>2, <1>3, <2>2
<1>9. ASSUME NEW s \in live PROVE Abstract!Apart(r, s)
  <2>1. PICK b \in UserChunks : s = Given(b)
    BY <1>9 DEF StepOK, Mapped
  <2>2. b \in Slots \ {a} /\ slot[b].seen > 0
    BY <1>1 DEF StepOK, Mapped
  <2> QED BY <1>8, <2>1, <2>2
<1>10. ASSUME NEW b \in FreedChunks \ {a}
       PROVE  Abstract!Bytes(r) \cap Abstract!Bytes(Left(b)) = {}
  <2>1. b \in Slots \ {a} /\ slot[b].seen > 0
    BY DEF StepOK, Mapped
  <2> QED BY <1>8, <2>1 DEF Abstract!Apart, Abstract!Bytes, Given, Left
<1>11. ASSUME a \in FreedChunks PROVE Abstract!Rested(Left(a))
  <2>1. a \in Slots /\ slot[a].seen > 0
    BY <1>11 DEF StepOK, Mapped
  <2>2. slot[a].iter + FREED_POINTER_DELAY <= iter
    BY <2>1 DEF HandsOut
  <2> QED BY <2>2 DEF Abstract!Rested, Left
<1>12. Abstract!MayOwn(r)
  BY <1>6, <1>9, <1>10, <1>11 DEF Abstract!MayOwn
<1>13. Abstract!Alloc(r)
  BY <1>5, <1>6, <1>10, <1>11, <1>12 DEF Abstract!Alloc, HandsOut
<1> QED BY <1>4, <1>7, <1>13 DEF Abstract!Next

LEMMA TakeHandsOut ==
  ASSUME StepOK, TakeFree
  PROVE  HandsOut(Head(free_list[call.need]), call.size, {}) /\ call.size \in Sizes
<1>1. IInv /\ pc # "idle"
  BY DEF StepOK, CInv, TakeFree
<1>2. PICK a : a = Head(free_list[call.need])
  OBVIOUS
<1>3. /\ call.need \in SizeClasses /\ a \in Range(free_list[call.need])
      /\ a \in Slots /\ Is("FREE", a) /\ slot[a] \in SlotType
      /\ slot'[a] = UserSlot(slot[a]) /\ Slots' = Slots /\ iter' = iter
      /\ \A b \in Addr \ {a} : slot'[b] = slot[b] /\ handed'[b] = handed[b]
  BY <1>1, <1>2, TakeFacts
<1>4. slot[a].seen = 0 \/ slot[a].iter + FREED_POINTER_DELAY <= iter
  BY <1>1, <1>3 DEF IInv, FreeRested
<1>5. slot'[a].flags \cap {"USER", "FREE", "ADMIN"} = {"USER"}
  BY <1>1, <1>3, UserSlotType
<1>6. slot'[a].usize = call.size
  BY <1>3 DEF UserSlot, SlotType
<1>7. \A b \in Slots \ {a} : slot'[b] = slot[b] /\ handed'[b] = handed[b]
  BY <1>3 DEF Slots
<1>8. call.size \in Sizes
  BY <1>1 DEF StepOK, SizeAsked
<1> QED BY <1>2, <1>3, <1>4, <1>5, <1>6, <1>7, <1>8 DEF HandsOut

LEMMA InsertHandsOut ==
  ASSUME StepOK, InsertBlocks
  PROVE  (\E admin : HandsOut(call.mem, call.size, admin)) /\ call.size \in Sizes
<1>1. IInv /\ pc = "insert"
  BY DEF StepOK, CInv, InsertBlocks
<1>2. PICK admin : Inserted(UserSlot(FreshPiece(call.need)),
                            Allocated(stats, call.need), "USER", admin)
  BY <1>1, InsertFacts
<1>3. PICK s : s = FreshPiece(call.need)
  OBVIOUS
<1>4. s \in SlotType /\ slot'[call.mem] = UserSlot(s)
  <2>1. call.need \in 0 .. HeapEnd
    BY <1>1, NeedIsSize
  <2> QED BY <1>2, <1>3, <2>1, PieceType DEF Inserted
<1>5. slot'[call.mem].flags \cap {"USER", "FREE", "ADMIN"} = {"USER"}
  BY <1>1, <1>4, UserSlotType
<1>6. slot'[call.mem].usize = call.size
  BY <1>4 DEF UserSlot, SlotType
<1>7. /\ \A b \in Slots : slot'[b] = slot[b]
      /\ Slots' = Slots \cup {call.mem} \cup admin
      /\ admin \cap Slots = {} /\ call.mem \notin admin /\ call.mem \notin Slots
      /\ \A b \in admin : slot'[b].flags = {"ADMIN"}
  BY <1>2, InsertedSlots DEF Inserted
<1>8. handed' = [handed EXCEPT ![call.mem] = call.mem + UserOffset(UserFlags)] /\ iter' = iter
  BY <1>1, InsertFacts
<1>9. \A b \in Slots \ {call.mem} : handed'[b] = handed[b]
  BY <1>1, <1>8 DEF IInv, TypeOK, Slots
<1>10. call.size \in Sizes
  BY <1>1 DEF StepOK, SizeAsked
<1> QED BY <1>5, <1>6, <1>7, <1>8, <1>9, <1>10 DEF HandsOut

LEMMA FreesImplements ==
  ASSUME StepOK, NEW a \in UserChunks, Frees(a)
  PROVE  Abstract!Next
<1>1. /\ a \in Slots /\ a \in Addr /\ Slots' = Slots /\ handed' = handed
      /\ slot'[a].iter = iter' /\ slot'[a].seen = slot[a].seen + 1
      /\ slot'[a].usize = slot[a].usize /\ ~Is("FREE", a)
      /\ \A b \in Addr \ {a} : slot'[b] = slot[b]
      /\ iter' \in {iter, iter + 1} /\ ~Is("USER", a)' /\ Is("FREE", a)'
  BY FreesFacts DEF StepOK, CInv
<1>2. \A b \in Slots \ {a} : /\ Given(b)' = Given(b) /\ Left(b)' = Left(b)
                             /\ slot'[b] = slot[b]
  BY <1>1 DEF Given, Left, Slots
<1>3. slot'[a].seen > 0
  <2>1. slot[a].seen \in Int /\ slot[a].seen > 0
    BY <1>1, SlotInts DEF StepOK, Mapped
  <2> QED BY <1>1, <2>1
<1>4. /\ UserChunks' = UserChunks \ {a}
      /\ FreedChunks' = FreedChunks \cup {a} /\ a \notin FreedChunks
  <2>1. /\ UserChunks' = {b \in Slots' : "USER" \in slot'[b].flags}
        /\ UserChunks = {b \in Slots : Is("USER", b)}
    BY KindsNext DEF StepOK
  <2>2. UserChunks' = UserChunks \ {a}
    BY <1>1, <1>2, <2>1 DEF Is
  <2>3. FreedChunks' = FreedChunks \cup {a} /\ a \notin FreedChunks
    BY <1>1, <1>2, <1>3 DEF FreedChunks, Is
  <2> QED BY <2>2, <2>3
<1>5. PICK r : r = Given(a)
  OBVIOUS
<1>6. ASSUME NEW b \in UserChunks \ {a} PROVE Given(b) # r
  <2>1. /\ b \in Slots /\ slot[b].seen > 0 /\ slot[a].seen > 0 /\ a # b
    BY DEF StepOK, Mapped
  <2>2. Abstract!Apart(Given(a), Given(b))
    BY <1>1, <2>1 DEF StepOK, OwnBytes
  <2> QED BY <1>5, <2>2 DEF Abstract!Apart
<1>7. r \in live /\ live' = live \ {r}
  <2>1. live' = {Given(b)' : b \in UserChunks'} /\ live = {Given(b) : b \in UserChunks}
        /\ \A b \in UserChunks : b \in Slots
    BY DEF StepOK, Mapped
  <2>2. live' = {Given(b) : b \in UserChunks \ {a}}
    BY <1>2, <1>4, <2>1
  <2> QED BY <1>5, <1>6, <2>1, <2>2
<1>8. Left(a)' = [lo |-> r.lo, len |-> r.len, when |-> iter']
  BY <1>1, <1>5 DEF Left, Given
<1>9. resting' = resting \cup {[lo |-> r.lo, len |-> r.len, when |-> iter']}
  <2>1. /\ resting' = {Left(b)' : b \in FreedChunks'} /\ resting = {Left(b) : b \in FreedChunks}
        /\ \A b \in FreedChunks : b \in Slots
    BY DEF StepOK, Mapped
  <2> QED BY <1>2, <1>4, <1>8, <2>1
<1> QED BY <1>1, <1>7, <1>9 DEF Abstract!Free, Abstract!Next

LEMMA ResizesImplements ==
  ASSUME StepOK, NEW a \in UserChunks, NEW size \in Sizes, Resizes(a, size)
  PROVE  Abstract!Next
<1>1. /\ a \in Slots /\ a \in Addr /\ Slots' = Slots /\ handed' = handed
      /\ slot'[a].usize = size /\ iter' = iter + 1
      /\ \A b \in Addr \ {a} : slot'[b] = slot[b]
      /\ \A f \in SlotFlags : f # "BLANK" => (Is(f, a)' <=> Is(f, a))
  <2>1. size \in Nat
    BY ParameterAssumption
  <2> QED BY <2>1, ResizesFacts DEF StepOK, CInv
<1>2. \A b \in Slots \ {a} : /\ Given(b)' = Given(b) /\ Left(b)' = Left(b)
                             /\ slot'[b] = slot[b] /\ slot'[b].seen = slot[b].seen
  BY <1>1 DEF Given, Left, Slots
<1>3. UserChunks' = UserChunks /\ FreedChunks' = FreedChunks /\ a \notin FreedChunks
  <2>1. /\ UserChunks' = {b \in Slots' : "USER" \in slot'[b].flags}
        /\ UserChunks = {b \in Slots : Is("USER", b)}
        /\ \A b \in Slots : ~(Is("USER", b) /\ Is("FREE", b))
    BY KindsNext DEF StepOK
  <2>2. \A f \in {"USER", "FREE"} : f \in slot'[a].flags <=> Is(f, a)
    BY <1>1 DEF SlotFlags, Is
  <2>3. UserChunks' = UserChunks
    BY <1>1, <1>2, <2>1, <2>2 DEF Is
  <2>4. FreedChunks' = FreedChunks /\ a \notin FreedChunks
    BY <1>1, <1>2, <2>1, <2>2 DEF FreedChunks, Is
  <2> QED BY <2>3, <2>4
<1>4. PICK r : r = Given(a)
  OBVIOUS
<1>5. PICK resized : resized = [r EXCEPT !.len = size]
  OBVIOUS
<1>6. resized = Given(a)'
  BY <1>1, <1>4, <1>5 DEF Given
<1>7. \A b \in UserChunks \cup FreedChunks : /\ b \in Slots /\ slot[b].seen > 0
                                             /\ b \in Slots' /\ slot'[b].seen > 0
  BY <1>1, <1>3 DEF StepOK, Mapped
<1>8. ASSUME NEW b \in (UserChunks \cup FreedChunks) \ {a}
      PROVE  Given(b) # r /\ Abstract!Apart(resized, Given(b))
  <2>1. Abstract!Apart(Given(a), Given(b)) /\ Abstract!Apart(Given(a)', Given(b)')
    BY <1>7 DEF StepOK, OwnBytes, Abstract!Apart, Abstract!Bytes
  <2> QED BY <1>2, <1>4, <1>6, <1>7, <2>1 DEF Abstract!Apart
<1>9. r \in live /\ live' = (live \ {r}) \cup {resized}
      /\ \A s \in live \ {r} : Abstract!Apart(resized, s)
  <2>1. live' = {Given(b)' : b \in UserChunks} /\ live = {Given(b) : b \in UserChunks}
    BY <1>3 DEF StepOK, Mapped
  <2>2. live \ {r} = {Given(b) : b \in UserChunks \ {a}}
    BY <1>4, <1>8, <2>1
  <2>3. live' = {Given(b) : b \in UserChunks \ {a}} \cup {resized}
    BY <1>2, <1>6, <1>7, <2>1
  <2> QED BY <1>4, <1>8, <2>1, <2>2, <2>3
<1>10. resting' = resting /\ \A d \in resting : Abstract!Bytes(resized) \cap Abstract!Bytes(d) = {}
  <2>1. resting' = {Left(b)' : b \in FreedChunks} /\ resting = {Left(b) : b \in FreedChunks}
    BY <1>3 DEF StepOK, Mapped
  <2>2. resting' = resting
    BY <1>2, <1>3, <1>7, <2>1
  <2>3. ASSUME NEW b \in FreedChunks
        PROVE  Abstract!Bytes(resized) \cap Abstract!Bytes(Left(b)) = {}
    BY <1>3, <1>8 DEF Abstract!Apart, Abstract!Bytes, Given, Left
  <2> QED BY <2>1, <2>2, <2>3
<1>11. Abstract!Resize(r, size)
  BY <1>1, <1>5, <1>9, <1>10 DEF Abstract!Resize
<1> QED BY <1>9, <1>11 DEF Abstract!Next

(* Everything else leaves both sets of ranges as they are.                  *)
LEMMA OthersImplement ==
  ASSUME StepOK, iter' \in {iter, iter + 1},
         \A b \in Slots : slot'[b] = slot[b] /\ handed'[b] = handed[b],
         NEW new, Slots' = Slots \cup new,
         \A b \in new : "USER" \notin slot'[b].flags /\ slot'[b].seen = 0
  PROVE  Abstract!Next \/ UNCHANGED <<live, resting, iter>>
<1>1. /\ UserChunks' = {b \in Slots' : "USER" \in slot'[b].flags}
      /\ UserChunks = {b \in Slots : Is("USER", b)}
  BY KindsNext DEF StepOK
<1>2. UserChunks' = UserChunks
  BY <1>1 DEF Is
<1>3. FreedChunks' = FreedChunks
  BY DEF FreedChunks, Is
<1>4. \A b \in Slots : Given(b)' = Given(b) /\ Left(b)' = Left(b)
  BY DEF Given, Left
<1>5. /\ live' = {Given(b)' : b \in UserChunks'} /\ live = {Given(b) : b \in UserChunks}
      /\ resting' = {Left(b)' : b \in FreedChunks'} /\ resting = {Left(b) : b \in FreedChunks}
      /\ \A b \in UserChunks \cup FreedChunks : b \in Slots
  BY DEF StepOK, Mapped
<1>6. UNCHANGED <<live, resting>>
  BY <1>2, <1>3, <1>4, <1>5
<1> QED BY <1>6 DEF Abstract!Next, Abstract!Tick

LEMMA StepImplements ==
  ASSUME StepOK
  PROVE  Abstract!Next \/ UNCHANGED <<live, resting, iter>>
<1>1. CInv /\ IInv /\ [Next]_vars
  BY DEF StepOK, CInv
<1>2. ASSUME UNCHANGED <<slot, handed>>, iter' \in {iter, iter + 1}
      PROVE  Abstract!Next \/ UNCHANGED <<live, resting, iter>>
  <2>1. PICK new : new = {}
    OBVIOUS
  <2>2. Slots' = Slots \cup new
    BY <1>2, <2>1 DEF Slots
  <2>3. /\ \A b \in Slots : slot'[b] = slot[b] /\ handed'[b] = handed[b]
        /\ \A b \in new : "USER" \notin slot'[b].flags /\ slot'[b].seen = 0
    BY <1>2, <2>1
  <2>4. iter' \in {iter, iter + 1}
    BY <1>2
  <2> QED BY <2>2, <2>3, <2>4, OthersImplement
<1>3. CASE TakeFree
  BY <1>3, TakeHandsOut, HandsOutImplements
<1>4. CASE InsertBlocks
  BY <1>4, InsertHandsOut, HandsOutImplements
<1>5. CASE CarvePiece
  <2>1. PICK admin : Inserted(FreshPiece(call.need),
                              [stats EXCEPT !.free_space = @ + call.need], "FREE", admin)
    BY <1>1, <1>5, CarveFacts
  <2>2. FreshPiece(call.need).flags = {"FREE"} /\ FreshPiece(call.need).seen = 0
        /\ AdminSlot.flags = {"ADMIN"} /\ AdminSlot.seen = 0
    BY DEF FreshPiece, AdminSlot, NoSlot
  <2>3. /\ \A b \in Slots : slot'[b] = slot[b]
        /\ Slots' = Slots \cup ({call.mem} \cup admin)
        /\ slot'[call.mem] = FreshPiece(call.need) /\ \A b \in admin : slot'[b] = AdminSlot
    <3>1. Slots \subseteq Addr
      BY DEF Slots
    <3> QED BY <2>1, <3>1 DEF Inserted
  <2>4. PICK new : new = {call.mem} \cup admin
    OBVIOUS
  <2>5. \A b \in new : "USER" \notin slot'[b].flags /\ slot'[b].seen = 0
    BY <2>2, <2>3, <2>4
  <2>6. iter' \in {iter, iter + 1} /\ \A b \in Slots : handed'[b] = handed[b]
    BY <1>5 DEF CarvePiece
  <2>7. \A b \in Slots : slot'[b] = slot[b] /\ handed'[b] = handed[b]
    BY <2>3, <2>6
  <2>8. Slots' = Slots \cup new
    BY <2>3, <2>4
  <2> QED BY <2>5, <2>6, <2>7, <2>8, OthersImplement
<1>6. CASE DrainOne \/ GrowHeap \/ Rests
  BY <1>2, <1>6 DEF DrainOne, GrowHeap, Rests, heap
<1>7. ASSUME NEW a, NEW part, Scribble(a, part)
      PROVE  Abstract!Next \/ UNCHANGED <<live, resting, iter>>
  BY <1>2, <1>7 DEF Scribble
<1>8. ASSUME NEW a \in UserChunks, NEW size \in Sizes \ {0}, Resizes(a, size)
      PROVE  Abstract!Next
  BY <1>8, ResizesImplements
<1> QED BY <1>1, <1>3, <1>4, <1>5, <1>6, <1>7, <1>8, FreesImplements, NextKinds

(* The chunk layer implements the abstract allocator: whatever the order    *)
(* of the calls, and however the loops of a call end, _dmalloc_chunk_malloc *)
(* hands out memory that no other pointer owns and that has rested, _free   *)
(* gives it up and an in-place _realloc keeps within what it owns.          *)
THEOREM Implements == Spec => ImplementsAllocator
<1>1. Init => Abstract!Init
  <2> SUFFICES ASSUME Init PROVE Abstract!Init
    OBVIOUS
  <2>1. Slots = {} /\ UserChunks = {} /\ iter = 0
    BY DEF Init, Slots, NoSlot, UserChunks
  <2> QED BY <2>1 DEF Abstract!Init, live, resting
<1>2. Init => SizeAsked /\ HeapWithin
  BY DEF Init, SizeAsked, HeapWithin
<1>3. CInv /\ SizeAsked /\ HeapWithin /\ [Next]_vars => SizeAsked' /\ HeapWithin'
  BY SizeAskedStep, HeapWithinStep
<1>4. CInv /\ HeapWithin => Mapped /\ OwnBytes /\ InAddr
  BY StatesMapped, BytesOwned, StartsAreAddr
<1>5. (CInv /\ HeapWithin => Mapped /\ OwnBytes /\ InAddr)'
  BY <1>4, PTL
<1>6. CInv /\ CInv' /\ SizeAsked /\ HeapWithin /\ HeapWithin' /\ [Next]_vars
        => [Abstract!Next]_<<live, resting, iter>>
  BY <1>4, <1>5, StepImplements DEF StepOK
<1> QED BY <1>1, <1>2, <1>3, <1>6, CallInvariance, PTL
        DEF Spec, ImplementsAllocator, Abstract!Spec
=============================================================================
