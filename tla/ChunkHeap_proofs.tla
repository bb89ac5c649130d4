-------------------------- MODULE ChunkHeap_proofs --------------------------
(***************************************************************************)
(* Proofs about the chunk layer for every geometry, delay and bound: the   *)
(* chunks and the room they have, and what the calls keep: the place of    *)
(* each chunk, its marks of use, and the evidence of damage.               *)
(***************************************************************************)
EXTENDS ChunkHeap, SequenceTheorems, TLAPS

(* Rounding a size up gives a size that is taken from the same place: a    *)
(* piece for at most half a block, else whole blocks.                      *)
LEMMA RoundUpFits ==
  ASSUME NEW n \in Nat
  PROVE  /\ RoundUp(n) \in Nat /\ RoundUp(n) > 0
         /\ n <= RoundUp(n) /\ RoundUp(n) < n + BLOCK_SIZE
         /\ Divided(n) <=> Divided(RoundUp(n))
<1>1. BLOCK_SIZE \in Nat /\ BLOCK_SIZE > 0
  BY GeometryAssumption
<1>2. CASE Divided(n)
  <2>1. n \in 0 .. BLOCK_SIZE \div 2
    BY <1>1, <1>2 DEF Divided
  <2>2. \E b \in BitSizes : FirstFit(n, b)
    BY <2>1, GeometryAssumption
  <2>3. RoundUp(n) = CHOOSE b \in BitSizes : FirstFit(n, b)
    BY <1>2 DEF RoundUp
  <2>4. RoundUp(n) \in BitSizes /\ FirstFit(n, RoundUp(n))
    BY <2>2, <2>3
  <2>5. RoundUp(n) \in 1 .. BLOCK_SIZE \div 2
    BY <2>4, GeometryAssumption
  <2>6. n <= RoundUp(n)
    BY <2>4 DEF FirstFit
  <2> QED BY <1>1, <1>2, <2>5, <2>6 DEF Divided
<1>3. CASE ~Divided(n)
  <2> DEFINE blocks == (n + BLOCK_SIZE - 1) \div BLOCK_SIZE
  <2>1. n > BLOCK_SIZE \div 2 /\ n > 0
    BY <1>1, <1>3 DEF Divided
  <2>2. /\ blocks \in Nat
        /\ n + BLOCK_SIZE - 1 = BLOCK_SIZE * blocks + ((n + BLOCK_SIZE - 1) % BLOCK_SIZE)
        /\ (n + BLOCK_SIZE - 1) % BLOCK_SIZE \in 0 .. BLOCK_SIZE - 1
    BY <1>1, <2>1
  <2>3. RoundUp(n) = blocks * BLOCK_SIZE
    BY <1>3 DEF RoundUp
  <2>4. RoundUp(n) \in Nat /\ n <= RoundUp(n) /\ RoundUp(n) < n + BLOCK_SIZE
    BY <1>1, <2>1, <2>2, <2>3
  <2> QED BY <1>1, <1>3, <2>1, <2>4 DEF Divided
<1> QED BY <1>2, <1>3

-----------------------------------------------------------------------------
(* Lists without repetition: taking the head, pushing one and appending.   *)

LEMMA TailOfList ==
  ASSUME NEW S, NEW s \in Seq(S), s # <<>>, IsInjective(s)
  PROVE  /\ Head(s) \in S /\ Head(s) \in Range(s)
         /\ Tail(s) \in Seq(S) /\ IsInjective(Tail(s))
         /\ Range(Tail(s)) = Range(s) \ {Head(s)}
<1>1. /\ Len(s) \in Nat /\ Len(s) > 0 /\ DOMAIN s = 1 .. Len(s)
      /\ \A i \in 1 .. Len(s) : s[i] \in S
      /\ Head(s) = s[1]
  OBVIOUS
<1>2. /\ Tail(s) \in Seq(S) /\ DOMAIN Tail(s) = 1 .. Len(s) - 1
      /\ \A i \in 1 .. Len(s) - 1 : Tail(s)[i] = s[i + 1]
  OBVIOUS
<1>3. IsInjective(Tail(s))
  BY <1>1, <1>2 DEF IsInjective
<1>4. ASSUME NEW x \in Range(s), x # Head(s)
      PROVE  x \in Range(Tail(s))
  <2>1. PICK i \in 1 .. Len(s) : x = s[i]
    BY <1>1 DEF Range
  <2>2. i - 1 \in 1 .. Len(s) - 1 /\ s[i] = Tail(s)[i - 1]
    BY <1>1, <1>2, <1>4, <2>1
  <2> QED BY <1>2, <2>1, <2>2 DEF Range
<1>5. ASSUME NEW x \in Range(Tail(s))
      PROVE  x \in Range(s) /\ x # Head(s)
  <2>1. PICK i \in 1 .. Len(s) - 1 : x = Tail(s)[i]
    BY <1>2 DEF Range
  <2>2. i + 1 \in 1 .. Len(s) /\ x = s[i + 1] /\ i + 1 # 1
    BY <1>1, <1>2, <2>1
  <2> QED BY <1>1, <2>2 DEF Range, IsInjective
<1>6. Head(s) \in S /\ Head(s) \in Range(s)
  BY <1>1 DEF Range
<1> QED BY <1>2, <1>3, <1>4, <1>5, <1>6

LEMMA PushOnList ==
  ASSUME NEW S, NEW s \in Seq(S), NEW x \in S, x \notin Range(s), IsInjective(s)
  PROVE  /\ <<x>> \o s \in Seq(S) /\ IsInjective(<<x>> \o s)
         /\ Range(<<x>> \o s) = {x} \cup Range(s)
<1> DEFINE t == <<x>> \o s
<1>1. /\ Len(s) \in Nat /\ DOMAIN s = 1 .. Len(s)
      /\ t \in Seq(S) /\ Len(t) = Len(s) + 1 /\ DOMAIN t = 1 .. Len(s) + 1
      /\ t[1] = x /\ \A i \in 2 .. Len(s) + 1 : t[i] = s[i - 1]
  OBVIOUS
<1>2. \A i \in 2 .. Len(s) + 1 : i - 1 \in DOMAIN s /\ t[i] = s[i - 1]
  BY <1>1
<1>3. \A i \in DOMAIN s : i + 1 \in 2 .. Len(s) + 1 /\ t[i + 1] = s[i]
  BY <1>1
<1> HIDE DEF t
<1>4. \A i \in 2 .. Len(s) + 1 : t[i] # x /\ t[i] \in Range(s)
  BY <1>2 DEF Range
<1>5. \A i \in DOMAIN t : i = 1 \/ i \in 2 .. Len(s) + 1
  BY <1>1
<1>6. IsInjective(t)
  <2> SUFFICES ASSUME NEW i \in DOMAIN t, NEW j \in DOMAIN t, t[i] = t[j]
               PROVE  i = j
    BY DEF IsInjective
  <2>1. CASE i = 1 \/ j = 1
    BY <1>1, <1>4, <1>5, <2>1
  <2>2. CASE i # 1 /\ j # 1
    <3>1. i - 1 \in DOMAIN s /\ j - 1 \in DOMAIN s /\ s[i - 1] = s[j - 1]
      BY <1>2, <1>5, <2>2
    <3> QED BY <1>1, <3>1 DEF IsInjective
  <2> QED BY <2>1, <2>2
<1>7. Range(t) = {x} \cup Range(s)
  <2>1. \A y \in Range(t) : y \in {x} \cup Range(s)
    BY <1>1, <1>4, <1>5 DEF Range
  <2>2. x \in Range(t)
    BY <1>1 DEF Range
  <2>3. \A y \in Range(s) : y \in Range(t)
    BY <1>1, <1>3 DEF Range
  <2> QED BY <2>1, <2>2, <2>3
<1> QED BY <1>1, <1>6, <1>7 DEF t

LEMMA AppendToList ==
  ASSUME NEW S, NEW s \in Seq(S), NEW x \in S, x \notin Range(s), IsInjective(s)
  PROVE  /\ Append(s, x) \in Seq(S) /\ IsInjective(Append(s, x))
         /\ Range(Append(s, x)) = {x} \cup Range(s)
<1> DEFINE t == Append(s, x)
<1>1. /\ Len(s) \in Nat /\ DOMAIN s = 1 .. Len(s)
      /\ t \in Seq(S) /\ DOMAIN t = 1 .. Len(s) + 1
      /\ t[Len(s) + 1] = x /\ \A i \in 1 .. Len(s) : t[i] = s[i]
  OBVIOUS
<1> HIDE DEF t
<1>2. \A i \in DOMAIN t : i = Len(s) + 1 \/ (i \in DOMAIN s /\ t[i] = s[i] /\ t[i] # x)
  BY <1>1 DEF Range
<1>3. IsInjective(t)
  BY <1>1, <1>2 DEF IsInjective
<1>4. Range(t) = {x} \cup Range(s)
  <2>1. \A y \in Range(t) : y \in {x} \cup Range(s)
    BY <1>1, <1>2 DEF Range
  <2>2. x \in Range(t)
    BY <1>1 DEF Range
  <2>3. \A y \in Range(s) : y \in Range(t)
    BY <1>1 DEF Range
  <2> QED BY <2>1, <2>2, <2>3
<1> QED BY <1>1, <1>3, <1>4 DEF t

-----------------------------------------------------------------------------
(* Type correctness of what a step writes. *)

CallTypeOK ==
  /\ pc \in {"idle", "reuse", "carve", "retake", "insert", "replace"}
  /\ call \in CallType
  /\ result \in Results

(* A step that leaves the heap as it is only has to keep the call in order. *)
LEMMA HeapUnchanged ==
  ASSUME IInv, UNCHANGED heap, iter' \in 0 .. MaxIter, iter <= iter',
         debug' \in SUBSET DebugFlags, CallTypeOK', CallOK', OldHeld',
         pc' \in {"carve", "insert"} => UNCHANGED <<pc, call>>
  PROVE  IInv'
<1> USE DEF heap
<1>1. TypeOK'
  BY DEF IInv, TypeOK, CallTypeOK
<1>2. NoOverlap'
  BY DEF IInv, NoOverlap, ChunksApart, CutApart, ChunksInHeap, Slots
<1>3. ListsAgree'
  BY DEF IInv, ListsAgree, OneKind, UsedAgrees, WaitAgrees, FreeAgrees, Slots, Waiting, Is
<1>4. FreeRested'
  <2> SUFFICES ASSUME NEW n \in SizeClasses, NEW a \in Range(free_list[n])
               PROVE  slot[a].seen = 0 \/ slot[a].iter + FREED_POINTER_DELAY <= iter'
    BY DEF FreeRested, IInv, TypeOK
  <2>1. slot[a].seen = 0 \/ slot[a].iter + FREED_POINTER_DELAY <= iter
    BY DEF IInv, FreeRested
  <2>2. a \in Addr
    BY RangeOfSeq DEF IInv, TypeOK
  <2>3. slot[a].iter \in Nat /\ iter \in Nat /\ iter' \in Nat
    BY <2>2 DEF IInv, TypeOK, SlotType
  <2> QED BY <2>1, <2>3, ParameterAssumption
<1> QED BY <1>1, <1>2, <1>3, <1>4 DEF IInv

LEMMA BeginMallocOK ==
  ASSUME IInv, pc = "idle", NEW fn \in {"malloc", "valloc", "realloc"},
         NEW size \in Nat, NEW old \in Pointers, BeginMalloc(fn, size, old)
  PROVE  /\ CallTypeOK' /\ CallOK' /\ pc' \notin {"carve", "insert"} /\ UNCHANGED heap
         /\ call'.fn \in {"none", fn}
<1>1. NeededSize(fn, size) \in Nat
  BY GeometryAssumption DEF NeededSize
<1>2. RoundUp(NeededSize(fn, size)) \in Nat /\ RoundUp(NeededSize(fn, size)) > 0
  BY <1>1, RoundUpFits
<1>3. CASE pc' = "idle" /\ call' = NoCall /\ result' \in {"TOO_BIG", "OVER_LIMIT"}
  BY <1>3 DEF BeginMalloc, CallTypeOK, CallOK, CallType, NoCall, Results, Pointers
<1>4. CASE /\ pc' = "reuse" /\ UNCHANGED result
           /\ call' = [NoCall EXCEPT !.fn = fn, !.size = size, !.old = old,
                                     !.fence = "FENCE" \in debug,
                                     !.need = RoundUp(NeededSize(fn, size))]
  <2>1. result' \in Results
    BY <1>4 DEF IInv, TypeOK
  <2>2. call'.need = RoundUp(NeededSize(fn, size))
    BY <1>4 DEF NoCall
  <2>3. call' \in CallType /\ call'.fn = fn
    <3> DEFINE fence == "FENCE" \in debug
    <3>1. fence \in BOOLEAN
      OBVIOUS
    <3>2. call' = [fn |-> fn, size |-> size, fence |-> fence, old |-> old,
                   need |-> RoundUp(NeededSize(fn, size)), mem |-> 0, bounds |-> 0]
      BY <1>4 DEF NoCall
    <3> HIDE DEF fence
    <3> QED BY <1>2, <3>1, <3>2 DEF CallType
  <2> QED BY <1>2, <1>4, <2>1, <2>2, <2>3 DEF CallTypeOK, CallOK, BeginMalloc
<1> QED BY <1>3, <1>4 DEF BeginMalloc, Returns

-----------------------------------------------------------------------------
(* The counters stay integers. *)

LEMMA BlocksType ==
  ASSUME NEW st \in StatsType, NEW n \in Int
  PROVE  /\ [st EXCEPT !.user_blocks = @ + n] \in StatsType
         /\ [st EXCEPT !.admin_blocks = @ + n] \in StatsType
         /\ [st EXCEPT !.free_space = @ + n] \in StatsType
         /\ [st EXCEPT !.free_space = @ - n] \in StatsType
BY DEF StatsType

LEMMA GrownType ==
  ASSUME NEW st \in StatsType, NEW size \in Int, NEW delta \in Int
  PROVE  Grown(st, size, delta) \in StatsType
<1>1. st.current + delta \in Int /\ st.total + size \in Int /\ st.tot_pnts + 1 \in Int
  BY DEF StatsType
<1>2. /\ Larger(st.maximum, st.current + delta) \in Int
      /\ Larger(st.one_max, size) \in Int
  BY <1>1 DEF StatsType, Larger
<1> QED BY <1>1, <1>2 DEF StatsType, Grown

LEMMA AllocatedType ==
  ASSUME NEW st \in StatsType, NEW given \in Int, call.size \in Int
  PROVE  Allocated(st, given) \in StatsType
<1>1. Grown(st, call.size, call.size) \in StatsType
  BY GrownType
<1>2. /\ Larger(Grown(st, call.size, call.size).max_given, st.cur_given + given) \in Int
      /\ Larger(Grown(st, call.size, call.size).max_pnts, st.cur_pnts + 1) \in Int
  BY <1>1 DEF StatsType, Larger
<1> DEFINE grown == Grown(st, call.size, call.size)
           given_now == grown.cur_given + given
           given_max == Larger(grown.max_given, st.cur_given + given)
           pnts_now == grown.cur_pnts + 1
           pnts_max == Larger(grown.max_pnts, st.cur_pnts + 1)
<1>3. Allocated(st, given) = [grown EXCEPT !.cur_given = given_now, !.max_given = given_max,
                                           !.cur_pnts = pnts_now, !.max_pnts = pnts_max]
  BY DEF Allocated
<1>4. /\ grown \in StatsType /\ given_now \in Int /\ given_max \in Int
      /\ pnts_now \in Int /\ pnts_max \in Int
  BY <1>1, <1>2 DEF StatsType
<1> HIDE DEF grown, given_now, given_max, pnts_now, pnts_max
<1> QED BY <1>3, <1>4, ZenonT(40) DEF StatsType

LEMMA FreedType ==
  ASSUME NEW st \in StatsType, NEW given \in Int, NEW size \in Int
  PROVE  Freed(st, given, size) \in StatsType
<1> DEFINE now == st.current - size
           given_now == st.cur_given - given
           free_now == st.free_space + given
           pnts_now == st.cur_pnts - 1
<1>1. Freed(st, given, size) = [st EXCEPT !.current = now, !.cur_given = given_now,
                                          !.free_space = free_now, !.cur_pnts = pnts_now]
  BY DEF Freed
<1>2. now \in Int /\ given_now \in Int /\ free_now \in Int /\ pnts_now \in Int
  BY DEF StatsType
<1> HIDE DEF now, given_now, free_now, pnts_now
<1> QED BY <1>1, <1>2, ZenonT(40) DEF StatsType

-----------------------------------------------------------------------------
(* The loops of an allocation. *)

(* What the lists hold, and what the invariant says of it. *)
LEMMA OnLists ==
  ASSUME IInv
  PROVE  /\ Waiting \subseteq Slots
         /\ \A n \in SizeClasses : Range(free_list[n]) \subseteq Slots
         /\ \A a \in Slots : slot[a] \in SlotType /\ slot[a].size \in SizeClasses
         /\ Slots \subseteq Addr /\ used \subseteq Slots
<1>1. ASSUME NEW a \in Slots
      PROVE  slot[a] \in SlotType /\ slot[a].size \in SizeClasses
  <2>1. slot[a] \in SlotType
    BY DEF IInv, TypeOK, Slots
  <2>2. slot[a].size \in 0 .. HeapEnd /\ slot[a].size > 0
    BY <2>1 DEF IInv, NoOverlap, ChunksInHeap, SlotType
  <2> QED BY <2>1, <2>2, GeometryAssumption DEF SizeClasses
<1>2. ASSUME NEW a \in Addr, Is("FREE", a) PROVE a \in Slots
  BY <1>2 DEF Is, Slots
<1>3. Waiting \subseteq Slots
  BY <1>2, RangeOfSeq DEF IInv, TypeOK, ListsAgree, WaitAgrees, Waiting
<1>4. ASSUME NEW n \in SizeClasses PROVE Range(free_list[n]) \subseteq Slots
  BY <1>2, RangeOfSeq DEF IInv, TypeOK, ListsAgree, FreeAgrees
<1> QED BY <1>1, <1>3, <1>4 DEF Slots, IInv, ListsAgree, UsedAgrees

LEMMA DrainStep == ASSUME IInv, DrainOne PROVE IInv'
<1> DEFINE a == Head(wait_list)
           n == slot[a].size
<1> USE DEF DrainOne
<1>1. /\ a \in Addr /\ a \in Waiting /\ wait_list' \in Seq(Addr)
      /\ IsInjective(wait_list') /\ Waiting' = Waiting \ {a}
  BY TailOfList DEF IInv, TypeOK, ListsAgree, WaitAgrees, HeadDue, Waiting
<1>2. n \in SizeClasses /\ Is("FREE", a) /\ a \in Slots
  BY <1>1, OnLists DEF IInv, ListsAgree, WaitAgrees
<1>3. a \notin Range(free_list[n]) /\ free_list[n] \in Seq(Addr) /\ IsInjective(free_list[n])
  BY <1>1, <1>2 DEF IInv, TypeOK, ListsAgree, FreeAgrees
<1>4. /\ <<a>> \o free_list[n] \in Seq(Addr) /\ IsInjective(<<a>> \o free_list[n])
      /\ Range(<<a>> \o free_list[n]) = {a} \cup Range(free_list[n])
  BY <1>1, <1>3, PushOnList
<1>5. free_list' = [free_list EXCEPT ![n] = <<a>> \o @]
  BY DEF DrainOne
<1> HIDE DEF a, n
<1>6. /\ free_list' \in [SizeClasses -> Seq(Addr)]
      /\ free_list'[n] = <<a>> \o free_list[n]
      /\ \A m \in SizeClasses \ {n} : free_list'[m] = free_list[m]
  BY <1>2, <1>4, <1>5 DEF IInv, TypeOK
<1>7. TypeOK'
  BY <1>1, <1>6 DEF IInv, TypeOK
<1>8. CallOK' /\ NoOverlap' /\ OldHeld' /\ BLOCK_SIZE <= heap_high'
  BY DEF IInv, CallOK, NoOverlap, ChunksApart, CutApart, ChunksInHeap, Slots,
         OldHeld, UserChunks, Contains, Is
<1>9. OneKind' /\ UsedAgrees' /\ WaitAgrees'
  BY <1>1 DEF IInv, ListsAgree, OneKind, UsedAgrees, WaitAgrees, Slots, Is
<1>10. FreeAgrees'
  <2> SUFFICES ASSUME NEW m \in SizeClasses
               PROVE  /\ IsInjective(free_list'[m])
                      /\ \A b \in Range(free_list'[m]) :
                           Is("FREE", b) /\ slot[b].size = m /\ b \notin Waiting'
    BY DEF FreeAgrees, Is
  <2>1. CASE m = n
    BY <1>1, <1>2, <1>4, <1>6, <2>1 DEF IInv, ListsAgree, FreeAgrees, n
  <2>2. CASE m # n
    BY <1>1, <1>6, <2>2 DEF IInv, ListsAgree, FreeAgrees
  <2> QED BY <2>1, <2>2
<1>11. FreeRested'
  <2> SUFFICES ASSUME NEW m \in SizeClasses, NEW b \in Range(free_list'[m])
               PROVE  slot[b].seen = 0 \/ slot[b].iter + FREED_POINTER_DELAY <= iter
    BY DEF FreeRested
  <2>1. b = a \/ b \in Range(free_list[m])
    BY <1>4, <1>6
  <2>2. slot[a].iter + FREED_POINTER_DELAY <= iter
    BY DEF HeadDue, a
  <2> QED BY <2>1, <2>2 DEF IInv, FreeRested
<1> QED BY <1>7, <1>8, <1>9, <1>10, <1>11 DEF IInv, ListsAgree

LEMMA GrowStep == ASSUME IInv, GrowHeap PROVE IInv'
<1> DEFINE grown == IF Divided(call.need) THEN BLOCK_SIZE ELSE call.need
<1>1. call \in CallType /\ call.need \in Nat /\ call.need > 0 /\ heap_high \in Nat
  BY DEF IInv, TypeOK, CallOK, GrowHeap, CallType
<1>2. grown \in Nat /\ call.need <= grown
  BY <1>1, GeometryAssumption DEF Divided
<1>3. /\ heap_high' = heap_high + grown /\ heap_high' <= HeapEnd
      /\ pc' = (IF Divided(call.need) THEN "carve" ELSE "insert")
      /\ call' = [call EXCEPT !.mem = heap_high, !.bounds = heap_high + grown - call.need]
      /\ stats' = [stats EXCEPT !.user_blocks = @ + grown \div BLOCK_SIZE]
      /\ UNCHANGED <<iter, debug, slot, used, free_list, wait_list, entry_free,
                     result, damage, handed>>
  BY DEF GrowHeap
<1>4. /\ call' \in CallType /\ call'.need = call.need /\ call'.mem = heap_high
      /\ call'.bounds = heap_high + grown - call.need
  <2> DEFINE top == heap_high + grown - call.need
  <2>1. top \in Int /\ heap_high \in Nat
    BY <1>1, <1>2
  <2>2. call' = [call EXCEPT !.mem = heap_high, !.bounds = top]
    BY <1>3
  <2> HIDE DEF top
  <2>3. call' \in CallType /\ call'.need = call.need /\ call'.mem = heap_high /\ call'.bounds = top
    BY <1>1, <2>1, <2>2 DEF CallType
  <2> QED BY <2>3 DEF top
<1>5. stats' \in StatsType
  <2> DEFINE blocks == grown \div BLOCK_SIZE
  <2>1. blocks \in Int
    BY <1>2, GeometryAssumption
  <2>2. stats' = [stats EXCEPT !.user_blocks = @ + blocks]
    BY <1>3
  <2> HIDE DEF blocks
  <2>3. stats \in StatsType
    BY DEF IInv, TypeOK
  <2> QED BY <2>1, <2>2, <2>3, BlocksType
<1> HIDE DEF grown
<1>6. TypeOK'
  BY <1>1, <1>2, <1>3, <1>4, <1>5 DEF IInv, TypeOK
<1>7. CallOK'
  BY <1>1, <1>2, <1>3, <1>4 DEF IInv, CallOK, grown
<1>8. ChunksApart'
  BY <1>3 DEF IInv, NoOverlap, ChunksApart, Slots
<1>9. ASSUME NEW a \in Slots
      PROVE  a + slot[a].size <= heap_high /\ a \in Nat /\ slot[a].size \in Nat
             /\ slot[a].size > 0
  BY <1>9, OnLists, GeometryAssumption DEF IInv, NoOverlap, ChunksInHeap, Addr, SlotType
<1>10. CutApart' /\ ChunksInHeap'
  BY <1>1, <1>2, <1>3, <1>4, <1>9 DEF CutApart, ChunksInHeap, Slots
<1>11. ListsAgree'
  BY <1>3 DEF IInv, ListsAgree, OneKind, UsedAgrees, WaitAgrees, FreeAgrees,
              Slots, Waiting, Is
<1>12. FreeRested' /\ BLOCK_SIZE <= heap_high'
  BY <1>1, <1>2, <1>3, GeometryAssumption DEF IInv, FreeRested
<1>13. OldHeld'
  <2>1. call'.fn = call.fn /\ call'.old = call.old
    BY <1>1, <1>3 DEF CallType
  <2> QED BY <1>3, <2>1 DEF IInv, OldHeld, UserChunks, Contains, Is, GrowHeap
<1> QED BY <1>6, <1>7, <1>8, <1>10, <1>11, <1>12, <1>13 DEF IInv, NoOverlap

-----------------------------------------------------------------------------
(* Steps that change what a slot says and leave its place alone. *)

LEMMA SameGeometry ==
  ASSUME IInv, slot' \in [Addr -> SlotType], heap_high' = heap_high,
         pc' \notin {"carve", "insert"},
         \A b \in Addr : /\ slot'[b].size = slot[b].size
                         /\ slot'[b].flags = {} <=> slot[b].flags = {}
  PROVE  NoOverlap' /\ Slots' = Slots
<1>1. Slots' = Slots
  BY DEF Slots
<1>2. ChunksApart'
  BY <1>1 DEF IInv, NoOverlap, ChunksApart, Slots
<1>3. CutApart'
  BY DEF CutApart
<1>4. ChunksInHeap'
  BY <1>1 DEF IInv, NoOverlap, ChunksInHeap, Slots
<1> QED BY <1>1, <1>2, <1>3, <1>4 DEF NoOverlap

(* A user chunk is on no other list. *)
LEMMA UserAlone ==
  ASSUME IInv, NEW a \in UserChunks
  PROVE  /\ a \in Slots /\ a \in Addr /\ ~Is("FREE", a) /\ a \notin Waiting
         /\ \A n \in SizeClasses : a \notin Range(free_list[n])
<1>1. a \in Slots /\ a \in Addr /\ Is("USER", a)
  BY OnLists DEF UserChunks
<1>2. ~Is("FREE", a)
  BY DEF UserChunks, IInv, ListsAgree, UsedAgrees
<1> QED BY <1>1, <1>2 DEF IInv, ListsAgree, WaitAgrees, FreeAgrees

(* The invariant's part about the lists, for the one slot a step changed. *)
LEMMA FreeListsKept ==
  ASSUME IInv, NEW a \in Addr, NEW s, iter' \in Nat, iter <= iter',
         slot' = [slot EXCEPT ![a] = s], UNCHANGED free_list, Waiting' \subseteq Waiting \cup {a},
         \A n \in SizeClasses : a \notin Range(free_list[n])
  PROVE  FreeAgrees' /\ FreeRested'
<1> SUFFICES ASSUME NEW n \in SizeClasses
             PROVE  /\ IsInjective(free_list[n])
                    /\ \A b \in Range(free_list[n]) :
                         /\ Is("FREE", b)' /\ slot'[b].size = n /\ b \notin Waiting'
                         /\ \/ slot'[b].seen = 0
                            \/ slot'[b].iter + FREED_POINTER_DELAY <= iter'
  BY DEF FreeAgrees, FreeRested
<1>1. IsInjective(free_list[n])
  BY DEF IInv, ListsAgree, FreeAgrees
<1>2. ASSUME NEW b \in Range(free_list[n])
      PROVE  /\ Is("FREE", b)' /\ slot'[b].size = n /\ b \notin Waiting'
             /\ \/ slot'[b].seen = 0
                \/ slot'[b].iter + FREED_POINTER_DELAY <= iter'
  <2>1. b # a /\ b \in Slots /\ b \in Addr
    BY OnLists
  <2>2. slot'[b] = slot[b]
    BY <2>1 DEF IInv, TypeOK
  <2>3. Is("FREE", b) /\ slot[b].size = n /\ b \notin Waiting
    BY DEF IInv, ListsAgree, FreeAgrees
  <2>4. slot[b].seen = 0 \/ slot[b].iter + FREED_POINTER_DELAY <= iter
    BY DEF IInv, FreeRested
  <2>5. slot[b].iter \in Nat /\ iter \in Nat
    BY <2>1, OnLists DEF IInv, TypeOK, SlotType
  <2> QED BY <2>1, <2>2, <2>3, <2>4, <2>5, ParameterAssumption DEF Is
<1> QED BY <1>1, <1>2

LEMMA ReleaseStep ==
  ASSUME IInv, NEW a \in UserChunks, Release(a), Returns("ok"),
         iter' \in 0 .. MaxIter, iter <= iter', debug' = debug
  PROVE  IInv'
<1> DEFINE flags == {"FREE"} \cup (slot[a].flags \cap {"FENCE"}) \cup FreeBlank
           s == [slot[a] EXCEPT !.flags = flags, !.iter = iter', !.seen = @ + 1]
<1>1. /\ a \in Slots /\ a \in Addr /\ ~Is("FREE", a) /\ a \notin Waiting
      /\ \A n \in SizeClasses : a \notin Range(free_list[n])
      /\ slot[a] \in SlotType
  BY UserAlone, OnLists
<1>2. slot' = [slot EXCEPT ![a] = s]
  BY <1>1 DEF Release, IInv, TypeOK
<1>3. /\ flags \in SUBSET SlotFlags /\ "FREE" \in flags /\ "USER" \notin flags
      /\ "ADMIN" \notin flags
  BY DEF FreeBlank, BlankFlag, SlotFlags
<1>4. /\ s \in SlotType /\ s.flags = flags /\ s.size = slot[a].size
  <2>1. slot[a].seen + 1 \in Nat /\ iter' \in Nat
    BY <1>1, ParameterAssumption DEF SlotType
  <2> HIDE DEF flags
  <2> QED BY <1>1, <1>3, <2>1 DEF SlotType
<1> HIDE DEF s
<1>5. /\ slot' \in [Addr -> SlotType] /\ slot'[a] = s
      /\ \A b \in Addr \ {a} : slot'[b] = slot[b]
  BY <1>1, <1>2, <1>4 DEF IInv, TypeOK
<1>6. slot'[a].flags = flags /\ slot[a].flags # {}
  BY <1>1, <1>4, <1>5 DEF Slots
<1> HIDE DEF flags
<1>7. NoOverlap' /\ Slots' = Slots
  <2>1. \A b \in Addr : slot'[b].size = slot[b].size
    BY <1>4, <1>5
  <2>2. \A b \in Addr : slot'[b].flags = {} <=> slot[b].flags = {}
    BY <1>3, <1>5, <1>6
  <2>3. heap_high' = heap_high /\ pc' \notin {"carve", "insert"}
    BY DEF Release, Returns
  <2> QED BY <1>5, <2>1, <2>2, <2>3, SameGeometry
<1>8. wait_list' \in Seq(Addr) /\ IsInjective(wait_list') /\ Waiting' \subseteq Waiting \cup {a}
  <2>1. wait_list \in Seq(Addr) /\ IsInjective(wait_list) /\ a \notin Range(wait_list)
    BY <1>1 DEF IInv, TypeOK, ListsAgree, WaitAgrees, Waiting
  <2>2. wait_list' = wait_list \/ wait_list' = Append(wait_list, a)
    BY DEF Release
  <2>3. /\ Append(wait_list, a) \in Seq(Addr) /\ IsInjective(Append(wait_list, a))
        /\ Range(Append(wait_list, a)) = {a} \cup Range(wait_list)
    BY <1>1, <2>1, AppendToList
  <2>4. Waiting' = Range(wait_list') /\ Waiting = Range(wait_list)
    BY DEF Waiting
  <2>5. CASE wait_list' = wait_list
    BY <2>1, <2>4, <2>5
  <2>6. CASE wait_list' = Append(wait_list, a)
    BY <2>3, <2>4, <2>6
  <2> QED BY <2>2, <2>5, <2>6
<1>9. TypeOK'
  <2>1. stats' \in StatsType
    BY <1>1, FreedType DEF Release, IInv, TypeOK, SlotType
  <2>2. call' \in CallType /\ result' \in Results /\ pc' = "idle"
    BY DEF Returns, NoCall, CallType, Results, Pointers
  <2> QED BY <1>5, <1>8, <2>1, <2>2 DEF IInv, TypeOK, Release
<1>10. CallOK' /\ OldHeld' /\ BLOCK_SIZE <= heap_high'
  BY DEF CallOK, OldHeld, Returns, Release, IInv
<1>11. OneKind'
  <2>1. slot'[a].flags \cap {"USER", "FREE", "ADMIN"} = {"FREE"}
    BY <1>3, <1>6
  <2> QED BY <1>5, <1>7, <2>1, OnLists DEF OneKind, IInv, ListsAgree
<1>12. UsedAgrees'
  BY <1>1, <1>3, <1>5, <1>6, <1>7, OnLists DEF UsedAgrees, Is, IInv, ListsAgree, Release
<1>13. WaitAgrees'
  BY <1>1, <1>3, <1>5, <1>6, <1>8, OnLists DEF WaitAgrees, Is, IInv, ListsAgree
<1>14. FreeAgrees' /\ FreeRested'
  <2>1. iter' \in Nat /\ UNCHANGED free_list
    BY ParameterAssumption DEF Release
  <2> HIDE DEF flags
  <2> QED BY <1>1, <1>2, <1>8, <2>1, FreeListsKept
<1> QED BY <1>7, <1>9, <1>10, <1>11, <1>12, <1>13, <1>14 DEF IInv, ListsAgree

LEMMA ResizeStep ==
  ASSUME IInv, NEW a \in UserChunks, NEW size \in Nat, Resize(a, size), Returns("ok"),
         iter' \in 0 .. MaxIter, iter <= iter', debug' = debug
  PROVE  IInv'
<1> DEFINE flags == slot[a].flags \cup AllocBlank
           s == [slot[a] EXCEPT !.flags = flags, !.usize = size, !.iter = iter',
                                !.seen = @ + 2]
<1>1. /\ a \in Slots /\ a \in Addr /\ ~Is("FREE", a) /\ a \notin Waiting
      /\ \A n \in SizeClasses : a \notin Range(free_list[n])
      /\ slot[a] \in SlotType /\ iter' \in Nat
  BY UserAlone, OnLists, ParameterAssumption
<1>2. slot' = [slot EXCEPT ![a] = s]
  BY <1>1 DEF Resize, IInv, TypeOK
<1>3. /\ flags \in SUBSET SlotFlags /\ flags # {}
      /\ flags \cap {"USER", "FREE", "ADMIN"} = slot[a].flags \cap {"USER", "FREE", "ADMIN"}
  BY <1>1 DEF AllocBlank, BlankFlag, SlotFlags, SlotType, Slots
<1>4. s \in SlotType /\ s.flags = flags /\ s.size = slot[a].size
  <2>1. slot[a].seen + 2 \in Nat
    BY <1>1 DEF SlotType
  <2> HIDE DEF flags
  <2> QED BY <1>1, <1>3, <2>1 DEF SlotType
<1> HIDE DEF s
<1>5. /\ slot' \in [Addr -> SlotType] /\ slot'[a] = s
      /\ \A b \in Addr \ {a} : slot'[b] = slot[b]
  BY <1>1, <1>2, <1>4 DEF IInv, TypeOK
<1> HIDE DEF flags
<1>6. slot'[a].flags = flags /\ slot[a].flags # {}
  BY <1>1, <1>4, <1>5 DEF Slots
<1>7. NoOverlap' /\ Slots' = Slots
  <2>1. \A b \in Addr : slot'[b].size = slot[b].size
    BY <1>4, <1>5
  <2>2. \A b \in Addr : slot'[b].flags = {} <=> slot[b].flags = {}
    BY <1>3, <1>5, <1>6
  <2>3. heap_high' = heap_high /\ pc' \notin {"carve", "insert"}
    BY DEF Resize, Returns
  <2> QED BY <1>5, <2>1, <2>2, <2>3, SameGeometry
<1>8. TypeOK'
  <2>1. size - slot[a].usize \in Int /\ stats \in StatsType
    BY <1>1 DEF IInv, TypeOK, SlotType
  <2>2. stats' \in StatsType
    BY <2>1, GrownType DEF Resize
  <2>3. call' \in CallType /\ result' \in Results /\ pc' = "idle"
    BY DEF Returns, NoCall, CallType, Results, Pointers
  <2>4. damage' \in [Addr -> SUBSET Parts]
    BY DEF Resize, IInv, TypeOK
  <2> QED BY <1>5, <2>2, <2>3, <2>4 DEF IInv, TypeOK, Resize
<1>9. CallOK' /\ OldHeld' /\ BLOCK_SIZE <= heap_high'
  BY DEF CallOK, OldHeld, Returns, Resize, IInv
<1>10. \A b \in Addr : Is("FREE", b)' <=> Is("FREE", b)
  BY <1>3, <1>5, <1>6 DEF Is
<1>11. OneKind'
  BY <1>3, <1>5, <1>6, <1>7, OnLists DEF OneKind, IInv, ListsAgree
<1>12. UsedAgrees' /\ WaitAgrees'
  BY <1>7, <1>10, OnLists DEF UsedAgrees, WaitAgrees, IInv, ListsAgree, Resize, Waiting
<1>13. FreeAgrees' /\ FreeRested'
  BY <1>1, <1>2, FreeListsKept DEF Resize, Waiting
<1> QED BY <1>7, <1>8, <1>9, <1>11, <1>12, <1>13 DEF IInv, ListsAgree

-----------------------------------------------------------------------------
(* Steps that end an allocation. *)

LEMMA UserSlotType ==
  ASSUME IInv, NEW s \in SlotType
  PROVE  /\ UserSlot(s) \in SlotType
         /\ UserSlot(s).flags \cap {"USER", "FREE", "ADMIN"} = {"USER"}
         /\ UserSlot(s).size = s.size
<1>1. UserFlags \in SUBSET SlotFlags /\ UserFlags \cap {"USER", "FREE", "ADMIN"} = {"USER"}
  BY DEF UserFlags, AllocBlank, BlankFlag, SlotFlags
<1>2. call.size \in Nat /\ iter \in Nat /\ s.seen + 1 \in Nat
  BY ParameterAssumption DEF IInv, TypeOK, CallType, SlotType
<1>3. UserSlot(s) = [s EXCEPT !.flags = UserFlags, !.usize = call.size,
                              !.iter = iter, !.seen = s.seen + 1]
  BY DEF UserSlot
<1> QED BY <1>1, <1>2, <1>3 DEF SlotType

LEMMA HandOutOK ==
  ASSUME IInv, pc # "idle", NEW a \in Addr, HandOut(a)
  PROVE  /\ CallTypeOK' /\ CallOK' /\ pc' \notin {"carve", "insert"}
         /\ handed' \in [Addr -> Nat] /\ damage' \in [Addr -> SUBSET Parts]
         /\ pc' # "idle" => call' = call
<1>1. a + UserOffset(UserFlags) \in Nat
  BY GeometryAssumption DEF UserOffset, Addr
<1>2. handed' \in [Addr -> Nat] /\ damage' \in [Addr -> SUBSET Parts]
  BY <1>1 DEF HandOut, IInv, TypeOK
<1>3. CASE call.fn = "realloc"
  <2>1. pc' = "replace" /\ call' = call /\ result' = result
    BY <1>3 DEF HandOut
  <2>2. call \in CallType /\ result \in Results /\ call.need > 0
    BY DEF IInv, TypeOK, CallOK
  <2> QED BY <1>2, <1>3, <2>1, <2>2 DEF CallTypeOK, CallOK
<1>4. CASE call.fn # "realloc"
  <2>1. pc' = "idle" /\ call' = NoCall /\ result' = "ok"
    BY <1>4 DEF HandOut, Returns
  <2> QED BY <1>2, <2>1 DEF NoCall, CallType, CallTypeOK, CallOK, Results, Pointers
<1> QED BY <1>3, <1>4

LEMMA TakeStep == ASSUME IInv, TakeFree PROVE IInv'
<1> DEFINE n == call.need
           a == Head(free_list[n])
           s == UserSlot(slot[a])
<1>1. /\ n \in SizeClasses /\ free_list[n] \in Seq(Addr) /\ free_list[n] # <<>>
      /\ IsInjective(free_list[n]) /\ pc # "idle"
  BY DEF TakeFree, Available, IInv, TypeOK, ListsAgree, FreeAgrees
<1>2. /\ a \in Addr /\ a \in Range(free_list[n]) /\ Tail(free_list[n]) \in Seq(Addr)
      /\ IsInjective(Tail(free_list[n]))
      /\ Range(Tail(free_list[n])) = Range(free_list[n]) \ {a}
  BY <1>1, TailOfList
<1>3. /\ a \in Slots /\ Is("FREE", a) /\ slot[a].size = n /\ a \notin Waiting
      /\ slot[a] \in SlotType /\ a \notin used
  BY <1>1, <1>2, OnLists DEF IInv, ListsAgree, FreeAgrees, UsedAgrees
<1>4. /\ s \in SlotType /\ s.flags \cap {"USER", "FREE", "ADMIN"} = {"USER"}
      /\ s.size = slot[a].size
  BY <1>3, UserSlotType
<1>5. /\ slot' = [slot EXCEPT ![a] = s] /\ used' = used \cup {a}
      /\ free_list' = [free_list EXCEPT ![n] = Tail(@)]
      /\ stats' = [Allocated(stats, n) EXCEPT !.free_space = @ - n]
      /\ HandOut(a)
      /\ UNCHANGED <<iter, debug, wait_list, entry_free, heap_high>>
  BY <1>3 DEF TakeFree, IInv, TypeOK
<1> HIDE DEF s, a
<1>6. /\ slot' \in [Addr -> SlotType] /\ slot'[a] = s
      /\ \A b \in Addr \ {a} : slot'[b] = slot[b]
  BY <1>2, <1>4, <1>5 DEF IInv, TypeOK
<1>7. /\ CallTypeOK' /\ CallOK' /\ pc' \notin {"carve", "insert"}
      /\ handed' \in [Addr -> Nat] /\ damage' \in [Addr -> SUBSET Parts]
      /\ pc' # "idle" => call' = call
  BY <1>1, <1>2, <1>5, HandOutOK
<1>8. NoOverlap' /\ Slots' = Slots
  <2>1. \A b \in Addr : slot'[b].size = slot[b].size
    BY <1>4, <1>6
  <2>2. \A b \in Addr : slot'[b].flags = {} <=> slot[b].flags = {}
    BY <1>3, <1>4, <1>6 DEF Slots
  <2> QED BY <1>5, <1>6, <1>7, <2>1, <2>2, SameGeometry
<1>9. /\ free_list' \in [SizeClasses -> Seq(Addr)]
      /\ free_list'[n] = Tail(free_list[n])
      /\ \A m \in SizeClasses \ {n} : free_list'[m] = free_list[m]
  BY <1>1, <1>2, <1>5 DEF IInv, TypeOK
<1>10. stats' \in StatsType
  <2>1. call.size \in Int /\ n \in Int /\ stats \in StatsType
    BY DEF IInv, TypeOK, CallType
  <2>2. Allocated(stats, n) \in StatsType
    BY <2>1, AllocatedType
  <2> QED BY <1>5, <2>1, <2>2, BlocksType
<1>11. TypeOK' /\ BLOCK_SIZE <= heap_high'
  BY <1>2, <1>5, <1>6, <1>7, <1>9, <1>10 DEF IInv, TypeOK, CallTypeOK
<1>12. OneKind'
  BY <1>4, <1>6, <1>8, OnLists DEF OneKind, IInv, ListsAgree
<1>13. UsedAgrees' /\ WaitAgrees'
  <2>1. \A b \in Addr \ {a} : Is("FREE", b)' <=> Is("FREE", b)
    BY <1>6 DEF Is
  <2>2. "FREE" \notin slot'[a].flags
    BY <1>4, <1>6
  <2>3. UsedAgrees'
    <3>1. used' = {b \in Slots : "FREE" \notin slot'[b].flags}
      BY <1>2, <1>3, <1>5, <1>6, <2>2, OnLists DEF UsedAgrees, IInv, ListsAgree, Is
    <3> QED BY <1>8, <3>1 DEF UsedAgrees, Is
  <2>4. WaitAgrees'
    BY <1>3, <1>5, <2>1, OnLists DEF WaitAgrees, Waiting, IInv, ListsAgree
  <2> QED BY <2>3, <2>4
<1>14. FreeAgrees' /\ FreeRested'
  <2> SUFFICES ASSUME NEW m \in SizeClasses
               PROVE  /\ IsInjective(free_list'[m])
                      /\ \A b \in Range(free_list'[m]) :
                           /\ Is("FREE", b)' /\ slot'[b].size = m /\ b \notin Waiting'
                           /\ \/ slot'[b].seen = 0
                              \/ slot'[b].iter + FREED_POINTER_DELAY <= iter'
    BY DEF FreeAgrees, FreeRested
  <2>1. IsInjective(free_list'[m])
    BY <1>2, <1>9 DEF IInv, ListsAgree, FreeAgrees
  <2>2. ASSUME NEW b \in Range(free_list'[m])
        PROVE  /\ Is("FREE", b)' /\ slot'[b].size = m /\ b \notin Waiting'
               /\ \/ slot'[b].seen = 0
                  \/ slot'[b].iter + FREED_POINTER_DELAY <= iter'
    <3>1. b \in Range(free_list[m]) /\ b # a
      BY <1>2, <1>3, <1>9 DEF IInv, ListsAgree, FreeAgrees
    <3>2. slot'[b] = slot[b]
      BY <1>6, <3>1, OnLists
    <3>3. Is("FREE", b) /\ slot[b].size = m /\ b \notin Waiting
      BY <3>1 DEF IInv, ListsAgree, FreeAgrees
    <3>4. slot[b].seen = 0 \/ slot[b].iter + FREED_POINTER_DELAY <= iter
      BY <3>1 DEF IInv, FreeRested
    <3> QED BY <1>5, <3>2, <3>3, <3>4 DEF Is, Waiting
  <2> QED BY <2>1, <2>2
<1>15. OldHeld'
  <2> SUFFICES ASSUME pc' # "idle", call.fn = "realloc"
               PROVE  \E b \in UserChunks' : Contains(b, call.old)'
    BY <1>7 DEF OldHeld, Contains
  <2>1. PICK b \in UserChunks : Contains(b, call.old)
    BY <1>1 DEF IInv, OldHeld
  <2>2. b \in Addr /\ b # a /\ slot'[b] = slot[b]
    BY <1>3, <1>6, UserAlone
  <2> QED BY <1>5, <1>7, <2>1, <2>2 DEF UserChunks, Contains, Is
<1> QED BY <1>8, <1>11, <1>7, <1>12, <1>13, <1>14, <1>15 DEF IInv, ListsAgree

-----------------------------------------------------------------------------
(* Steps that insert a new slot, and an admin block for it if need be. *)

LEMMA InsertOK ==
  ASSUME IInv, pc \in {"carve", "insert"}, NEW s \in SlotType, s.size = call.need,
         NEW kind \in {"USER", "FREE"}, s.flags \cap {"USER", "FREE", "ADMIN"} = {kind},
         NEW level \in Levels, NEW st \in StatsType, Insert(call.mem, s, level, st)
  PROVE  /\ call.mem \in Addr \ Slots
         /\ slot' \in [Addr -> SlotType] /\ slot'[call.mem] = s
         /\ \A b \in Slots : slot'[b] = slot[b]
         /\ stats' \in StatsType /\ entry_free' \in [Levels -> Nat]
         /\ heap_high' \in Nat /\ heap_high <= heap_high' /\ heap_high' <= HeapEnd
         /\ \E admin \in SUBSET Addr :
              /\ Slots' = Slots \cup {call.mem} \cup admin
              /\ used' = used \cup {c \in {call.mem} : kind = "USER"} \cup admin
              /\ \A b \in admin : /\ b = heap_high /\ slot'[b] = AdminSlot
                                  /\ heap_high' = heap_high + BLOCK_SIZE
<1> DEFINE a == call.mem
<1>1. /\ a \in Nat /\ call.bounds \in Int /\ call.need \in Nat /\ call.need > 0
      /\ BLOCK_SIZE <= a /\ a <= call.bounds /\ call.bounds + call.need <= heap_high
      /\ heap_high <= HeapEnd /\ heap_high \in Nat /\ BLOCK_SIZE \in Nat /\ BLOCK_SIZE > 0
      /\ HeapEnd \in Nat
  BY GeometryAssumption DEF IInv, TypeOK, CallOK, CallType
<1>2. a \in Addr
  BY <1>1 DEF Addr
<1>3. \A b \in Slots : /\ b \in Nat /\ slot[b].size \in Nat /\ slot[b].size > 0
                       /\ b + slot[b].size <= heap_high
                       /\ b + slot[b].size <= a \/ call.bounds + call.need <= b
  BY OnLists, <1>1 DEF IInv, NoOverlap, CutApart, ChunksInHeap, Addr, SlotType
<1>4. a \notin Slots /\ heap_high \notin Slots /\ heap_high # a
  BY <1>1, <1>3
<1>5. s.flags # {} /\ ("USER" \in s.flags <=> kind = "USER")
  OBVIOUS
<1> HIDE DEF a
<1>6. CASE entry_free[level] > 0
  <2>1. /\ slot' = [slot EXCEPT ![a] = s] /\ stats' = st /\ heap_high' = heap_high
        /\ used' = used \cup {c \in {a} : "USER" \in s.flags}
        /\ entry_free' = [entry_free EXCEPT ![level] = @ - 1]
    BY <1>1, <1>6 DEF Insert, a, IInv, TypeOK
  <2>2. entry_free' \in [Levels -> Nat]
    BY <1>6, <2>1 DEF IInv, TypeOK
  <2>3. /\ slot' \in [Addr -> SlotType] /\ slot'[a] = s
        /\ \A b \in Addr \ {a} : slot'[b] = slot[b]
    BY <1>2, <2>1 DEF IInv, TypeOK
  <2>4. Slots' = Slots \cup {a} \cup {}
    BY <1>2, <1>5, <2>3 DEF Slots
  <2>5. used' = used \cup {c \in {a} : kind = "USER"} \cup {}
    BY <1>5, <2>1
  <2>6. \A b \in Slots : slot'[b] = slot[b]
    BY <1>4, <2>3 DEF Slots
  <2>7. \E admin \in SUBSET Addr :
           /\ Slots' = Slots \cup {a} \cup admin
           /\ used' = used \cup {c \in {a} : kind = "USER"} \cup admin
           /\ \A b \in admin : /\ b = heap_high /\ slot'[b] = AdminSlot
                               /\ heap_high' = heap_high + BLOCK_SIZE
    <3>1. {} \in SUBSET Addr
      OBVIOUS
    <3> WITNESS {} \in SUBSET Addr
    <3> QED BY <2>4, <2>5
  <2>8. stats' \in StatsType
    BY <2>1
  <2>9. heap_high' \in Nat /\ heap_high <= heap_high' /\ heap_high' <= HeapEnd
    BY <1>1, <2>1
  <2> QED BY <1>2, <1>4, <2>2, <2>3, <2>6, <2>7, <2>8, <2>9 DEF a
<1>7. CASE entry_free[level] = 0
  <2>1. /\ slot' = [slot EXCEPT ![a] = s, ![heap_high] = AdminSlot]
        /\ stats' = [st EXCEPT !.admin_blocks = @ + 1]
        /\ heap_high' = heap_high + BLOCK_SIZE /\ heap_high + BLOCK_SIZE <= HeapEnd
        /\ used' = used \cup {c \in {a} : "USER" \in s.flags} \cup {heap_high}
        /\ entry_free' = [entry_free EXCEPT ![level] = SlotsPerBlock[level] - 2]
    BY <1>7 DEF Insert, a
  <2>2. entry_free' \in [Levels -> Nat]
    <3>1. SlotsPerBlock[level] - 2 \in Nat
      <4>1. SlotsPerBlock[level] \in Nat \ {0, 1}
        BY ParameterAssumption
      <4> QED BY <4>1
    <3> QED BY <2>1, <3>1 DEF IInv, TypeOK
  <2>3. heap_high \in Addr
    BY <1>1, <2>1 DEF Addr, IInv
  <2>4. AdminSlot \in SlotType /\ AdminSlot.flags # {}
    <3>1. NoSlot \in SlotType
      BY <1>1 DEF NoSlot, SlotType
    <3>2. {"ADMIN"} \in SUBSET SlotFlags /\ BLOCK_SIZE \in 0 .. HeapEnd
      BY <1>1, <2>1 DEF SlotFlags
    <3> QED BY <3>1, <3>2 DEF SlotType, AdminSlot
  <2>5. /\ slot' \in [Addr -> SlotType] /\ slot'[a] = s /\ slot'[heap_high] = AdminSlot
        /\ \A b \in Addr \ {a, heap_high} : slot'[b] = slot[b]
    BY <1>2, <1>4, <2>1, <2>3, <2>4 DEF IInv, TypeOK
  <2>6. Slots' = Slots \cup {a} \cup {heap_high}
    BY <1>2, <1>5, <2>3, <2>4, <2>5 DEF Slots
  <2>7. used' = used \cup {c \in {a} : kind = "USER"} \cup {heap_high}
    BY <1>5, <2>1
  <2>8. \A b \in Slots : slot'[b] = slot[b]
    BY <1>4, <2>5 DEF Slots
  <2>9. stats' \in StatsType
    <3> DEFINE admin_blocks == st.admin_blocks + 1
    <3>1. admin_blocks \in Int
      BY DEF StatsType
    <3>2. stats' = [st EXCEPT !.admin_blocks = admin_blocks]
      BY <2>1
    <3> HIDE DEF admin_blocks
    <3> QED BY <3>1, <3>2 DEF StatsType
  <2>10. heap_high' \in Nat /\ heap_high <= heap_high' /\ heap_high' <= HeapEnd
    BY <1>1, <2>1
  <2>11. \E admin \in SUBSET Addr :
           /\ Slots' = Slots \cup {a} \cup admin
           /\ used' = used \cup {c \in {a} : kind = "USER"} \cup admin
           /\ \A b \in admin : /\ b = heap_high /\ slot'[b] = AdminSlot
                               /\ heap_high' = heap_high + BLOCK_SIZE
    <3>1. {heap_high} \in SUBSET Addr
      BY <2>3
    <3> WITNESS {heap_high} \in SUBSET Addr
    <3> QED BY <2>1, <2>5, <2>6, <2>7
  <2> QED BY <1>2, <1>4, <2>2, <2>5, <2>8, <2>9, <2>10, <2>11 DEF a
<1> QED BY <1>6, <1>7 DEF Insert

(* The parts of the invariant that insert_address has to keep, whichever    *)
(* list it inserts on and whatever the call does next.                      *)
LEMMA InsertKeeps ==
  ASSUME IInv, pc \in {"carve", "insert"}, NEW s \in SlotType, s.size = call.need,
         NEW kind \in {"USER", "FREE"}, s.flags \cap {"USER", "FREE", "ADMIN"} = {kind},
         NEW level \in Levels, NEW st \in StatsType, Insert(call.mem, s, level, st),
         UNCHANGED wait_list,
         pc' \in {"carve", "insert"} => /\ call'.mem = call.mem + call.need
                                       /\ call'.bounds = call.bounds
                                       /\ call'.need = call.need
  PROVE  NoOverlap' /\ OneKind' /\ UsedAgrees' /\ WaitAgrees' /\ BLOCK_SIZE <= heap_high'
<1> DEFINE a == call.mem
<1>1. /\ a \in Nat /\ call.bounds \in Int /\ call.need \in Nat /\ call.need > 0
      /\ BLOCK_SIZE <= a /\ a <= call.bounds /\ call.bounds + call.need <= heap_high
      /\ heap_high \in Nat /\ BLOCK_SIZE \in Nat /\ BLOCK_SIZE > 0
  BY GeometryAssumption DEF IInv, TypeOK, CallOK, CallType
<1>2. /\ a \in Addr \ Slots /\ slot' \in [Addr -> SlotType] /\ slot'[a] = s
      /\ \A b \in Slots : slot'[b] = slot[b]
      /\ heap_high' \in Nat /\ heap_high <= heap_high'
  BY InsertOK
<1>3. PICK admin \in SUBSET Addr :
        /\ Slots' = Slots \cup {a} \cup admin
        /\ used' = used \cup {c \in {a} : kind = "USER"} \cup admin
        /\ \A b \in admin : /\ b = heap_high /\ slot'[b] = AdminSlot
                            /\ heap_high' = heap_high + BLOCK_SIZE
  BY InsertOK
<1>4. \A b \in Slots : /\ b \in Nat /\ slot[b].size \in Nat /\ slot[b].size > 0
                       /\ b + slot[b].size <= heap_high
                       /\ b + slot[b].size <= a \/ call.bounds + call.need <= b
  BY OnLists, <1>1 DEF IInv, NoOverlap, CutApart, ChunksInHeap, Addr, SlotType
<1>5. AdminSlot.size = BLOCK_SIZE /\ AdminSlot.flags = {"ADMIN"}
  BY DEF AdminSlot, NoSlot
<1>6. /\ \A b \in Slots : slot'[b].size = slot[b].size /\ slot'[b].flags = slot[b].flags
      /\ slot'[a].size = call.need
      /\ \A b \in admin : slot'[b].size = BLOCK_SIZE /\ slot'[b].flags = {"ADMIN"}
  BY <1>2, <1>3, <1>5
<1>7. \A b \in Slots : b # a /\ b \notin admin
  BY <1>2, <1>3, <1>4
<1> HIDE DEF a
<1>8. ChunksApart'
  <2> SUFFICES ASSUME NEW b \in Slots', NEW c \in Slots', b < c
               PROVE  b + slot'[b].size <= c
    BY DEF ChunksApart
  <2>1. CASE b \in Slots /\ c \in Slots
    BY <1>6, <2>1 DEF IInv, NoOverlap, ChunksApart
  <2>2. CASE b \in Slots /\ c \in {a} \cup admin
    BY <1>1, <1>3, <1>4, <1>6, <2>2 DEF a
  <2>3. CASE b = a /\ c \in Slots \cup admin
    BY <1>1, <1>3, <1>4, <1>6, <2>3 DEF a
  <2>4. CASE b = a /\ c = a
    BY <1>1, <2>4
  <2>5. CASE b \in admin
    BY <1>1, <1>3, <1>4, <1>6, <2>5 DEF a
  <2> QED BY <1>3, <2>1, <2>2, <2>3, <2>4, <2>5
<1>9. CutApart'
  <2> SUFFICES ASSUME pc' \in {"carve", "insert"}, NEW b \in Slots'
               PROVE  b + slot'[b].size <= call'.mem \/ call'.bounds + call'.need <= b
    BY DEF CutApart
  <2>1. CASE b \in Slots
    BY <1>1, <1>4, <1>6, <2>1 DEF a
  <2>2. CASE b = a
    BY <1>1, <1>6, <2>2 DEF a
  <2>3. CASE b \in admin
    BY <1>1, <1>3, <2>3 DEF a
  <2> QED BY <1>3, <2>1, <2>2, <2>3
<1>10. ChunksInHeap'
  <2> SUFFICES ASSUME NEW b \in Slots'
               PROVE  slot'[b].size > 0 /\ b + slot'[b].size <= heap_high'
    BY DEF ChunksInHeap
  <2>1. CASE b \in Slots
    BY <1>2, <1>4, <1>1, <1>6, <2>1
  <2>2. CASE b = a
    BY <1>1, <1>2, <1>6, <2>2 DEF a
  <2>3. CASE b \in admin
    BY <1>1, <1>3, <1>6, <2>3
  <2> QED BY <1>3, <2>1, <2>2, <2>3
<1>11. OneKind'
  <2> SUFFICES ASSUME NEW b \in Slots'
               PROVE  \E k \in {"USER", "FREE", "ADMIN"} :
                        slot'[b].flags \cap {"USER", "FREE", "ADMIN"} = {k}
    BY DEF OneKind
  <2>1. CASE b \in Slots
    BY <1>6, <2>1 DEF IInv, ListsAgree, OneKind
  <2>2. CASE b = a
    BY <1>2, <2>2
  <2>3. CASE b \in admin
    BY <1>6, <2>3
  <2> QED BY <1>3, <2>1, <2>2, <2>3
<1>12. UsedAgrees'
  <2>1. used = {b \in Slots : "FREE" \notin slot[b].flags}
    BY DEF IInv, ListsAgree, UsedAgrees, Is
  <2>2. "FREE" \notin s.flags <=> kind = "USER"
    OBVIOUS
  <2>3. used' = {b \in Slots' : "FREE" \notin slot'[b].flags}
    <3>1. ASSUME NEW b \in used' PROVE b \in Slots' /\ "FREE" \notin slot'[b].flags
      BY <1>2, <1>3, <1>6, <2>1, <2>2
    <3>2. ASSUME NEW b \in Slots', "FREE" \notin slot'[b].flags PROVE b \in used'
      BY <1>2, <1>3, <1>6, <2>1, <2>2, <3>2
    <3> QED BY <3>1, <3>2
  <2> QED BY <2>3 DEF UsedAgrees, Is
<1>13. WaitAgrees'
  BY <1>6, OnLists DEF IInv, ListsAgree, WaitAgrees, Waiting, Is
<1>14. BLOCK_SIZE <= heap_high'
  BY <1>1, <1>2
<1> QED BY <1>8, <1>9, <1>10, <1>11, <1>12, <1>13, <1>14 DEF NoOverlap

(* The old chunk of a reallocation is not touched by an insertion. *)
LEMMA InsertHoldsOld ==
  ASSUME IInv, pc # "idle", \A b \in Slots : slot'[b] = slot[b],
         used \subseteq used', pc' # "idle" => call'.fn = call.fn /\ call'.old = call.old
  PROVE  OldHeld'
<1> SUFFICES ASSUME pc' # "idle", call.fn = "realloc"
             PROVE  \E b \in UserChunks' : Contains(b, call.old)'
  BY DEF OldHeld, Contains
<1>1. PICK b \in UserChunks : Contains(b, call.old)
  BY DEF IInv, OldHeld
<1>2. b \in used' /\ slot'[b] = slot[b]
  BY <1>1, OnLists DEF UserChunks
<1> QED BY <1>1, <1>2 DEF UserChunks, Contains, Is

LEMMA CarveStep == ASSUME IInv, CarvePiece PROVE IInv'
<1> DEFINE a == call.mem
           n == call.need
           s == FreshPiece(n)
           st == [stats EXCEPT !.free_space = @ + n]
<1>1. /\ call \in CallType /\ a \in Nat /\ n \in Nat /\ n > 0 /\ call.bounds \in Int
      /\ Divided(n) /\ BLOCK_SIZE <= a /\ a <= call.bounds
      /\ call.bounds + n <= heap_high /\ heap_high <= HeapEnd /\ heap_high \in Nat
      /\ BLOCK_SIZE \in Nat /\ BLOCK_SIZE > 0 /\ HeapEnd \in Nat
  BY GeometryAssumption DEF CarvePiece, IInv, TypeOK, CallOK, CallType
<1>2. n \in 0 .. HeapEnd /\ n \in SizeClasses
  BY <1>1 DEF SizeClasses
<1>3. /\ s \in SlotType /\ s.size = n /\ s.seen = 0 /\ s.flags = {"FREE"}
      /\ s.flags \cap {"USER", "FREE", "ADMIN"} = {"FREE"}
  BY <1>2 DEF FreshPiece, NoSlot, SlotType, SlotFlags
<1>4. st \in StatsType
  <2>1. stats \in StatsType /\ n \in Int
    BY <1>1 DEF IInv, TypeOK
  <2> QED BY <2>1, BlocksType
<1>5. PICK level \in Levels : Insert(a, s, level, st)
  BY DEF CarvePiece
<1>6. /\ free_list' = [free_list EXCEPT ![n] = <<a>> \o @]
      /\ call' = [call EXCEPT !.mem = a + n]
      /\ pc' = (IF a + n <= call.bounds THEN "carve" ELSE "retake")
      /\ UNCHANGED <<iter, debug, wait_list, result, damage, handed>>
      /\ pc = "carve"
  BY <1>1 DEF CarvePiece, CallType
<1> HIDE DEF s, st
<1>7. /\ call' \in CallType /\ call'.mem = a + n /\ call'.bounds = call.bounds
      /\ call'.need = n /\ call'.fn = call.fn /\ call'.old = call.old
  <2> DEFINE next == a + n
  <2>1. next \in Nat /\ call' = [call EXCEPT !.mem = next]
    BY <1>1, <1>6
  <2> HIDE DEF next
  <2>2. /\ call' \in CallType /\ call'.mem = next /\ call'.bounds = call.bounds
        /\ call'.need = n /\ call'.fn = call.fn /\ call'.old = call.old
    BY <1>1, <2>1 DEF CallType
  <2> QED BY <2>2 DEF next
<1>8. /\ a \in Addr \ Slots /\ slot' \in [Addr -> SlotType] /\ slot'[a] = s
      /\ \A b \in Slots : slot'[b] = slot[b]
      /\ stats' \in StatsType /\ entry_free' \in [Levels -> Nat]
      /\ heap_high' \in Nat /\ heap_high <= heap_high' /\ heap_high' <= HeapEnd
  BY <1>3, <1>4, <1>5, <1>6, InsertOK
<1>9. used \subseteq used' /\ used' \subseteq Addr
  <2>1. PICK admin \in SUBSET Addr : used' = used \cup {c \in {a} : "FREE" = "USER"} \cup admin
    BY <1>3, <1>4, <1>5, <1>6, InsertOK
  <2> QED BY <2>1, OnLists
<1>10. NoOverlap' /\ OneKind' /\ UsedAgrees' /\ WaitAgrees' /\ BLOCK_SIZE <= heap_high'
  BY <1>3, <1>4, <1>5, <1>6, <1>7, InsertKeeps
<1>11. /\ <<a>> \o free_list[n] \in Seq(Addr) /\ IsInjective(<<a>> \o free_list[n])
       /\ Range(<<a>> \o free_list[n]) = {a} \cup Range(free_list[n])
  <2>1. a \notin Range(free_list[n]) /\ a \in Addr
    BY <1>2, <1>8, OnLists
  <2>2. free_list[n] \in Seq(Addr) /\ IsInjective(free_list[n])
    BY <1>2 DEF IInv, TypeOK, ListsAgree, FreeAgrees
  <2> QED BY <2>1, <2>2, PushOnList
<1>12. /\ free_list' \in [SizeClasses -> Seq(Addr)]
       /\ free_list'[n] = <<a>> \o free_list[n]
       /\ \A m \in SizeClasses \ {n} : free_list'[m] = free_list[m]
  BY <1>2, <1>6, <1>11 DEF IInv, TypeOK
<1>13. TypeOK'
  <2>1. pc' \in {"idle", "reuse", "carve", "retake", "insert", "replace"}
    BY <1>6
  <2>2. /\ iter' \in 0 .. MaxIter /\ debug' \in SUBSET DebugFlags /\ wait_list' \in Seq(Addr)
        /\ result' \in Results /\ damage' \in [Addr -> SUBSET Parts]
        /\ handed' \in [Addr -> Nat]
    BY <1>6 DEF IInv, TypeOK
  <2> QED BY <1>7, <1>8, <1>9, <1>12, <2>1, <2>2 DEF TypeOK
<1>14. CallOK'
  BY <1>1, <1>6, <1>7, <1>8 DEF CallOK
<1>15. OldHeld'
  BY <1>6, <1>7, <1>8, <1>9, InsertHoldsOld
<1>16. FreeAgrees' /\ FreeRested'
  <2> SUFFICES ASSUME NEW m \in SizeClasses
               PROVE  /\ IsInjective(free_list'[m])
                      /\ \A b \in Range(free_list'[m]) :
                           /\ Is("FREE", b)' /\ slot'[b].size = m /\ b \notin Waiting
                           /\ \/ slot'[b].seen = 0
                              \/ slot'[b].iter + FREED_POINTER_DELAY <= iter
    BY <1>6 DEF FreeAgrees, FreeRested, Waiting
  <2>1. IsInjective(free_list'[m])
    BY <1>11, <1>12 DEF IInv, ListsAgree, FreeAgrees
  <2>2. ASSUME NEW b \in Range(free_list'[m])
        PROVE  /\ Is("FREE", b)' /\ slot'[b].size = m /\ b \notin Waiting
               /\ \/ slot'[b].seen = 0
                  \/ slot'[b].iter + FREED_POINTER_DELAY <= iter
    <3>1. CASE b \in Range(free_list[m])
      <4>1. b \in Slots /\ slot'[b] = slot[b]
        BY <1>8, <3>1, OnLists
      <4>2. Is("FREE", b) /\ slot[b].size = m /\ b \notin Waiting
        BY <3>1 DEF IInv, ListsAgree, FreeAgrees
      <4>3. slot[b].seen = 0 \/ slot[b].iter + FREED_POINTER_DELAY <= iter
        BY <3>1 DEF IInv, FreeRested
      <4> QED BY <4>1, <4>2, <4>3 DEF Is
    <3>2. CASE b = a /\ m = n
      <4>1. slot'[b] = s /\ b \notin Waiting
        BY <1>8, <3>2, OnLists
      <4>2. "FREE" \in s.flags
        BY <1>3
      <4> QED BY <1>3, <3>2, <4>1, <4>2 DEF Is
    <3> QED BY <1>11, <1>12, <3>1, <3>2
  <2> QED BY <2>1, <2>2
<1> QED BY <1>10, <1>13, <1>14, <1>15, <1>16 DEF IInv, ListsAgree

LEMMA InsertBlocksStep == ASSUME IInv, InsertBlocks PROVE IInv'
<1> DEFINE a == call.mem
           n == call.need
           s == UserSlot(FreshPiece(n))
           st == Allocated(stats, n)
<1>1. /\ call \in CallType /\ a \in Nat /\ n \in Nat /\ n > 0 /\ call.bounds \in Int
      /\ a = call.bounds /\ call.bounds + n <= heap_high /\ heap_high <= HeapEnd
      /\ heap_high \in Nat /\ HeapEnd \in Nat
  BY GeometryAssumption DEF InsertBlocks, IInv, TypeOK, CallOK, CallType
<1>2. FreshPiece(n) \in SlotType /\ FreshPiece(n).size = n
  <2>1. n \in 0 .. HeapEnd
    BY <1>1
  <2> QED BY <2>1 DEF FreshPiece, NoSlot, SlotType, SlotFlags
<1>3. /\ s \in SlotType /\ s.size = n
      /\ s.flags \cap {"USER", "FREE", "ADMIN"} = {"USER"}
  BY <1>2, UserSlotType
<1>4. st \in StatsType
  <2>1. call.size \in Int /\ stats \in StatsType
    BY <1>1 DEF IInv, TypeOK, CallType
  <2> QED BY <1>1, <2>1, AllocatedType
<1>5. PICK level \in Levels : Insert(a, s, level, st)
  BY DEF InsertBlocks
<1>6. pc = "insert" /\ HandOut(a) /\ UNCHANGED <<iter, debug, free_list, wait_list>>
  BY DEF InsertBlocks
<1> HIDE DEF s, st
<1>7. /\ a \in Addr \ Slots /\ slot' \in [Addr -> SlotType] /\ slot'[a] = s
      /\ \A b \in Slots : slot'[b] = slot[b]
      /\ stats' \in StatsType /\ entry_free' \in [Levels -> Nat]
      /\ heap_high' \in Nat /\ heap_high <= heap_high' /\ heap_high' <= HeapEnd
  BY <1>3, <1>4, <1>5, <1>6, InsertOK
<1>8. used \subseteq used' /\ used' \subseteq Addr
  <2>1. PICK admin \in SUBSET Addr : used' = used \cup {c \in {a} : "USER" = "USER"} \cup admin
    BY <1>3, <1>4, <1>5, <1>6, InsertOK
  <2> QED BY <1>7, <2>1, OnLists
<1>9. /\ CallTypeOK' /\ CallOK' /\ pc' \notin {"carve", "insert"}
      /\ handed' \in [Addr -> Nat] /\ damage' \in [Addr -> SUBSET Parts]
      /\ pc' # "idle" => call' = call
  BY <1>6, <1>7, HandOutOK
<1>10. NoOverlap' /\ OneKind' /\ UsedAgrees' /\ WaitAgrees' /\ BLOCK_SIZE <= heap_high'
  BY <1>3, <1>4, <1>5, <1>6, <1>9, InsertKeeps
<1>11. TypeOK'
  <2>1. /\ iter' \in 0 .. MaxIter /\ debug' \in SUBSET DebugFlags /\ wait_list' \in Seq(Addr)
        /\ free_list' \in [SizeClasses -> Seq(Addr)]
    BY <1>6 DEF IInv, TypeOK
  <2> QED BY <1>7, <1>8, <1>9, <2>1 DEF TypeOK, CallTypeOK
<1>12. OldHeld'
  BY <1>6, <1>7, <1>8, <1>9, InsertHoldsOld
<1>13. FreeAgrees' /\ FreeRested'
  <2>1. \A m \in SizeClasses : \A b \in Range(free_list[m]) : slot'[b] = slot[b]
    BY <1>7, OnLists
  <2>2. free_list' = free_list /\ Waiting' = Waiting /\ iter' = iter
    BY <1>6 DEF Waiting
  <2>3. FreeAgrees'
    BY <2>1, <2>2 DEF IInv, ListsAgree, FreeAgrees, Is
  <2>4. FreeRested'
    BY <2>1, <2>2 DEF IInv, FreeRested
  <2> QED BY <2>3, <2>4
<1> QED BY <1>9, <1>10, <1>11, <1>12, <1>13 DEF IInv, ListsAgree

-----------------------------------------------------------------------------
(* The calls. *)

LEMMA ReturnsOK ==
  ASSUME IInv, NEW r \in Results, Returns(r), UNCHANGED heap,
         iter' \in 0 .. MaxIter, iter <= iter', debug' \in SUBSET DebugFlags
  PROVE  IInv'
<1>1. CallTypeOK' /\ CallOK' /\ OldHeld' /\ pc' = "idle"
  BY DEF Returns, NoCall, CallTypeOK, CallType, CallOK, OldHeld, Pointers
<1> QED BY <1>1, HeapUnchanged

LEMMA ErrorsAreResults ==
  /\ \A a, pnt : PointerError(a, pnt) \in Results
  /\ \A pnt : MissingError(pnt) \subseteq Results
<1>1. ASSUME NEW a, NEW now PROVE SlotError(a, now) \in Results
  BY DEF SlotError, Results
<1>2. ASSUME NEW a, NEW pnt PROVE PointerError(a, pnt) \in Results
  <2>1. SlotError(a, iter') \in Results
    BY <1>1
  <2>2. {"WOULD_OVERWRITE", "NOT_START_BLOCK"} \subseteq Results
    BY DEF Results
  <2> QED BY <2>1, <2>2 DEF PointerError
<1>3. ASSUME NEW pnt PROVE MissingError(pnt) \subseteq Results
  BY DEF MissingError, Results
<1> QED BY <1>2, <1>3

LEMMA UsedIsUserOrAdmin ==
  ASSUME IInv, NEW a \in used, ~Is("ADMIN", a)
  PROVE  a \in UserChunks
<1>1. a \in Slots /\ ~Is("FREE", a)
  BY DEF IInv, ListsAgree, UsedAgrees
<1>2. \E kind \in {"USER", "FREE", "ADMIN"} :
        slot[a].flags \cap {"USER", "FREE", "ADMIN"} = {kind}
  BY <1>1 DEF IInv, ListsAgree, OneKind
<1> QED BY <1>1, <1>2 DEF Is, UserChunks

LEMMA ChunkFreeStep ==
  ASSUME IInv, NEW pnt, ChunkFree(pnt), iter' \in 0 .. MaxIter, iter <= iter',
         debug' = debug, \A a \in Holders(pnt) : a \in UserChunks
  PROVE  IInv'
<1>1. debug' \in SUBSET DebugFlags
  BY DEF IInv, TypeOK
<1>2. ASSUME NEW r \in Results, Returns(r), UNCHANGED heap PROVE IInv'
  BY <1>1, <1>2, ReturnsOK
<1>3. CASE pnt = NULL /\ UNCHANGED heap
           /\ Returns(IF "ERROR_FREE_NULL" \in debug THEN "IS_NULL" ELSE "no_errno")
  <2>1. (IF "ERROR_FREE_NULL" \in debug THEN "IS_NULL" ELSE "no_errno") \in Results
    BY DEF Results
  <2> QED BY <1>2, <1>3, <2>1
<1>4. CASE UNCHANGED heap /\ \E error \in MissingError(pnt) : Returns(error)
  BY <1>2, <1>4, ErrorsAreResults
<1>5. ASSUME NEW a \in Holders(pnt), Returns(PointerError(a, pnt)), UNCHANGED heap
      PROVE  IInv'
  BY <1>2, <1>5, ErrorsAreResults
<1>6. ASSUME NEW a \in Holders(pnt), Returns("ok"), Release(a)
      PROVE  IInv'
  BY <1>6, ReleaseStep
<1> QED BY <1>3, <1>4, <1>5, <1>6 DEF ChunkFree

LEMMA EnterFacts ==
  ASSUME IInv, Enter
  PROVE  iter' \in 0 .. MaxIter /\ iter <= iter' /\ pc = "idle"
BY ParameterAssumption DEF IInv, TypeOK, Enter

LEMMA MallocStep ==
  ASSUME IInv, NEW fn \in {"malloc", "valloc"}, NEW size \in Nat, MallocCall(fn, size)
  PROVE  IInv'
<1>1. iter' \in 0 .. MaxIter /\ iter <= iter' /\ pc = "idle"
  BY EnterFacts DEF MallocCall
<1>2. CallTypeOK' /\ CallOK' /\ pc' \notin {"carve", "insert"} /\ UNCHANGED heap
  BY <1>1, BeginMallocOK DEF MallocCall, Pointers
<1>3. OldHeld' /\ debug' \in SUBSET DebugFlags
  <2>1. call'.fn \in {"none", "malloc", "valloc"}
    BY <1>1, BeginMallocOK DEF MallocCall, Pointers
  <2> QED BY <2>1 DEF OldHeld, MallocCall, IInv, TypeOK
<1> QED BY <1>1, <1>2, <1>3, HeapUnchanged

LEMMA KnownHolders ==
  ASSUME IInv, NEW pnt, Known(pnt)
  PROVE  \A a \in Holders(pnt) : a \in UserChunks
BY UsedIsUserOrAdmin DEF Known, Holders

LEMMA FreeStep == ASSUME IInv, NEW pnt \in Pointers, FreeCall(pnt) PROVE IInv'
BY EnterFacts, KnownHolders, ChunkFreeStep DEF FreeCall

LEMMA ReallocStep ==
  ASSUME IInv, NEW pnt \in Pointers, NEW size \in Nat, ReallocCall(pnt, size)
  PROVE  IInv'
<1>1. iter' \in 0 .. MaxIter /\ iter <= iter' /\ pc = "idle" /\ debug' = debug
  BY EnterFacts DEF ReallocCall
<1>2. (\A a \in Holders(pnt) : a \in UserChunks) /\ debug' \in SUBSET DebugFlags
  BY <1>1, KnownHolders DEF ReallocCall, IInv, TypeOK
<1>3. ASSUME BeginMalloc("malloc", size, NULL) PROVE IInv'
  <2>1. CallTypeOK' /\ CallOK' /\ pc' \notin {"carve", "insert"} /\ UNCHANGED heap
    BY <1>1, <1>3, BeginMallocOK DEF Pointers
  <2>2. call'.fn \in {"none", "malloc"}
    BY <1>1, <1>3, BeginMallocOK DEF Pointers
  <2> QED BY <1>1, <1>2, <2>1, <2>2, HeapUnchanged DEF OldHeld
<1>4. ASSUME Returns("NOT_FOUND"), UNCHANGED heap PROVE IInv'
  <2>1. "NOT_FOUND" \in Results
    BY DEF Results
  <2> QED BY <1>1, <1>2, <1>4, <2>1, ReturnsOK
<1>5. ASSUME NEW a \in Holders(pnt), BeginMalloc("realloc", size, pnt) PROVE IInv'
  <2>1. CallTypeOK' /\ CallOK' /\ pc' \notin {"carve", "insert"} /\ UNCHANGED heap
    BY <1>1, <1>5, BeginMallocOK
  <2>2. a \in UserChunks /\ Contains(a, pnt)
    BY <1>2 DEF Holders
  <2>3. pc' # "idle" /\ call'.fn = "realloc" => call'.old = pnt
    BY <1>5 DEF BeginMalloc, Returns, NoCall
  <2>4. OldHeld'
    BY <2>1, <2>2, <2>3 DEF OldHeld, UserChunks, Contains, Is, heap
  <2> QED BY <1>1, <1>2, <2>1, <2>4, HeapUnchanged
<1>6. ASSUME NEW a \in Holders(pnt), Returns("ok"), Resize(a, size) PROVE IInv'
  BY <1>1, <1>2, <1>6, ResizeStep
<1> QED BY <1>1, <1>2, <1>3, <1>4, <1>5, <1>6, ChunkFreeStep DEF ReallocCall

LEMMA ReplaceStep == ASSUME IInv, Replace PROVE IInv'
<1>1. PICK b \in UserChunks : Contains(b, call.old)
  BY DEF Replace, IInv, CallOK, OldHeld
<1>2. ASSUME NEW a \in Holders(call.old) PROVE a = b
  <2>1. /\ a \in Slots /\ b \in Slots /\ a \in Addr /\ b \in Addr
        /\ Contains(a, call.old) /\ Contains(b, call.old)
    BY <1>1, <1>2, OnLists DEF Holders, UserChunks
  <2>2. a \in Int /\ b \in Int /\ slot[a].size \in Int /\ slot[b].size \in Int
    BY <2>1, OnLists, GeometryAssumption DEF Addr, SizeClasses
  <2>3. call.old \in Int
    BY GeometryAssumption DEF IInv, TypeOK, CallType, Pointers, NULL, Addr
  <2>4. (a < b => a + slot[a].size <= b) /\ (b < a => b + slot[b].size <= a)
    BY <2>1 DEF IInv, NoOverlap, ChunksApart
  <2> QED BY <2>1, <2>2, <2>3, <2>4 DEF Contains
<1>3. iter' \in 0 .. MaxIter /\ iter <= iter' /\ debug' = debug
  BY ParameterAssumption DEF Replace, IInv, TypeOK
<1> QED BY <1>1, <1>2, <1>3, ChunkFreeStep DEF Replace

LEMMA FailStep == ASSUME IInv, AllocFails PROVE IInv'
<1>1. iter' \in 0 .. MaxIter /\ iter <= iter' /\ debug' \in SUBSET DebugFlags
  BY ParameterAssumption DEF AllocFails, IInv, TypeOK
<1>2. "ALLOC_FAILED" \in Results
  BY DEF Results
<1> QED BY <1>1, <1>2, ReturnsOK DEF AllocFails

LEMMA VerifyStep ==
  ASSUME IInv, VerifyHeap \/ \E pnt \in Addr : VerifyPointer(pnt)
  PROVE  IInv'
<1>1. /\ iter' \in 0 .. MaxIter /\ iter <= iter' /\ UNCHANGED heap
      /\ debug' \in SUBSET DebugFlags
  BY EnterFacts DEF VerifyHeap, VerifyPointer, IInv, TypeOK
<1>2. {"ok", "HEAP_BAD", "NOT_FOUND"} \subseteq Results
  BY DEF Results
<1>3. CASE VerifyHeap
  BY <1>1, <1>2, <1>3, ReturnsOK DEF VerifyHeap
<1>4. ASSUME NEW pnt \in Addr, VerifyPointer(pnt) PROVE IInv'
  BY <1>1, <1>2, <1>4, ErrorsAreResults, ReturnsOK DEF VerifyPointer
<1> QED BY <1>3, <1>4

LEMMA DebugStep ==
  ASSUME IInv, NEW flags \in Settings, DebugCall(flags)
  PROVE  IInv'
<1>1. iter' \in 0 .. MaxIter /\ iter <= iter' /\ debug' \in SUBSET DebugFlags
  BY ParameterAssumption DEF DebugCall, IInv, TypeOK
<1>2. CallTypeOK' /\ CallOK' /\ OldHeld' /\ UNCHANGED <<heap, pc, call>>
  BY DEF DebugCall, IInv, TypeOK, CallTypeOK, CallOK, OldHeld, UserChunks, Contains,
         Is, heap
<1> QED BY <1>1, <1>2, HeapUnchanged

LEMMA ScribbleStep ==
  ASSUME IInv, NEW a \in Addr, NEW part \in ScribbleParts, Scribble(a, part)
  PROVE  IInv'
<1>1. TypeOK'
  <2>1. part \in Parts
    BY ParameterAssumption
  <2>2. damage' \in [Addr -> SUBSET Parts]
    BY <2>1 DEF Scribble, IInv, TypeOK
  <2> QED BY <2>2 DEF Scribble, IInv, TypeOK
<1> QED BY <1>1 DEF Scribble, IInv, CallOK, NoOverlap, ChunksApart, CutApart, ChunksInHeap,
                    Slots, ListsAgree, OneKind, UsedAgrees, WaitAgrees, FreeAgrees, Waiting,
                    Is, OldHeld, UserChunks, Contains, FreeRested

LEMMA StutterStep == ASSUME IInv, UNCHANGED vars PROVE IInv'
<1>1. iter' \in 0 .. MaxIter /\ iter <= iter' /\ debug' \in SUBSET DebugFlags
  BY ParameterAssumption DEF vars, IInv, TypeOK
<1>2. CallTypeOK' /\ CallOK' /\ OldHeld' /\ UNCHANGED <<heap, pc, call>>
  BY DEF vars, IInv, TypeOK, CallTypeOK, CallOK, OldHeld, UserChunks, Contains, Is, heap
<1> QED BY <1>1, <1>2, HeapUnchanged

-----------------------------------------------------------------------------
(* The invariant. *)

LEMMA InitOK == ASSUME Init PROVE IInv
<1>1. /\ BLOCK_SIZE \in Nat /\ BLOCK_SIZE > 0 /\ 0 \in 0 .. MaxIter /\ 0 \in 0 .. HeapEnd
      /\ 0 \in Nat
  BY GeometryAssumption, ParameterAssumption
<1>2. NoSlot \in SlotType /\ NoSlot.flags = {}
  BY <1>1 DEF NoSlot, SlotType
<1>3. NoCall \in CallType
  BY DEF NoCall, CallType, Pointers
<1>4. Slots = {}
  BY <1>2 DEF Init, Slots
<1>5. Waiting = {} /\ IsInjective(wait_list) /\ wait_list \in Seq(Addr)
  BY DEF Init, Waiting, Range, IsInjective
<1>6. \A n \in SizeClasses : /\ free_list[n] \in Seq(Addr) /\ IsInjective(free_list[n])
                            /\ Range(free_list[n]) = {}
  BY DEF Init, Range, IsInjective
<1>7. stats \in StatsType
  BY DEF Init, StatsType
<1>8. TypeOK
  <2>1. /\ debug \in SUBSET DebugFlags /\ result \in Results
        /\ free_list \in [SizeClasses -> Seq(Addr)] /\ used \in SUBSET Addr
        /\ entry_free \in [Levels -> Nat] /\ damage \in [Addr -> SUBSET Parts]
        /\ handed \in [Addr -> Nat]
    BY <1>6, ParameterAssumption DEF Init, Results, NULL
  <2> QED BY <1>1, <1>2, <1>3, <1>5, <1>7, <2>1 DEF Init, TypeOK
<1>9. NoOverlap
  BY <1>4 DEF Init, NoOverlap, ChunksApart, CutApart, ChunksInHeap
<1>10. ListsAgree
  BY <1>4, <1>5, <1>6 DEF Init, ListsAgree, OneKind, UsedAgrees, WaitAgrees, FreeAgrees
<1>11. CallOK /\ OldHeld /\ FreeRested /\ BLOCK_SIZE <= heap_high
  BY <1>1, <1>6 DEF Init, CallOK, OldHeld, FreeRested
<1> QED BY <1>8, <1>9, <1>10, <1>11 DEF IInv

LEMMA NextOK == ASSUME IInv, [Next]_vars PROVE IInv'
<1>1. CASE Step
  BY <1>1, DrainStep, TakeStep, GrowStep, CarveStep, InsertBlocksStep, FailStep, ReplaceStep
  DEF Step
<1>2. CASE Program
  <2>1. ASSUME NEW fn \in MallocFns, NEW size \in Sizes, MallocCall(fn, size) PROVE IInv'
    <3>1. fn \in {"malloc", "valloc"} /\ size \in Nat
      BY ParameterAssumption
    <3> QED BY <2>1, <3>1, MallocStep
  <2>2. ASSUME NEW pnt \in Pointers, NEW size \in Sizes, ReallocCall(pnt, size) PROVE IInv'
    <3>1. size \in Nat
      BY ParameterAssumption
    <3> QED BY <2>2, <3>1, ReallocStep
  <2> QED BY <1>2, <2>1, <2>2, FreeStep, VerifyStep, DebugStep, ScribbleStep DEF Program
<1> QED BY <1>1, <1>2, StutterStep DEF Next

(* In every state of the library each chunk is on the one list its flags    *)
(* name, no two chunks share a byte and everything lies inside the heap,    *)
(* also between two steps of an allocation and after one that failed.       *)
THEOREM Safety == Spec => [](ListsAgree /\ NoOverlap)
<1>1. Init => IInv
  BY InitOK
<1>2. IInv /\ [Next]_vars => IInv'
  BY NextOK
<1>3. IInv => ListsAgree /\ NoOverlap
  BY DEF IInv
<1> QED BY <1>1, <1>2, <1>3, PTL DEF Spec

(* The inductive invariant itself, which the runs check too. *)
THEOREM Invariance == Spec => []IInv
<1>1. Init => IInv
  BY InitOK
<1>2. IInv /\ [Next]_vars => IInv'
  BY NextOK
<1> QED BY <1>1, <1>2, PTL DEF Spec

-----------------------------------------------------------------------------
(* What happens to a chunk that is free. *)

(* No step writes the slot of a free chunk but the one that hands it out.   *)
LEMMA FreeSlotStays ==
  ASSUME IInv, [Next]_vars, NEW a \in Slots, Is("FREE", a)
  PROVE  \/ slot'[a] = slot[a]
         \/ TakeFree /\ a = Head(free_list[call.need])
<1>1. a \in Addr /\ a \notin used
  BY DEF Slots, IInv, ListsAgree, UsedAgrees
<1>2. CASE TakeFree
  BY <1>1, <1>2 DEF TakeFree, IInv, TypeOK
<1>3. CASE CarvePiece
  <2>1. /\ call.need \in 0 .. HeapEnd /\ stats \in StatsType /\ call.need \in Int
        /\ pc = "carve"
    BY <1>3, GeometryAssumption DEF CarvePiece, IInv, TypeOK, CallOK, CallType
  <2>2. /\ FreshPiece(call.need) \in SlotType /\ FreshPiece(call.need).size = call.need
        /\ FreshPiece(call.need).flags \cap {"USER", "FREE", "ADMIN"} = {"FREE"}
    BY <2>1 DEF FreshPiece, NoSlot, SlotType, SlotFlags
  <2>3. [stats EXCEPT !.free_space = @ + call.need] \in StatsType
    BY <2>1, BlocksType
  <2> QED BY <1>3, <2>1, <2>2, <2>3, InsertOK DEF CarvePiece
<1>4. CASE InsertBlocks
  <2>1. /\ call.need \in 0 .. HeapEnd /\ stats \in StatsType /\ call.need \in Int
        /\ call.size \in Int /\ pc = "insert"
    BY <1>4, GeometryAssumption DEF InsertBlocks, IInv, TypeOK, CallOK, CallType
  <2>2. FreshPiece(call.need) \in SlotType /\ FreshPiece(call.need).size = call.need
    BY <2>1 DEF FreshPiece, NoSlot, SlotType, SlotFlags
  <2>3. /\ UserSlot(FreshPiece(call.need)) \in SlotType
        /\ UserSlot(FreshPiece(call.need)).size = call.need
        /\ UserSlot(FreshPiece(call.need)).flags \cap {"USER", "FREE", "ADMIN"} = {"USER"}
    BY <2>2, UserSlotType
  <2>4. Allocated(stats, call.need) \in StatsType
    BY <2>1, AllocatedType
  <2> QED BY <1>4, <2>1, <2>3, <2>4, InsertOK DEF InsertBlocks
<1>5. ASSUME NEW b \in used, Release(b) \/ \E size \in Nat : Resize(b, size)
      PROVE  slot'[a] = slot[a]
  BY <1>1, <1>5 DEF Release, Resize, IInv, TypeOK
<1>6. ASSUME NEW pnt, ChunkFree(pnt) PROVE slot'[a] = slot[a]
  BY <1>5, <1>6 DEF ChunkFree, Holders, heap
<1>7. CASE DrainOne \/ GrowHeap \/ AllocFails \/ Replace
  BY <1>6, <1>7 DEF DrainOne, GrowHeap, AllocFails, Replace, heap
<1>8. ASSUME NEW pnt \in Pointers, NEW size \in Sizes, ReallocCall(pnt, size)
      PROVE  slot'[a] = slot[a]
  <2>1. size \in Nat
    BY ParameterAssumption
  <2> QED BY <1>5, <1>6, <1>8, <2>1 DEF ReallocCall, Holders, heap, BeginMalloc
<1>9. CASE Program
  BY <1>6, <1>8, <1>9 DEF Program, MallocCall, BeginMalloc, FreeCall, VerifyHeap,
     VerifyPointer, DebugCall, Scribble, heap
<1>10. CASE UNCHANGED vars
  BY <1>10 DEF vars
<1> QED BY <1>2, <1>3, <1>4, <1>7, <1>9, <1>10 DEF Next, Step

LEMMA ReuseStep ==
  ASSUME IInv, [Next]_vars, NEW a \in Addr, Reused(a)
  PROVE  iter' >= slot[a].iter + FREED_POINTER_DELAY
<1>1. a \in Slots /\ Is("FREE", a) /\ slot[a].seen > 0
  BY DEF Reused, Is, Slots
<1>2. "USER" \notin slot[a].flags
  BY <1>1 DEF IInv, ListsAgree, OneKind, Is
<1>3. TakeFree /\ a = Head(free_list[call.need])
  BY <1>1, <1>2, FreeSlotStays DEF Reused
<1>4. a \in Range(free_list[call.need]) /\ call.need \in SizeClasses
  BY <1>3, TailOfList DEF TakeFree, Available, IInv, TypeOK, ListsAgree, FreeAgrees
<1>5. slot[a].seen = 0 \/ slot[a].iter + FREED_POINTER_DELAY <= iter
  BY <1>4 DEF IInv, FreeRested
<1>6. slot[a] \in SlotType /\ iter \in Nat
  BY ParameterAssumption DEF IInv, TypeOK
<1>7. iter' = iter
  BY <1>3 DEF TakeFree
<1>8. slot[a].seen \in Nat /\ slot[a].iter \in Nat
  BY <1>6 DEF SlotType
<1> QED BY <1>1, <1>5, <1>6, <1>7, <1>8, ParameterAssumption

(* FREED_POINTER_DELAY is kept: no step hands out a chunk that was freed    *)
(* fewer than that many calls ago, in whatever order the wait list was      *)
(* drained and however the sizes fell.                                      *)
THEOREM ReuseDelay == Spec => ReuseDelayed
<1>1. Init => IInv
  BY InitOK
<1>2. IInv /\ [Next]_vars => IInv'
  BY NextOK
<1>3. IInv /\ [Next]_vars =>
        [\A a \in Addr : Reused(a) => iter' >= slot[a].iter + FREED_POINTER_DELAY]_vars
  BY ReuseStep
<1> QED BY <1>1, <1>2, <1>3, PTL DEF Spec, ReuseDelayed

-----------------------------------------------------------------------------
(* The kinds of steps, by what they do to the heap. *)
Frees(a) ==
  /\ a \in UserChunks
  /\ Release(a) /\ Returns("ok") /\ SlotError(a, iter') = "ok"
  /\ UNCHANGED debug /\ iter' \in {iter, iter + 1}
Resizes(a, size) ==
  /\ a \in UserChunks /\ Enter /\ UNCHANGED debug
  /\ ~MustCopy(a, size) /\ Resize(a, size) /\ Returns("ok")
Begins(fn, size, old) == Enter /\ UNCHANGED debug /\ BeginMalloc(fn, size, old)
Quiet ==
  /\ UNCHANGED heap /\ iter' \in {iter, iter + 1}
  /\ UNCHANGED debug \/ debug' \in Settings
  /\ UNCHANGED <<iter, pc, call>> \/ (pc' = "idle" /\ call' = NoCall)

(* A free, or the last step of a copying realloc, frees one user chunk that *)
(* passed its checks, or changes nothing.                                   *)
LEMMA ChunkFreeKinds ==
  ASSUME IInv, NEW pnt \in Pointers, ChunkFree(pnt), iter' \in {iter, iter + 1},
         UNCHANGED debug,
         \A a \in Holders(pnt) : a \in UserChunks
  PROVE  Quiet \/ \E a \in Holders(pnt) : Frees(a) /\ UserStart(a) = pnt
<1>1. ASSUME NEW r, Returns(r), UNCHANGED heap PROVE Quiet
  BY <1>1 DEF Quiet, Returns
<1>2. ASSUME NEW a \in Holders(pnt), PointerError(a, pnt) = "ok", Returns("ok"), Release(a)
      PROVE  Frees(a) /\ UserStart(a) = pnt
  <2>1. a \in UserChunks /\ a \in Addr /\ slot[a] \in SlotType
    BY UserAlone, OnLists
  <2>2. UserStart(a) \in Int
    BY <2>1, GeometryAssumption DEF UserStart, UserOffset, Addr
  <2>3. ~(pnt < UserStart(a)) /\ ~(pnt > UserStart(a)) /\ SlotError(a, iter') = "ok"
    BY <1>2 DEF PointerError
  <2>4. pnt \in Int
    BY GeometryAssumption DEF Pointers, NULL, Addr
  <2> QED BY <1>2, <2>1, <2>2, <2>3, <2>4 DEF Frees
<1> QED BY <1>1, <1>2 DEF ChunkFree

(* The chunk the old pointer of a copying realloc lies in is the program's. *)
LEMMA OldHolders ==
  ASSUME IInv, pc = "replace"
  PROVE  call.old \in Pointers /\ \A a \in Holders(call.old) : a \in UserChunks
<1>1. PICK b \in UserChunks : Contains(b, call.old)
  BY DEF IInv, CallOK, OldHeld
<1>2. call.old \in Pointers
  BY DEF IInv, TypeOK, CallType
<1>3. ASSUME NEW a \in Holders(call.old) PROVE a = b
  <2>1. /\ a \in Slots /\ b \in Slots /\ a \in Addr /\ b \in Addr
        /\ Contains(a, call.old) /\ Contains(b, call.old)
    BY <1>1, <1>3, OnLists DEF Holders, UserChunks
  <2>2. a \in Int /\ b \in Int /\ slot[a].size \in Int /\ slot[b].size \in Int
    BY <2>1, OnLists, GeometryAssumption DEF Addr, SizeClasses
  <2>3. call.old \in Int
    BY <1>2, GeometryAssumption DEF Pointers, NULL, Addr
  <2>4. (a < b => a + slot[a].size <= b) /\ (b < a => b + slot[b].size <= a)
    BY <2>1 DEF IInv, NoOverlap, ChunksApart
  <2> QED BY <2>1, <2>2, <2>3, <2>4 DEF Contains
<1> QED BY <1>1, <1>2, <1>3

LEMMA StepKinds ==
  ASSUME IInv, Step
  PROVE  \/ TakeFree \/ CarvePiece \/ InsertBlocks \/ DrainOne \/ GrowHeap \/ Quiet
         \/ \E a \in UserChunks : Frees(a)
<1>1. iter \in Nat
  BY ParameterAssumption DEF IInv, TypeOK
<1>2. CASE AllocFails
  BY <1>2 DEF AllocFails, Returns, Quiet
<1>3. CASE Replace
  <2>1. pc = "replace" /\ iter' \in {iter, iter + 1} /\ UNCHANGED debug
    BY <1>3 DEF Replace
  <2>2. Quiet \/ \E a \in Holders(call.old) : Frees(a) /\ UserStart(a) = call.old
    BY <1>3, <2>1, OldHolders, ChunkFreeKinds DEF Replace
  <2> QED BY <2>1, <2>2, OldHolders
<1> QED BY <1>2, <1>3 DEF Step

LEMMA ReallocKinds ==
  ASSUME IInv, NEW pnt \in Pointers, NEW size \in Sizes, ReallocCall(pnt, size)
  PROVE  \/ Quiet \/ Begins("malloc", size, NULL)
         \/ Begins("realloc", size, pnt)
         \/ \E a \in Holders(pnt) : size # 0 /\ Resizes(a, size)
         \/ \E a \in Holders(pnt) : Frees(a) /\ UserStart(a) = pnt
<1>1. /\ Enter /\ UNCHANGED debug /\ iter' \in {iter, iter + 1}
      /\ \A a \in Holders(pnt) : a \in UserChunks
  BY KnownHolders DEF ReallocCall, Enter
<1>2. CASE ChunkFree(pnt)
  BY <1>1, <1>2, ChunkFreeKinds
<1>3. CASE BeginMalloc("malloc", size, NULL) \/ BeginMalloc("realloc", size, pnt)
  BY <1>1, <1>3 DEF Begins
<1>4. CASE Returns("NOT_FOUND") /\ UNCHANGED heap
  BY <1>1, <1>4 DEF Returns, Quiet
<1>5. ASSUME NEW a \in Holders(pnt), size > 0, ~MustCopy(a, size), Returns("ok"), Resize(a, size)
      PROVE  size # 0 /\ Resizes(a, size)
  BY <1>1, <1>5 DEF Resizes
<1> QED BY <1>2, <1>3, <1>4, <1>5 DEF ReallocCall

LEMMA ProgramKinds ==
  ASSUME IInv, Program
  PROVE  \/ \E fn \in MallocFns \cup {"malloc", "realloc"}, size \in Sizes, old \in Pointers :
               Begins(fn, size, old)
         \/ \E a \in UserChunks : Frees(a)
         \/ \E a \in UserChunks, size \in Sizes \ {0} : Resizes(a, size)
         \/ \E a \in Addr, part \in ScribbleParts : Scribble(a, part)
         \/ Quiet
<1>1. NULL \in Pointers
  BY DEF Pointers
<1>2. ASSUME NEW fn \in MallocFns, NEW size \in Sizes, MallocCall(fn, size)
      PROVE  Begins(fn, size, NULL)
  BY <1>2 DEF MallocCall, Begins
<1>3. ASSUME NEW pnt \in Pointers, FreeCall(pnt)
      PROVE  Quiet \/ \E a \in UserChunks : Frees(a)
  <2>1. /\ ChunkFree(pnt) /\ UNCHANGED debug /\ iter' \in {iter, iter + 1}
        /\ \A a \in Holders(pnt) : a \in UserChunks
    BY <1>3, KnownHolders DEF FreeCall, Enter
  <2> QED BY <2>1, ChunkFreeKinds
<1>4. ASSUME NEW pnt \in Pointers, NEW size \in Sizes, ReallocCall(pnt, size)
      PROVE  \/ Quiet \/ Begins("malloc", size, NULL)
             \/ Begins("realloc", size, pnt)
             \/ \E a \in UserChunks : size # 0 /\ Resizes(a, size)
             \/ \E a \in UserChunks : Frees(a)
  <2>1. \A a \in Holders(pnt) : a \in UserChunks
    BY <1>4, KnownHolders DEF ReallocCall
  <2> QED BY <1>4, <2>1, ReallocKinds
<1>5. CASE VerifyHeap \/ \E pnt \in Addr : VerifyPointer(pnt)
  BY <1>5 DEF VerifyHeap, VerifyPointer, Enter, Returns, Quiet
<1>6. ASSUME NEW flags \in Settings, DebugCall(flags) PROVE Quiet
  BY <1>6 DEF DebugCall, Quiet
<1> QED BY <1>1, <1>2, <1>3, <1>4, <1>5, <1>6 DEF Program

-----------------------------------------------------------------------------
(* Multiples of a block. *)

LEMMA MultipleRem ==
  ASSUME NEW B \in Nat, B > 0, NEW k \in Nat
  PROVE  (k * B) % B = 0 /\ (k * B) \div B = k
<1> DEFINE r == (k * B) % B
           q == (k * B) \div B
<1>1. r \in 0 .. B - 1 /\ q \in Int /\ k * B = B * q + r
  OBVIOUS
<1> HIDE DEF r, q
<1>2. r = B * (k - q)
  BY <1>1
<1>3. k - q \in Int
  BY <1>1
<1>4. k - q < 1
  BY <1>1, <1>2, <1>3
<1>5. k - q > -1
  BY <1>1, <1>2, <1>3
<1>6. k - q = 0
  BY <1>3, <1>4, <1>5
<1>7. r = 0 /\ q = k
  BY <1>1, <1>2, <1>6
<1> QED BY <1>7 DEF r, q

LEMMA MultiplesAdd ==
  ASSUME NEW B \in Nat, B > 0, NEW a \in Nat, NEW b \in Nat, a % B = 0, b % B = 0
  PROVE  (a + b) % B = 0
<1>1. /\ a \div B \in Nat /\ b \div B \in Nat
      /\ a = (a \div B) * B /\ b = (b \div B) * B
  OBVIOUS
<1>2. a + b = (a \div B + b \div B) * B
  BY <1>1
<1>3. a \div B + b \div B \in Nat
  BY <1>1
<1> QED BY <1>2, <1>3, MultipleRem

(* A size that was rounded is a piece of a block or a number of blocks.     *)
LEMMA RoundUpRounded == ASSUME NEW n \in Nat PROVE Rounded(RoundUp(n))
<1>1. BLOCK_SIZE \in Nat /\ BLOCK_SIZE > 0
  BY GeometryAssumption
<1>2. CASE Divided(n)
  BY <1>2, RoundUpFits DEF Rounded
<1>3. CASE ~Divided(n)
  <2> DEFINE blocks == (n + BLOCK_SIZE - 1) \div BLOCK_SIZE
  <2>1. blocks \in Nat
    BY <1>1
  <2>2. RoundUp(n) = blocks * BLOCK_SIZE
    BY <1>3 DEF RoundUp
  <2> HIDE DEF blocks
  <2> QED BY <1>1, <2>1, <2>2, MultipleRem DEF Rounded
<1> QED BY <1>2, <1>3

-----------------------------------------------------------------------------
(* What a call works out when it enters the library. *)

(* The room beside the user's bytes, by the fence posts and the alignment.  *)
RoomBelow(fence, fn) == IF ~fence THEN 0
                        ELSE IF fn = "valloc" THEN BLOCK_SIZE ELSE FENCE_BOTTOM_SIZE
RoomAbove(fence) == IF fence THEN FENCE_TOP_SIZE ELSE 0

LEMMA UserRoom ==
  /\ UserOffset(UserFlags) = RoomBelow(call.fence, call.fn)
  /\ FenceTop(UserFlags) = RoomAbove(call.fence)
BY DEF UserFlags, AllocBlank, BlankFlag, UserOffset, FenceTop, RoomBelow, RoomAbove

LEMMA UserRoomNext ==
  /\ UserOffset(UserFlags') = RoomBelow(call'.fence, call'.fn)
  /\ FenceTop(UserFlags') = RoomAbove(call'.fence)
BY DEF UserFlags, AllocBlank, BlankFlag, UserOffset, FenceTop, RoomBelow, RoomAbove

(* CallFits in terms of the call and the counters only.                     *)
Fits(where, c, given) ==
  /\ c.size <= LARGEST_ALLOCATION
  /\ c.size + RoomBelow(c.fence, c.fn) + RoomAbove(c.fence) <= c.need
  /\ Rounded(c.need)
  /\ c.fn = "valloc" => ~Divided(c.need) /\ "valloc" \in MallocFns
  /\ MemoryLimit > 0 /\ where # "replace" => given + c.need < MemoryLimit + BLOCK_SIZE

LEMMA CallFitsIs ==
  CallFits <=> (pc # "idle" => iter > 0 /\ Fits(pc, call, stats.cur_given))
BY UserRoom DEF CallFits, Fits

LEMMA CallFitsNext ==
  CallFits' <=> (pc' # "idle" => iter' > 0 /\ Fits(pc', call', stats'.cur_given))
BY UserRoomNext DEF CallFits, Fits

LEMMA NeededFits ==
  ASSUME NEW fn, NEW size \in Nat
  PROVE  LET fence == "FENCE" \in debug
             n == NeededSize(fn, size) IN
         /\ n \in Nat /\ size + RoomBelow(fence, fn) + RoomAbove(fence) <= n
         /\ fn = "valloc" => ~Divided(n)
<1>1. /\ BLOCK_SIZE \in Nat /\ BLOCK_SIZE > 0 /\ FENCE_BOTTOM_SIZE \in 1 .. BLOCK_SIZE
      /\ FENCE_TOP_SIZE \in Nat
  BY GeometryAssumption
<1>2. BLOCK_SIZE \div 2 \in Nat /\ BLOCK_SIZE \div 2 < BLOCK_SIZE
  BY <1>1
<1>3. CASE "FENCE" \in debug
  BY <1>1, <1>2, <1>3 DEF NeededSize, RoomBelow, RoomAbove, Divided
<1>4. CASE "FENCE" \notin debug
  BY <1>1, <1>2, <1>4 DEF NeededSize, RoomBelow, RoomAbove, Divided
<1> QED BY <1>3, <1>4

LEMMA BeginsFits ==
  ASSUME IInv, NEW fn \in MallocFns \cup {"malloc", "realloc"}, NEW size \in Nat, NEW old,
         Begins(fn, size, old)
  PROVE  CallFits' /\ UNCHANGED heap /\ UNCHANGED debug /\ iter' = iter + 1
         /\ pc' \in {"idle", "reuse"}
<1> DEFINE n == NeededSize(fn, size)
           fence == "FENCE" \in debug
<1>1. /\ n \in Nat /\ size + RoomBelow(fence, fn) + RoomAbove(fence) <= n
      /\ fn = "valloc" => ~Divided(n)
  BY NeededFits
<1>2. /\ RoundUp(n) \in Nat /\ n <= RoundUp(n) /\ RoundUp(n) < n + BLOCK_SIZE
      /\ Divided(n) <=> Divided(RoundUp(n))
      /\ Rounded(RoundUp(n))
  BY <1>1, RoundUpFits, RoundUpRounded
<1>3. /\ UNCHANGED heap /\ UNCHANGED debug /\ iter' = iter + 1 /\ iter \in Nat
      /\ stats'.cur_given = stats.cur_given /\ stats.cur_given \in Int
  BY ParameterAssumption DEF Begins, Enter, BeginMalloc, heap, IInv, TypeOK, StatsType
<1>4. CASE pc' = "idle"
  BY <1>3, <1>4, CallFitsNext
<1>5. CASE /\ pc' = "reuse" /\ size <= LARGEST_ALLOCATION
           /\ ~(MemoryLimit > 0 /\ stats.cur_given + n > MemoryLimit)
           /\ call' = [NoCall EXCEPT !.fn = fn, !.size = size, !.old = old,
                                     !.fence = "FENCE" \in debug, !.need = RoundUp(n)]
  <2>1. call'.fn = fn /\ call'.size = size /\ call'.need = RoundUp(n) /\ call'.fence = fence
    BY <1>5 DEF NoCall
  <2>2. /\ BLOCK_SIZE \in Nat /\ FENCE_BOTTOM_SIZE \in Nat /\ FENCE_TOP_SIZE \in Nat
        /\ MemoryLimit \in Nat
    BY GeometryAssumption, ParameterAssumption
  <2>3. RoomBelow(fence, fn) \in Nat /\ RoomAbove(fence) \in Nat
    BY <2>2 DEF RoomBelow, RoomAbove
  <2> HIDE DEF n, fence
  <2>4. size + RoomBelow(fence, fn) + RoomAbove(fence) <= RoundUp(n)
    BY <1>1, <1>2, <2>3
  <2>5. MemoryLimit > 0 => stats.cur_given + RoundUp(n) < MemoryLimit + BLOCK_SIZE
    BY <1>1, <1>2, <1>3, <1>5, <2>2
  <2>6. fn = "valloc" => ~Divided(RoundUp(n)) /\ "valloc" \in MallocFns
    BY <1>1, <1>2
  <2>7. Fits("reuse", call', stats'.cur_given)
    BY <1>2, <1>3, <1>5, <2>1, <2>4, <2>5, <2>6 DEF Fits
  <2> QED BY <1>3, <1>5, <2>7, CallFitsNext
<1>6. CASE pc' = "idle" \/ pc' = "reuse"
  BY <1>3, <1>4, <1>5 DEF Begins, BeginMalloc, Returns
<1> QED BY <1>3, <1>4, <1>5, <1>6 DEF Begins, BeginMalloc, Returns

-----------------------------------------------------------------------------
(* What is so of each slot by itself.                                       *)

Placed(a) ==
  /\ Rounded(slot[a].size)
  /\ Divided(slot[a].size) \/ a % BLOCK_SIZE = 0
  /\ Is("VALLOC", a) => ~Divided(slot[a].size) /\ "valloc" \in MallocFns
Timed(a) ==
  /\ slot[a].iter <= iter
  /\ slot[a].seen <= 2 * slot[a].iter + (IF Is("USER", a) THEN 0 ELSE 1)
  /\ Is("USER", a) => slot[a].seen > 0
  /\ slot[a].seen > 0 => /\ Contains(a, handed[a])
                         /\ handed[a] + slot[a].usize <= a + slot[a].size
Fitted(a) ==
  Is("USER", a) => /\ UserStart(a) + slot[a].usize <= UpperBounds(a)
                   /\ handed[a] = UserStart(a)
Sound(a) == Placed(a) /\ Timed(a) /\ Fitted(a) /\ damage[a] \subseteq WatchedParts(a)
AllSound == /\ \A a \in Slots : Sound(a)
            /\ \A a \in Addr \ Slots : damage[a] = {}
HeapPlaced == /\ heap_high % BLOCK_SIZE = 0
              /\ pc = "insert" => ~Divided(call.need) /\ call.mem % BLOCK_SIZE = 0

LEMMA WatchedOfNone == \A a \in Addr \ Slots : WatchedParts(a) = {}
BY DEF Slots, WatchedParts, Is

LEMMA UserChunksAre ==
  ASSUME IInv
  PROVE  \A a : a \in UserChunks <=> a \in Slots /\ Is("USER", a)
<1>1. \A a \in Slots : Is("USER", a) => ~Is("FREE", a)
  BY DEF IInv, ListsAgree, OneKind, Is
<1> QED BY <1>1 DEF UserChunks, IInv, ListsAgree, UsedAgrees

LEMMA CInvIs ==
  CInv <=> IInv /\ CallFits /\ HeapPlaced /\ AllSound /\ debug \in Settings
<1>1. ASSUME IInv PROVE UserFits <=> \A a \in Slots : Fitted(a)
  BY <1>1, UserChunksAre DEF UserFits, Fitted
<1>2. OnBlocks <=> HeapPlaced /\ \A a \in Slots : Placed(a)
  BY DEF OnBlocks, HeapPlaced, Placed
<1>3. SeenInTime <=> \A a \in Slots : Timed(a)
  BY DEF SeenInTime, Timed
<1>4. DamageWatched <=> /\ \A a \in Slots : damage[a] \subseteq WatchedParts(a)
                        /\ \A a \in Addr \ Slots : damage[a] = {}
  <2>1. Slots \subseteq Addr
    BY DEF Slots
  <2> QED BY <2>1, WatchedOfNone DEF DamageWatched
<1> QED BY <1>1, <1>2, <1>3, <1>4 DEF CInv, AllSound, Sound

LEMMA CInvIsNext ==
  CInv' <=> IInv' /\ CallFits' /\ HeapPlaced' /\ AllSound' /\ debug' \in Settings
<1>1. (CInv <=> IInv /\ CallFits /\ HeapPlaced /\ AllSound /\ debug \in Settings)'
  BY CInvIs, PTL
<1> QED BY <1>1

(* A slot that a step does not touch stays sound.                           *)
LEMMA UntouchedSound ==
  ASSUME IInv, NEW a \in Slots, Sound(a), slot'[a] = slot[a], handed'[a] = handed[a],
         damage'[a] = damage[a], iter' \in {iter, iter + 1}
  PROVE  Sound(a)'
<1>1. /\ a \in Addr /\ slot[a] \in SlotType /\ iter \in Nat /\ iter <= iter'
      /\ slot[a].iter \in Nat
  BY ParameterAssumption, OnLists DEF IInv, TypeOK, SlotType
<1>2. \A flag : Is(flag, a)' <=> Is(flag, a)
  BY DEF Is
<1>3. UserStart(a)' = UserStart(a) /\ UpperBounds(a)' = UpperBounds(a)
  BY DEF UserStart, UpperBounds
<1>4. WatchedParts(a)' = WatchedParts(a)
  BY <1>2, <1>3 DEF WatchedParts
<1>5. Placed(a)'
  BY <1>2 DEF Placed, Sound
<1>6. Fitted(a)'
  BY <1>2, <1>3 DEF Fitted, Sound
<1>7. Timed(a)'
  <2>1. Timed(a) /\ (slot[a].iter <= iter => slot[a].iter <= iter')
    BY <1>1 DEF Sound
  <2>2. Contains(a, handed[a])' <=> Contains(a, handed[a])
    BY DEF Contains
  <2> QED BY <1>2, <2>1, <2>2 DEF Timed
<1> QED BY <1>4, <1>5, <1>6, <1>7 DEF Sound

(* A slot the program is handed for the call that is under way.             *)
LEMMA HandedSound ==
  ASSUME IInv, CallFits, pc # "idle", NEW a \in Addr, NEW s \in SlotType,
         s.size = call.need, s.seen <= 2 * s.iter + 1, s.iter <= iter,
         Divided(call.need) \/ a % BLOCK_SIZE = 0,
         s.seen = 0 \/ s.iter < iter,
         slot'[a] = UserSlot(s), handed'[a] = a + UserOffset(UserFlags), damage'[a] = {},
         UNCHANGED iter
  PROVE  Sound(a)'
<1>1. /\ slot'[a].flags = UserFlags /\ slot'[a].usize = call.size /\ slot'[a].iter = iter
      /\ slot'[a].seen = s.seen + 1 /\ slot'[a].size = call.need
  BY DEF UserSlot, SlotType
<1>2. /\ iter > 0 /\ call.size \in Nat /\ call.need \in Nat /\ iter \in Nat
      /\ call.size + UserOffset(UserFlags) + FenceTop(UserFlags) <= call.need
      /\ Rounded(call.need)
      /\ call.fn = "valloc" => ~Divided(call.need) /\ "valloc" \in MallocFns
  BY ParameterAssumption DEF CallFits, IInv, TypeOK, CallType
<1>3. "USER" \in UserFlags /\ ("VALLOC" \in UserFlags <=> call.fn = "valloc")
  BY DEF UserFlags, AllocBlank, BlankFlag
<1>4. /\ UserOffset(UserFlags) \in Nat /\ FenceTop(UserFlags) \in Nat /\ a \in Nat
      /\ FenceTop(UserFlags) = 0 => UserOffset(UserFlags) = 0
      /\ call.need > 0
  BY GeometryAssumption DEF UserOffset, FenceTop, Addr, IInv, CallOK
<1>5. Placed(a)'
  BY <1>1, <1>2, <1>3 DEF Placed, Is
<1>6. /\ UserStart(a)' = a + UserOffset(UserFlags)
      /\ UpperBounds(a)' = a + call.need - FenceTop(UserFlags)
  BY <1>1 DEF UserStart, UpperBounds
<1>7. Fitted(a)'
  BY <1>1, <1>2, <1>4, <1>6 DEF Fitted
<1>8. s.seen \in Nat /\ s.iter \in Nat
  BY DEF SlotType
<1>9. Timed(a)'
  <2>1. s.seen + 1 <= 2 * iter
    BY <1>2, <1>8
  <2>2. Contains(a, handed[a])'
    BY <1>1, <1>2, <1>4 DEF Contains
  <2>3. handed'[a] + call.size <= a + call.need
    BY <1>2, <1>4
  <2> QED BY <1>1, <1>2, <1>3, <1>8, <2>1, <2>2, <2>3 DEF Timed, Is
<1> QED BY <1>5, <1>7, <1>9 DEF Sound

(* The steps, by the slots they touch. *)

LEMMA SameSound ==
  ASSUME IInv, AllSound, UNCHANGED <<slot, handed, damage>>, iter' \in {iter, iter + 1}
  PROVE  AllSound'
<1>1. Slots' = Slots
  BY DEF Slots
<1>2. \A a \in Slots : Sound(a)'
  BY UntouchedSound DEF AllSound
<1>3. (\A a \in Slots' : Sound(a)') => (\A a \in Slots : Sound(a))'
  OBVIOUS
<1> QED BY <1>1, <1>2, <1>3 DEF AllSound

LEMMA TakeFacts ==
  ASSUME IInv, TakeFree
  PROVE  LET n == call.need
             a == Head(free_list[n]) IN
         /\ n \in SizeClasses /\ a \in Range(free_list[n])
         /\ a \in Slots /\ Is("FREE", a) /\ slot[a].size = n /\ slot[a] \in SlotType
         /\ slot'[a] = UserSlot(slot[a]) /\ handed'[a] = a + UserOffset(UserFlags)
         /\ damage'[a] = {}
         /\ \A b \in Addr \ {a} : /\ slot'[b] = slot[b] /\ handed'[b] = handed[b]
                                  /\ damage'[b] = damage[b]
         /\ Slots' = Slots /\ pc \in {"reuse", "retake"} /\ iter' = iter
<1> DEFINE n == call.need
           a == Head(free_list[n])
<1>1. /\ n \in SizeClasses /\ free_list[n] \in Seq(Addr) /\ free_list[n] # <<>>
      /\ IsInjective(free_list[n]) /\ pc \in {"reuse", "retake"} /\ iter' = iter
  BY DEF TakeFree, Available, IInv, TypeOK, ListsAgree, FreeAgrees
<1>2. a \in Addr /\ a \in Range(free_list[n])
  BY <1>1, TailOfList
<1>3. a \in Slots /\ Is("FREE", a) /\ slot[a].size = n /\ slot[a] \in SlotType
  BY <1>1, <1>2, OnLists DEF IInv, ListsAgree, FreeAgrees
<1>4. /\ slot' = [slot EXCEPT ![a] = UserSlot(slot[a])]
      /\ handed' = [handed EXCEPT ![a] = a + UserOffset(UserFlags)]
      /\ damage' = [damage EXCEPT ![a] = {}]
  BY <1>2 DEF TakeFree, HandOut, IInv, TypeOK
<1> HIDE DEF a
<1>5. /\ slot'[a] = UserSlot(slot[a]) /\ handed'[a] = a + UserOffset(UserFlags)
      /\ damage'[a] = {}
      /\ \A b \in Addr \ {a} : /\ slot'[b] = slot[b] /\ handed'[b] = handed[b]
                               /\ damage'[b] = damage[b]
  BY <1>2, <1>4 DEF IInv, TypeOK
<1>6. Slots' = Slots
  <2>1. UserSlot(slot[a]).flags # {}
    BY <1>3, UserSlotType
  <2> QED BY <1>2, <1>3, <1>5, <2>1 DEF Slots
<1> QED BY <1>1, <1>2, <1>3, <1>5, <1>6 DEF a

LEMMA FreesFacts ==
  ASSUME IInv, NEW a \in UserChunks, Frees(a)
  PROVE  /\ a \in Slots /\ a \in Addr /\ Is("USER", a) /\ ~Is("FREE", a)
         /\ slot'[a].flags = {"FREE"} \cup (slot[a].flags \cap {"FENCE"}) \cup FreeBlank
         /\ slot'[a].iter = iter' /\ slot'[a].seen = slot[a].seen + 1
         /\ slot'[a].size = slot[a].size /\ slot'[a].usize = slot[a].usize
         /\ \A b \in Addr \ {a} : slot'[b] = slot[b]
         /\ Slots' = Slots /\ handed' = handed /\ damage' = damage
         /\ iter' \in {iter, iter + 1} /\ iter \in Nat /\ SlotError(a, iter') = "ok"
         /\ ~Is("USER", a)' /\ Is("FREE", a)'
<1>1. a \in Addr /\ a \in Slots /\ slot[a] \in SlotType /\ Is("USER", a) /\ ~Is("FREE", a)
  BY UserAlone, OnLists, UserChunksAre
<1> DEFINE flags == {"FREE"} \cup (slot[a].flags \cap {"FENCE"}) \cup FreeBlank
           s == [slot[a] EXCEPT !.flags = flags, !.iter = iter', !.seen = @ + 1]
<1>2. slot' = [slot EXCEPT ![a] = s]
  BY <1>1 DEF Frees, Release, IInv, TypeOK
<1>3. /\ s.flags = flags /\ s.iter = iter' /\ s.seen = slot[a].seen + 1
      /\ s.size = slot[a].size /\ s.usize = slot[a].usize
  BY <1>1 DEF SlotType
<1> HIDE DEF s
<1>4. slot'[a] = s /\ \A b \in Addr \ {a} : slot'[b] = slot[b]
  BY <1>1, <1>2 DEF IInv, TypeOK
<1>5. "FREE" \in flags /\ "USER" \notin flags
  BY DEF FreeBlank, BlankFlag
<1>6. slot'[a].flags = flags
  BY <1>3, <1>4
<1> HIDE DEF flags
<1>7. Slots' = Slots
  BY <1>1, <1>4, <1>5, <1>6 DEF Slots
<1>8. /\ handed' = handed /\ damage' = damage /\ iter' \in {iter, iter + 1}
      /\ iter \in Nat /\ SlotError(a, iter') = "ok"
  BY ParameterAssumption DEF Frees, Release, IInv, TypeOK
<1>9. ~Is("USER", a)' /\ Is("FREE", a)'
  BY <1>5, <1>6 DEF Is
<1> QED BY <1>1, <1>3, <1>4, <1>6, <1>7, <1>8, <1>9 DEF flags

LEMMA ResizesFacts ==
  ASSUME IInv, NEW a \in UserChunks, NEW size \in Nat, Resizes(a, size)
  PROVE  /\ a \in Slots /\ a \in Addr /\ Is("USER", a)
         /\ slot'[a].flags = slot[a].flags \cup AllocBlank
         /\ slot'[a].iter = iter' /\ slot'[a].seen = slot[a].seen + 2
         /\ slot'[a].size = slot[a].size /\ slot'[a].usize = size
         /\ \A b \in Addr \ {a} : slot'[b] = slot[b] /\ damage'[b] = damage[b]
         /\ Slots' = Slots /\ handed' = handed /\ damage'[a] = {}
         /\ iter' = iter + 1 /\ iter \in Nat
         /\ \A flag : flag # "BLANK" => (Is(flag, a)' <=> Is(flag, a))
         /\ UserStart(a) \in Int /\ UpperBounds(a) \in Int
         /\ UserStart(a) + size <= UpperBounds(a)
         /\ UserStart(a)' = UserStart(a) /\ UpperBounds(a)' = UpperBounds(a)
<1>1. a \in Addr /\ a \in Slots /\ slot[a] \in SlotType /\ Is("USER", a)
  BY UserAlone, OnLists, UserChunksAre
<1> DEFINE flags == slot[a].flags \cup AllocBlank
           s == [slot[a] EXCEPT !.flags = flags, !.usize = size, !.iter = iter', !.seen = @ + 2]
<1>2. slot' = [slot EXCEPT ![a] = s]
  BY <1>1 DEF Resizes, Resize, IInv, TypeOK
<1>3. /\ s.flags = flags /\ s.iter = iter' /\ s.seen = slot[a].seen + 2
      /\ s.size = slot[a].size /\ s.usize = size
  BY <1>1 DEF SlotType
<1> HIDE DEF s
<1>4. /\ handed' = handed /\ damage' = [damage EXCEPT ![a] = {}]
      /\ iter' = iter + 1 /\ iter \in Nat
  BY ParameterAssumption DEF Resizes, Enter, Resize, IInv, TypeOK
<1>5. /\ slot'[a] = s /\ damage'[a] = {}
      /\ \A b \in Addr \ {a} : slot'[b] = slot[b] /\ damage'[b] = damage[b]
  BY <1>1, <1>2, <1>4 DEF IInv, TypeOK
<1>6. slot'[a].flags = flags
  BY <1>3, <1>5
<1>7. Slots' = Slots
  BY <1>1, <1>5, <1>6 DEF Slots
<1>8. AllocBlank \subseteq {"BLANK"}
  BY DEF AllocBlank, BlankFlag
<1>9. \A flag : flag # "BLANK" => (Is(flag, a)' <=> Is(flag, a))
  BY <1>6, <1>8 DEF Is
<1>10. UserStart(a)' = UserStart(a) /\ UpperBounds(a)' = UpperBounds(a)
  BY <1>3, <1>5, <1>9 DEF UserStart, UserOffset, UpperBounds, FenceTop, Is
<1>11. UserStart(a) \in Int /\ UpperBounds(a) \in Int
  BY <1>1, GeometryAssumption
  DEF UserStart, UserOffset, UpperBounds, FenceTop, Addr, SlotType
<1>12. UserStart(a) + size <= UpperBounds(a)
  BY <1>11 DEF Resizes, MustCopy
<1> QED BY <1>1, <1>3, <1>4, <1>5, <1>6, <1>7, <1>9, <1>10, <1>11, <1>12 DEF flags

LEMMA TakeSound == ASSUME CInv, TakeFree PROVE AllSound'
<1> DEFINE n == call.need
<1>1. IInv /\ CallFits /\ AllSound
  BY CInvIs
<1>2. PICK a :
      /\ n \in SizeClasses /\ a \in Range(free_list[n])
      /\ a \in Slots /\ Is("FREE", a) /\ slot[a].size = n /\ slot[a] \in SlotType
      /\ slot'[a] = UserSlot(slot[a]) /\ handed'[a] = a + UserOffset(UserFlags)
      /\ damage'[a] = {}
      /\ \A b \in Addr \ {a} : /\ slot'[b] = slot[b] /\ handed'[b] = handed[b]
                               /\ damage'[b] = damage[b]
      /\ Slots' = Slots /\ pc # "idle" /\ iter' = iter
  BY <1>1, TakeFacts
<1>3. a \in Addr
  BY <1>2 DEF Slots
<1>4. Sound(a)'
  <2>1. "USER" \notin slot[a].flags
    BY <1>1, <1>2 DEF Is, IInv, ListsAgree, OneKind
  <2>2. Timed(a) /\ Placed(a) /\ slot[a].iter \in Nat /\ slot[a].seen \in Nat /\ iter \in Nat
    BY <1>1, <1>2, ParameterAssumption DEF AllSound, Sound, SlotType, IInv, TypeOK
  <2>3. slot[a].seen <= 2 * slot[a].iter + 1 /\ slot[a].iter <= iter
    BY <2>1, <2>2 DEF Timed, Is
  <2>4. Divided(call.need) \/ a % BLOCK_SIZE = 0
    BY <1>2, <2>2 DEF Placed
  <2>5. slot[a].seen = 0 \/ slot[a].iter < iter
    <3>1. slot[a].seen = 0 \/ slot[a].iter + FREED_POINTER_DELAY <= iter
      BY <1>1, <1>2 DEF IInv, FreeRested
    <3> QED BY <2>2, <3>1, ParameterAssumption
  <2>6. slot[a].size = call.need
    BY <1>2
  <2> HIDE DEF n
  <2> QED BY <1>1, <1>2, <1>3, <2>3, <2>4, <2>5, <2>6, HandedSound
<1>5. \A b \in Slots \ {a} : Sound(b)'
  BY <1>1, <1>2, UntouchedSound, OnLists DEF AllSound
<1>6. \A b \in Addr \ Slots : damage'[b] = {}
  BY <1>1, <1>2 DEF AllSound
<1> QED BY <1>2, <1>4, <1>5, <1>6 DEF AllSound

LEMMA FreesSound == ASSUME CInv, NEW a \in UserChunks, Frees(a) PROVE AllSound'
<1>1. IInv /\ AllSound
  BY CInvIs
<1> DEFINE flags == {"FREE"} \cup (slot[a].flags \cap {"FENCE"}) \cup FreeBlank
<1>2. /\ a \in Slots /\ a \in Addr /\ Is("USER", a) /\ ~Is("FREE", a)
      /\ slot'[a].flags = flags
      /\ slot'[a].iter = iter' /\ slot'[a].seen = slot[a].seen + 1
      /\ slot'[a].size = slot[a].size /\ slot'[a].usize = slot[a].usize
      /\ \A b \in Addr \ {a} : slot'[b] = slot[b]
      /\ Slots' = Slots /\ handed' = handed /\ damage' = damage
      /\ iter' \in {iter, iter + 1} /\ iter \in Nat /\ SlotError(a, iter') = "ok"
      /\ ~Is("USER", a)'
  BY <1>1, FreesFacts
<1>3. slot[a].seen \in Nat /\ slot[a].iter \in Nat /\ slot[a].usize \in Nat
  BY <1>1, <1>2, OnLists DEF SlotType
<1>4. damage[a] = {}
  <2>1. damage[a] \subseteq WatchedParts(a)
    BY <1>1, <1>2 DEF AllSound, Sound
  <2>2. WatchedParts(a) \subseteq {"below", "bottom", "top", "above"}
    BY <1>2 DEF WatchedParts
  <2>3. /\ "below" \notin damage[a] /\ "bottom" \notin damage[a]
        /\ "top" \notin damage[a] /\ "above" \notin damage[a]
    BY <1>2 DEF SlotError
  <2> QED BY <2>1, <2>2, <2>3
<1>5. Sound(a)'
  <2>1. Placed(a) /\ Timed(a)
    BY <1>1, <1>2 DEF AllSound, Sound
  <2>2. "VALLOC" \notin flags
    BY DEF FreeBlank, BlankFlag
  <2>3. Placed(a)'
    BY <1>2, <2>1, <2>2 DEF Placed, Is
  <2>4. Fitted(a)'
    BY <1>2 DEF Fitted
  <2>5. slot[a].seen <= 2 * slot[a].iter /\ slot[a].iter <= iter
    BY <1>2, <1>3, <2>1 DEF Timed
  <2>6. slot'[a].seen <= 2 * iter' + 1 /\ iter' <= iter'
    BY <1>2, <1>3, <2>5
  <2>7. slot[a].seen > 0 /\ Contains(a, handed[a])
        /\ handed[a] + slot[a].usize <= a + slot[a].size
    BY <1>2, <2>1 DEF Timed
  <2>8. Contains(a, handed[a])'
    BY <1>2, <2>7 DEF Contains
  <2>9. Timed(a)'
    BY <1>2, <1>3, <2>6, <2>7, <2>8 DEF Timed
  <2> QED BY <1>2, <1>4, <2>3, <2>4, <2>9 DEF Sound
<1>6. \A b \in Slots \ {a} : Sound(b)'
  BY <1>1, <1>2, UntouchedSound, OnLists DEF AllSound
<1> QED BY <1>1, <1>2, <1>5, <1>6 DEF AllSound

LEMMA ResizesSound ==
  ASSUME CInv, NEW a \in UserChunks, NEW size \in Nat, Resizes(a, size)
  PROVE  AllSound'
<1>1. IInv /\ AllSound
  BY CInvIs
<1>2. /\ a \in Slots /\ a \in Addr /\ Is("USER", a)
      /\ slot'[a].iter = iter' /\ slot'[a].seen = slot[a].seen + 2
      /\ slot'[a].size = slot[a].size /\ slot'[a].usize = size
      /\ \A b \in Addr \ {a} : slot'[b] = slot[b] /\ damage'[b] = damage[b]
      /\ Slots' = Slots /\ handed' = handed /\ damage'[a] = {}
      /\ iter' = iter + 1 /\ iter \in Nat
      /\ \A flag : flag # "BLANK" => (Is(flag, a)' <=> Is(flag, a))
      /\ UserStart(a) \in Int /\ UpperBounds(a) \in Int
      /\ UserStart(a) + size <= UpperBounds(a)
      /\ UserStart(a)' = UserStart(a) /\ UpperBounds(a)' = UpperBounds(a)
  BY <1>1, ResizesFacts
<1>3. /\ slot[a].seen \in Nat /\ slot[a].iter \in Nat /\ slot[a].size \in Nat
      /\ a \in Int /\ FenceTop(slot[a].flags) \in Nat
  BY <1>1, <1>2, OnLists, GeometryAssumption DEF SlotType, Addr, FenceTop
<1>4. Sound(a)'
  <2>1. Placed(a) /\ Timed(a) /\ Fitted(a)
    BY <1>1, <1>2 DEF AllSound, Sound
  <2>2. Placed(a)'
    BY <1>2, <2>1 DEF Placed
  <2>3. handed[a] = UserStart(a) /\ Is("USER", a)'
    BY <1>2, <2>1 DEF Fitted
  <2>4. Fitted(a)'
    BY <1>2, <2>3 DEF Fitted
  <2>5. slot[a].seen <= 2 * slot[a].iter /\ slot[a].iter <= iter
    BY <1>2, <1>3, <2>1 DEF Timed
  <2>6. slot'[a].seen <= 2 * iter' /\ slot'[a].seen > 0 /\ iter' <= iter'
    BY <1>2, <1>3, <2>5
  <2>7. Contains(a, handed[a])
    BY <1>2, <2>1 DEF Timed
  <2>8. Contains(a, handed[a])'
    BY <1>2, <2>7 DEF Contains
  <2>9. handed'[a] + size <= a + slot[a].size
    <3>1. UpperBounds(a) <= a + slot[a].size
      BY <1>3 DEF UpperBounds
    <3> QED BY <1>2, <1>3, <2>3, <3>1
  <2>10. Timed(a)'
    BY <1>2, <1>3, <2>3, <2>6, <2>8, <2>9 DEF Timed
  <2> QED BY <1>2, <2>2, <2>4, <2>10 DEF Sound
<1>5. \A b \in Slots \ {a} : Sound(b)'
  BY <1>1, <1>2, UntouchedSound, OnLists DEF AllSound
<1> QED BY <1>1, <1>2, <1>4, <1>5 DEF AllSound

(* What an insertion adds: the slot, and at times the slot of an admin block. *)
Inserted(s, st, kind, admin) ==
  /\ admin \subseteq {heap_high} /\ admin \subseteq Addr \ Slots /\ call.mem \notin admin
  /\ call.mem \in Addr \ Slots /\ slot'[call.mem] = s
  /\ \A b \in Addr \ (admin \cup {call.mem}) : slot'[b] = slot[b]
  /\ \A b \in admin : slot'[b] = AdminSlot
  /\ Slots' = Slots \cup {call.mem} \cup admin
  /\ used' = used \cup {c \in {call.mem} : kind = "USER"} \cup admin
  /\ heap_high' = heap_high + (IF admin = {} THEN 0 ELSE BLOCK_SIZE)
  /\ stats' = IF admin = {} THEN st ELSE [st EXCEPT !.admin_blocks = @ + 1]

LEMMA InsertAdds ==
  ASSUME IInv, pc \in {"carve", "insert"}, NEW s \in SlotType, s.size = call.need,
         NEW kind \in {"USER", "FREE"}, s.flags \cap {"USER", "FREE", "ADMIN"} = {kind},
         NEW level \in Levels, NEW st \in StatsType, Insert(call.mem, s, level, st)
  PROVE  \E admin : Inserted(s, st, kind, admin)
<1>1. /\ call.mem \in Addr \ Slots /\ slot' \in [Addr -> SlotType] /\ slot'[call.mem] = s
      /\ heap_high' <= HeapEnd /\ heap_high <= heap_high' /\ heap_high \in Nat
      /\ BLOCK_SIZE <= heap_high /\ BLOCK_SIZE \in Nat /\ BLOCK_SIZE > 0 /\ HeapEnd \in Nat
      /\ heap_high' \in Nat
  <2>1. /\ call.mem \in Addr \ Slots /\ slot' \in [Addr -> SlotType] /\ slot'[call.mem] = s
        /\ heap_high' \in Nat /\ heap_high <= heap_high' /\ heap_high' <= HeapEnd
    BY InsertOK
  <2> QED BY <2>1, GeometryAssumption DEF IInv, TypeOK
<1>2. s.flags # {} /\ ("USER" \in s.flags <=> kind = "USER")
  OBVIOUS
<1>3. call.mem # heap_high /\ heap_high \notin Slots
  <2>1. /\ call.mem \in Nat /\ call.bounds \in Int /\ call.need \in Nat /\ call.need > 0
        /\ call.mem <= call.bounds /\ call.bounds + call.need <= heap_high
    BY DEF IInv, TypeOK, CallOK, CallType
  <2>2. ASSUME heap_high \in Slots PROVE FALSE
    <3>1. slot[heap_high].size > 0 /\ heap_high + slot[heap_high].size <= heap_high
      BY <2>2 DEF IInv, NoOverlap, ChunksInHeap
    <3>2. slot[heap_high].size \in Int
      BY <2>2, OnLists, GeometryAssumption DEF SizeClasses
    <3> QED BY <1>1, <3>1, <3>2
  <2> QED BY <1>1, <2>1, <2>2
<1>4. CASE entry_free[level] > 0
  <2>1. /\ slot' = [slot EXCEPT ![call.mem] = s] /\ stats' = st /\ heap_high' = heap_high
        /\ used' = used \cup {c \in {call.mem} : "USER" \in s.flags}
    <3>1. ~(entry_free[level] = 0)
      BY <1>4 DEF IInv, TypeOK
    <3> QED BY <3>1 DEF Insert
  <2>2. \A b \in Addr \ {call.mem} : slot'[b] = slot[b]
    BY <1>1, <2>1 DEF IInv, TypeOK
  <2>3. Slots' = Slots \cup {call.mem}
    BY <1>1, <1>2, <2>2 DEF Slots
  <2>4. Inserted(s, st, kind, {})
    BY <1>1, <1>2, <2>1, <2>2, <2>3 DEF Inserted
  <2> QED BY <2>4
<1>5. CASE entry_free[level] = 0
  <2>1. /\ slot' = [slot EXCEPT ![call.mem] = s, ![heap_high] = AdminSlot]
        /\ stats' = [st EXCEPT !.admin_blocks = @ + 1]
        /\ heap_high' = heap_high + BLOCK_SIZE
        /\ used' = used \cup {c \in {call.mem} : "USER" \in s.flags} \cup {heap_high}
    BY <1>5 DEF Insert
  <2>2. heap_high \in Addr
    BY <1>1, <2>1 DEF Addr
  <2>3. /\ slot'[heap_high] = AdminSlot
        /\ \A b \in Addr \ {call.mem, heap_high} : slot'[b] = slot[b]
    BY <1>1, <2>1, <2>2 DEF IInv, TypeOK
  <2>4. Slots' = Slots \cup {call.mem} \cup {heap_high}
    <3>1. AdminSlot.flags # {}
      BY DEF AdminSlot, NoSlot
    <3> QED BY <1>1, <1>2, <2>2, <2>3, <3>1 DEF Slots
  <2>5. Inserted(s, st, kind, {heap_high})
    BY <1>1, <1>2, <1>3, <2>1, <2>2, <2>3, <2>4 DEF Inserted
  <2> QED BY <2>5
<1>6. entry_free[level] > 0 \/ entry_free[level] = 0
  BY DEF IInv, TypeOK
<1> QED BY <1>4, <1>5, <1>6

LEMMA PieceType ==
  ASSUME NEW n \in 0 .. HeapEnd
  PROVE  /\ FreshPiece(n) \in SlotType /\ FreshPiece(n).size = n
         /\ FreshPiece(n).flags = {"FREE"} /\ FreshPiece(n).iter = 0
         /\ FreshPiece(n).seen = 0 /\ FreshPiece(n).usize = 0
BY DEF FreshPiece, NoSlot, SlotType, SlotFlags

LEMMA NeedIsSize ==
  ASSUME IInv, pc \in {"carve", "insert"}
  PROVE  call.need \in 0 .. HeapEnd /\ call.need > 0
<1>1. /\ call.mem \in Nat /\ call.bounds \in Int /\ call.need \in Nat /\ call.need > 0
      /\ BLOCK_SIZE <= call.mem /\ call.mem <= call.bounds
      /\ call.bounds + call.need <= heap_high /\ heap_high <= HeapEnd /\ heap_high \in Nat
  BY DEF IInv, TypeOK, CallOK, CallType
<1> QED BY <1>1, GeometryAssumption

LEMMA CarveFacts ==
  ASSUME IInv, CarvePiece
  PROVE  /\ pc = "carve" /\ UNCHANGED <<iter, handed, damage, wait_list, debug>>
         /\ \E admin : Inserted(FreshPiece(call.need),
                                [stats EXCEPT !.free_space = @ + call.need], "FREE", admin)
<1>1. pc = "carve" /\ call.need \in 0 .. HeapEnd /\ call.need \in Int /\ stats \in StatsType
  BY NeedIsSize, GeometryAssumption DEF CarvePiece, IInv, TypeOK
<1>2. PICK level \in Levels :
        Insert(call.mem, FreshPiece(call.need), level,
               [stats EXCEPT !.free_space = @ + call.need])
  BY DEF CarvePiece
<1>3. [stats EXCEPT !.free_space = @ + call.need] \in StatsType
  BY <1>1, BlocksType
<1>4. /\ FreshPiece(call.need) \in SlotType /\ FreshPiece(call.need).size = call.need
      /\ FreshPiece(call.need).flags \cap {"USER", "FREE", "ADMIN"} = {"FREE"}
  BY <1>1, PieceType
<1>5. \E admin : Inserted(FreshPiece(call.need),
                          [stats EXCEPT !.free_space = @ + call.need], "FREE", admin)
  BY <1>1, <1>2, <1>3, <1>4, InsertAdds
<1> QED BY <1>1, <1>5 DEF CarvePiece

LEMMA InsertFacts ==
  ASSUME IInv, InsertBlocks
  PROVE  /\ pc = "insert" /\ UNCHANGED <<iter, wait_list, free_list, debug>>
         /\ handed' = [handed EXCEPT ![call.mem] = call.mem + UserOffset(UserFlags)]
         /\ damage' = [damage EXCEPT ![call.mem] = {}]
         /\ HandOut(call.mem)
         /\ \E admin : Inserted(UserSlot(FreshPiece(call.need)),
                                Allocated(stats, call.need), "USER", admin)
<1>1. pc = "insert" /\ call.need \in 0 .. HeapEnd /\ call.need \in Int /\ stats \in StatsType
      /\ call.size \in Int
  BY NeedIsSize, GeometryAssumption DEF InsertBlocks, IInv, TypeOK, CallType
<1>2. PICK level \in Levels :
        Insert(call.mem, UserSlot(FreshPiece(call.need)), level, Allocated(stats, call.need))
  BY DEF InsertBlocks
<1>3. Allocated(stats, call.need) \in StatsType
  BY <1>1, AllocatedType
<1>4. /\ UserSlot(FreshPiece(call.need)) \in SlotType
      /\ UserSlot(FreshPiece(call.need)).size = call.need
      /\ UserSlot(FreshPiece(call.need)).flags \cap {"USER", "FREE", "ADMIN"} = {"USER"}
  BY <1>1, PieceType, UserSlotType
<1>5. \E admin : Inserted(UserSlot(FreshPiece(call.need)),
                          Allocated(stats, call.need), "USER", admin)
  BY <1>1, <1>2, <1>3, <1>4, InsertAdds
<1> QED BY <1>1, <1>5 DEF InsertBlocks, HandOut

(* The admin block and the slots that were there before stay or are sound.  *)
LEMMA AdminSound ==
  ASSUME IInv, HeapPlaced, NEW a \in Addr, a = heap_high, slot'[a] = AdminSlot,
         damage'[a] = {}, iter' = iter
  PROVE  Sound(a)'
<1>1. /\ slot'[a].flags = {"ADMIN"} /\ slot'[a].size = BLOCK_SIZE /\ slot'[a].iter = 0
      /\ slot'[a].seen = 0
  BY DEF AdminSlot, NoSlot
<1>2. BLOCK_SIZE \in Nat /\ BLOCK_SIZE > 0 /\ BLOCK_SIZE % BLOCK_SIZE = 0 /\ iter \in Nat
  <2>1. BLOCK_SIZE \in Nat /\ BLOCK_SIZE > 0 /\ 1 * BLOCK_SIZE = BLOCK_SIZE
    BY GeometryAssumption
  <2>2. BLOCK_SIZE % BLOCK_SIZE = 0
    BY <2>1, MultipleRem
  <2> QED BY <2>1, <2>2, ParameterAssumption DEF IInv, TypeOK
<1>3. Placed(a)'
  BY <1>1, <1>2 DEF Placed, Rounded, Is, HeapPlaced
<1>4. Timed(a)'
  BY <1>1, <1>2 DEF Timed, Is
<1>5. Fitted(a)'
  BY <1>1 DEF Fitted, Is
<1> QED BY <1>3, <1>4, <1>5 DEF Sound

LEMMA CarveSound == ASSUME CInv, CarvePiece PROVE AllSound'
<1>1. IInv /\ HeapPlaced /\ AllSound /\ CallFits
  BY CInvIs
<1>2. PICK admin : Inserted(FreshPiece(call.need),
                            [stats EXCEPT !.free_space = @ + call.need], "FREE", admin)
  BY <1>1, CarveFacts
<1>3. pc = "carve" /\ UNCHANGED <<iter, handed, damage>>
  BY <1>1, CarveFacts
<1>4. PICK a \in Addr \ Slots : a = call.mem
  BY <1>2 DEF Inserted
<1>5. /\ admin \subseteq {heap_high} /\ admin \subseteq Addr \ Slots
      /\ slot'[a] = FreshPiece(call.need) /\ Slots' = Slots \cup {a} \cup admin
      /\ \A b \in Addr \ (admin \cup {a}) : slot'[b] = slot[b]
      /\ \A b \in admin : slot'[b] = AdminSlot
  BY <1>2, <1>4 DEF Inserted
<1>6. Sound(a)'
  <2>1. Divided(call.need) /\ call.need \in 0 .. HeapEnd
    BY <1>1, <1>3, NeedIsSize DEF IInv, CallOK
  <2>2. /\ slot'[a].flags = {"FREE"} /\ slot'[a].size = call.need
        /\ slot'[a].iter = 0 /\ slot'[a].seen = 0
    BY <1>5, <2>1, PieceType
  <2>3. damage'[a] = {} /\ iter' \in Nat
    BY <1>1, <1>3, <1>4, ParameterAssumption DEF AllSound, IInv, TypeOK
  <2> QED BY <2>1, <2>2, <2>3 DEF Sound, Placed, Timed, Fitted, Is, Rounded
<1>7. \A b \in admin : Sound(b)'
  <2> SUFFICES ASSUME NEW b \in admin PROVE Sound(b)'
    OBVIOUS
  <2>1. b \in Addr \ Slots /\ b = heap_high /\ slot'[b] = AdminSlot
    BY <1>5
  <2>2. damage'[b] = {} /\ iter' = iter
    BY <1>1, <1>3, <2>1 DEF AllSound
  <2> QED BY <1>1, <2>1, <2>2, AdminSound
<1>8. \A b \in Slots : Sound(b)'
  BY <1>1, <1>3, <1>4, <1>5, UntouchedSound, OnLists DEF AllSound
<1>9. \A b \in Addr \ Slots' : damage'[b] = {}
  BY <1>1, <1>3, <1>5 DEF AllSound
<1> QED BY <1>5, <1>6, <1>7, <1>8, <1>9 DEF AllSound

LEMMA InsertSound == ASSUME CInv, InsertBlocks PROVE AllSound'
<1>1. IInv /\ HeapPlaced /\ AllSound /\ CallFits
  BY CInvIs
<1>2. PICK admin : Inserted(UserSlot(FreshPiece(call.need)),
                            Allocated(stats, call.need), "USER", admin)
  BY <1>1, InsertFacts
<1>3. PICK a \in Addr \ Slots : a = call.mem
  BY <1>2 DEF Inserted
<1>4. /\ pc = "insert" /\ iter' = iter /\ iter \in Nat
      /\ handed'[a] = a + UserOffset(UserFlags) /\ damage'[a] = {}
      /\ \A b \in Addr \ {a} : handed'[b] = handed[b] /\ damage'[b] = damage[b]
  BY <1>1, <1>3, InsertFacts, ParameterAssumption DEF IInv, TypeOK
<1>5. /\ admin \subseteq {heap_high} /\ admin \subseteq Addr \ Slots /\ a \notin admin
      /\ slot'[a] = UserSlot(FreshPiece(call.need)) /\ Slots' = Slots \cup {a} \cup admin
      /\ \A b \in Addr \ (admin \cup {a}) : slot'[b] = slot[b]
      /\ \A b \in admin : slot'[b] = AdminSlot
  BY <1>2, <1>3 DEF Inserted
<1>6. Sound(a)'
  <2>1. call.need \in 0 .. HeapEnd /\ a % BLOCK_SIZE = 0
    BY <1>1, <1>3, <1>4, NeedIsSize DEF HeapPlaced
  <2>2. PICK s : s = FreshPiece(call.need)
    OBVIOUS
  <2>3. s \in SlotType /\ s.size = call.need /\ s.iter = 0 /\ s.seen = 0
    BY <2>1, <2>2, PieceType
  <2>4. s.seen <= 2 * s.iter + 1 /\ s.iter <= iter
    BY <1>4, <2>3
  <2>5. slot'[a] = UserSlot(s) /\ pc # "idle" /\ a \in Addr
    BY <1>4, <1>5, <2>2
  <2> QED BY <1>1, <1>4, <2>1, <2>3, <2>4, <2>5, HandedSound
<1>7. \A b \in admin : Sound(b)'
  <2> SUFFICES ASSUME NEW b \in admin PROVE Sound(b)'
    OBVIOUS
  <2>1. b \in Addr \ Slots /\ b = heap_high /\ slot'[b] = AdminSlot /\ b # a
    BY <1>5
  <2>2. damage'[b] = {}
    BY <1>1, <1>4, <2>1 DEF AllSound
  <2> QED BY <1>1, <1>4, <2>1, <2>2, AdminSound
<1>8. \A b \in Slots : Sound(b)'
  BY <1>1, <1>3, <1>4, <1>5, UntouchedSound, OnLists DEF AllSound
<1>9. \A b \in Addr \ Slots' : damage'[b] = {}
  BY <1>1, <1>4, <1>5 DEF AllSound
<1> QED BY <1>5, <1>6, <1>7, <1>8, <1>9 DEF AllSound

LEMMA ScribbleSound ==
  ASSUME CInv, NEW a \in Addr, NEW part \in ScribbleParts, Scribble(a, part)
  PROVE  AllSound'
<1>1. IInv /\ AllSound
  BY CInvIs
<1>2. /\ UNCHANGED <<slot, handed, iter>> /\ part \in WatchedParts(a)
      /\ damage' = [damage EXCEPT ![a] = @ \cup {part}]
  BY DEF Scribble
<1>3. \A b \in Addr : damage'[b] = IF b = a THEN damage[a] \cup {part} ELSE damage[b]
  BY <1>1, <1>2 DEF IInv, TypeOK
<1>4. Slots' = Slots /\ a \in Slots
  BY <1>2, WatchedOfNone DEF Slots
<1>5. ASSUME NEW b \in Slots PROVE Sound(b)'
  <2>1. WatchedParts(b)' = WatchedParts(b)
    BY <1>2 DEF WatchedParts, Is, UserStart, UpperBounds
  <2>2. damage'[b] \subseteq WatchedParts(b)'
    BY <1>1, <1>2, <1>3, <1>4, <2>1, OnLists DEF AllSound, Sound
  <2>3. Placed(b) /\ Timed(b) /\ Fitted(b)
    BY <1>1 DEF AllSound, Sound
  <2>4. Placed(b)' /\ Timed(b)' /\ Fitted(b)'
    BY <1>2, <2>3 DEF Placed, Timed, Fitted, Is, UserStart, UpperBounds, Contains
  <2> QED BY <2>2, <2>4 DEF Sound
<1>6. \A b \in Addr \ Slots : damage'[b] = {}
  BY <1>1, <1>3, <1>4 DEF AllSound
<1> QED BY <1>4, <1>5, <1>6 DEF AllSound

-----------------------------------------------------------------------------
(* What a call knows, step by step. *)

CallKept == CallFits' /\ HeapPlaced' /\ debug' \in Settings

LEMMA IdleKept ==
  ASSUME HeapPlaced, pc' = "idle", UNCHANGED heap_high, debug' \in Settings
  PROVE  CallKept
BY DEF CallKept, CallFits, HeapPlaced

(* A step of a loop that leaves the size of the call and what is given.     *)
LEMMA LoopKept ==
  ASSUME IInv, CallFits, pc # "idle", pc # "replace", UNCHANGED <<iter, debug>>,
         debug \in Settings,
         pc' = "replace" \/ stats'.cur_given = stats.cur_given,
         \A f \in {"fn", "size", "fence", "need"} : call'[f] = call[f],
         heap_high' % BLOCK_SIZE = 0,
         pc' = "insert" => ~Divided(call.need) /\ call'.mem % BLOCK_SIZE = 0
  PROVE  CallKept
<1>1. /\ call'.fn = call.fn /\ call'.size = call.size /\ call'.fence = call.fence
      /\ call'.need = call.need
  OBVIOUS
<1>2. iter > 0 /\ Fits(pc, call, stats.cur_given)
  BY CallFitsIs
<1>3. Fits(pc', call', stats'.cur_given)
  BY <1>1, <1>2 DEF Fits
<1>4. HeapPlaced'
  BY <1>1 DEF HeapPlaced, Divided
<1> QED BY <1>2, <1>3, <1>4, CallFitsNext DEF CallKept

LEMMA HandOutKept ==
  ASSUME IInv, CallFits, pc # "idle", pc # "replace", UNCHANGED <<iter, debug>>,
         debug \in Settings, heap_high' % BLOCK_SIZE = 0, NEW a, HandOut(a)
  PROVE  CallKept
<1>1. CASE call.fn = "realloc"
  <2>1. pc' = "replace" /\ call' = call
    BY <1>1 DEF HandOut
  <2> QED BY <2>1, LoopKept
<1>2. CASE call.fn # "realloc"
  <2>1. pc' = "idle"
    BY <1>2 DEF HandOut, Returns
  <2> QED BY <2>1 DEF CallKept, CallFits, HeapPlaced
<1> QED BY <1>1, <1>2

(* The heap's end stays on a block boundary when an admin block is added.   *)
LEMMA BlockMore ==
  ASSUME NEW h \in Nat, h % BLOCK_SIZE = 0
  PROVE  (h + 0) % BLOCK_SIZE = 0 /\ (h + BLOCK_SIZE) % BLOCK_SIZE = 0
<1>1. BLOCK_SIZE \in Nat /\ BLOCK_SIZE > 0 /\ 1 * BLOCK_SIZE = BLOCK_SIZE /\ h + 0 = h
  BY GeometryAssumption
<1>2. BLOCK_SIZE % BLOCK_SIZE = 0
  BY <1>1, MultipleRem
<1> QED BY <1>1, <1>2, MultiplesAdd

LEMMA TakeKept == ASSUME CInv, TakeFree PROVE CallKept
<1>1. IInv /\ CallFits /\ HeapPlaced /\ debug \in Settings
  BY CInvIs
<1>2. /\ pc # "idle" /\ pc # "replace" /\ UNCHANGED <<iter, debug, heap_high>>
      /\ HandOut(Head(free_list[call.need]))
  BY DEF TakeFree
<1> QED BY <1>1, <1>2, HandOutKept DEF HeapPlaced

LEMMA InsertKept == ASSUME CInv, InsertBlocks PROVE CallKept
<1>1. IInv /\ CallFits /\ HeapPlaced /\ debug \in Settings /\ heap_high \in Nat
  BY CInvIs DEF IInv, TypeOK
<1>2. PICK admin : Inserted(UserSlot(FreshPiece(call.need)),
                            Allocated(stats, call.need), "USER", admin)
  BY <1>1, InsertFacts
<1>3. heap_high' % BLOCK_SIZE = 0
  BY <1>1, <1>2, BlockMore DEF Inserted, HeapPlaced
<1>4. /\ pc # "idle" /\ pc # "replace" /\ UNCHANGED <<iter, debug>> /\ HandOut(call.mem)
  BY <1>1, InsertFacts
<1> QED BY <1>1, <1>3, <1>4, HandOutKept

LEMMA CarveKept == ASSUME CInv, CarvePiece PROVE CallKept
<1>1. IInv /\ CallFits /\ HeapPlaced /\ debug \in Settings /\ heap_high \in Nat
      /\ stats \in StatsType /\ call \in CallType
  BY CInvIs DEF IInv, TypeOK
<1>2. PICK admin : Inserted(FreshPiece(call.need),
                            [stats EXCEPT !.free_space = @ + call.need], "FREE", admin)
  BY <1>1, CarveFacts
<1>3. heap_high' % BLOCK_SIZE = 0
  BY <1>1, <1>2, BlockMore DEF Inserted, HeapPlaced
<1>4. stats'.cur_given = stats.cur_given
  BY <1>1, <1>2 DEF Inserted, StatsType
<1>5. /\ pc = "carve" /\ UNCHANGED <<iter, debug>> /\ pc' # "insert"
      /\ call' = [call EXCEPT !.mem = @ + call.need]
  BY DEF CarvePiece
<1>6. \A f \in {"fn", "size", "fence", "need"} : call'[f] = call[f]
  BY <1>1, <1>5 DEF CallType
<1> QED BY <1>1, <1>3, <1>4, <1>5, <1>6, LoopKept

LEMMA GrowKept == ASSUME CInv, GrowHeap PROVE CallKept
<1> DEFINE grown == IF Divided(call.need) THEN BLOCK_SIZE ELSE call.need
<1>1. IInv /\ CallFits /\ HeapPlaced /\ debug \in Settings /\ heap_high \in Nat
      /\ stats \in StatsType /\ call \in CallType /\ call.need \in Nat
  BY CInvIs DEF IInv, TypeOK, CallType
<1>2. /\ pc = "reuse" /\ UNCHANGED <<iter, debug>> /\ heap_high' = heap_high + grown
      /\ stats' = [stats EXCEPT !.user_blocks = @ + grown \div BLOCK_SIZE]
      /\ pc' = IF Divided(call.need) THEN "carve" ELSE "insert"
      /\ call' = [call EXCEPT !.mem = heap_high, !.bounds = heap_high + grown - call.need]
  BY DEF GrowHeap
<1>3. heap_high' % BLOCK_SIZE = 0
  <2>1. heap_high % BLOCK_SIZE = 0 /\ BLOCK_SIZE \in Nat /\ BLOCK_SIZE > 0
    BY <1>1, GeometryAssumption DEF HeapPlaced
  <2>2. CASE Divided(call.need)
    BY <1>1, <1>2, <2>1, <2>2, BlockMore
  <2>3. CASE ~Divided(call.need)
    <3>1. call.need % BLOCK_SIZE = 0
      BY <1>1, <1>2, <2>3 DEF CallFits, Rounded
    <3> QED BY <1>1, <1>2, <2>1, <2>3, <3>1, MultiplesAdd
  <2> QED BY <2>2, <2>3
<1>4. stats'.cur_given = stats.cur_given
  BY <1>1, <1>2 DEF StatsType
<1>5. \A f \in {"fn", "size", "fence", "need"} : call'[f] = call[f]
  BY <1>1, <1>2 DEF CallType
<1>6. pc' = "insert" => ~Divided(call.need) /\ call'.mem % BLOCK_SIZE = 0
  BY <1>1, <1>2 DEF HeapPlaced, CallType
<1> QED BY <1>1, <1>2, <1>3, <1>4, <1>5, <1>6, LoopKept

LEMMA DrainKept == ASSUME CInv, DrainOne PROVE CallKept
<1>1. IInv /\ CallFits /\ HeapPlaced /\ debug \in Settings
  BY CInvIs
<1> QED BY <1>1, LoopKept DEF DrainOne, HeapPlaced

LEMMA QuietKept == ASSUME CInv, Quiet PROVE CallKept
<1>1. IInv /\ CallFits /\ HeapPlaced /\ debug \in Settings
  BY CInvIs
<1>2. UNCHANGED <<heap_high, stats>> /\ debug' \in Settings
  BY <1>1 DEF Quiet, heap
<1>3. CASE UNCHANGED <<iter, pc, call>>
  BY <1>1, <1>2, <1>3, CallFitsIs, CallFitsNext DEF CallKept, HeapPlaced, Divided
<1>4. CASE pc' = "idle"
  BY <1>1, <1>2, <1>4, IdleKept
<1> QED BY <1>3, <1>4 DEF Quiet

-----------------------------------------------------------------------------
(* The invariant of the calls. *)

LEMMA CallInit == ASSUME Init PROVE CInv
<1>1. IInv /\ debug \in Settings /\ CallFits
  BY InitOK DEF Init, CallFits
<1>2. HeapPlaced
  <2>1. BLOCK_SIZE \in Nat /\ BLOCK_SIZE > 0 /\ 1 * BLOCK_SIZE = BLOCK_SIZE
    BY GeometryAssumption
  <2>2. BLOCK_SIZE % BLOCK_SIZE = 0
    BY <2>1, MultipleRem
  <2> QED BY <2>2 DEF Init, HeapPlaced
<1>3. AllSound
  <2>1. Slots = {}
    BY DEF Init, Slots, NoSlot
  <2> QED BY <2>1 DEF Init, AllSound
<1> QED BY <1>1, <1>2, <1>3, CInvIs

LEMMA CallNext == ASSUME CInv, [Next]_vars PROVE CInv'
<1>1. IInv /\ AllSound /\ HeapPlaced /\ debug \in Settings
  BY CInvIs
<1>2. IInv'
  BY <1>1, NextOK
<1>3. ASSUME Quiet PROVE CallKept /\ AllSound'
  BY <1>1, <1>3, QuietKept, SameSound DEF Quiet, heap
<1>4. ASSUME NEW a \in UserChunks, Frees(a) PROVE CallKept /\ AllSound'
  BY <1>1, <1>4, FreesSound, IdleKept DEF Frees, Release, Returns
<1>5. CASE Step
  <2>1. TakeFree => CallKept /\ AllSound'
    BY TakeKept, TakeSound
  <2>2. CarvePiece => CallKept /\ AllSound'
    BY CarveKept, CarveSound
  <2>3. InsertBlocks => CallKept /\ AllSound'
    BY InsertKept, InsertSound
  <2>4. DrainOne => CallKept /\ AllSound'
    BY <1>1, DrainKept, SameSound DEF DrainOne
  <2>5. GrowHeap => CallKept /\ AllSound'
    BY <1>1, GrowKept, SameSound DEF GrowHeap
  <2>6. CallKept /\ AllSound'
    BY <1>1, <1>3, <1>4, <1>5, <2>1, <2>2, <2>3, <2>4, <2>5, StepKinds
  <2> QED BY <1>2, <2>6, CInvIsNext DEF CallKept
<1>6. CASE Program
  <2>1. ASSUME NEW fn \in MallocFns \cup {"malloc", "realloc"}, NEW size \in Sizes,
               NEW old \in Pointers, Begins(fn, size, old)
        PROVE  CallKept /\ AllSound'
    <3>1. size \in Nat
      BY ParameterAssumption
    <3>2. CallFits' /\ UNCHANGED heap /\ UNCHANGED debug /\ iter' = iter + 1
          /\ pc' \in {"idle", "reuse"}
      BY <1>1, <2>1, <3>1, BeginsFits
    <3> QED BY <1>1, <3>2, SameSound DEF heap, CallKept, HeapPlaced
  <2>2. ASSUME NEW a \in UserChunks, NEW size \in Sizes, Resizes(a, size)
        PROVE  CallKept /\ AllSound'
    <3>1. size \in Nat
      BY ParameterAssumption
    <3> QED BY <1>1, <2>2, <3>1, ResizesSound, IdleKept DEF Resizes, Resize, Returns
  <2>3. ASSUME NEW a \in Addr, NEW part \in ScribbleParts, Scribble(a, part)
        PROVE  CallKept /\ AllSound'
    BY <1>1, <2>3, ScribbleSound, IdleKept DEF Scribble
  <2>4. CallKept /\ AllSound'
    BY <1>1, <1>3, <1>4, <1>6, <2>1, <2>2, <2>3, ProgramKinds
  <2> QED BY <1>2, <2>4, CInvIsNext DEF CallKept
<1>7. CASE UNCHANGED vars
  <2>1. Quiet
    BY <1>7, ParameterAssumption DEF vars, Quiet, heap, IInv, TypeOK
  <2> QED BY <1>2, <1>3, <2>1, CInvIsNext DEF CallKept
<1> QED BY <1>5, <1>6, <1>7 DEF Next

(* A call asks for a size that has room for the user's bytes and the fence  *)
(* posts, blocks lie on block boundaries, the marks of use keep within the  *)
(* count of the calls and the overwritten bytes are ones the library has    *)
(* written: in every state, between the steps of a call too.                *)
THEOREM CallInvariance == Spec => []CInv
<1>1. Init => CInv
  BY CallInit
<1>2. CInv /\ [Next]_vars => CInv'
  BY CallNext
<1> QED BY <1>1, <1>2, PTL DEF Spec

(* What the program was handed lies within its chunk and between the fence  *)
(* posts, whatever the settings were when it was cut, handed out and        *)
(* resized, and the pointer is the one get_pnt_info works out.              *)
THEOREM RoomForUser == Spec => []UserFits
<1>1. CInv => UserFits
  BY DEF CInv
<1> QED BY <1>1, CallInvariance, PTL

-----------------------------------------------------------------------------
(* The memory limit. *)

LEMMA LimitStep == ASSUME CInv, LimitRounded, [Next]_vars PROVE LimitRounded'
<1> SUFFICES ASSUME MemoryLimit > 0
             PROVE  stats'.cur_given < MemoryLimit + BLOCK_SIZE
  BY DEF LimitRounded
<1>1. IInv /\ CallFits /\ stats \in StatsType /\ stats.cur_given < MemoryLimit + BLOCK_SIZE
      /\ call \in CallType
  BY CInvIs DEF LimitRounded, IInv, TypeOK
<1>2. ASSUME stats'.cur_given = stats.cur_given
      PROVE  stats'.cur_given < MemoryLimit + BLOCK_SIZE
  BY <1>1, <1>2
<1>3. ASSUME Quiet PROVE stats'.cur_given = stats.cur_given
  BY <1>3 DEF Quiet, heap
<1>4. ASSUME NEW a \in UserChunks, Frees(a)
      PROVE  stats'.cur_given < MemoryLimit + BLOCK_SIZE
  <2>1. slot[a].size \in Nat
    BY <1>1, UserAlone, OnLists DEF SlotType
  <2>2. stats'.cur_given = stats.cur_given - slot[a].size
    BY <1>1, <1>4 DEF Frees, Release, Freed, StatsType
  <2>3. stats.cur_given \in Int /\ MemoryLimit \in Nat /\ BLOCK_SIZE \in Nat
    BY <1>1, GeometryAssumption, ParameterAssumption DEF StatsType
  <2> QED BY <1>1, <2>1, <2>2, <2>3
<1>5. ASSUME pc \notin {"idle", "replace"}
      PROVE  stats.cur_given + call.need < MemoryLimit + BLOCK_SIZE
  BY <1>1, <1>5 DEF CallFits
<1>6. Allocated(stats, call.need).cur_given = stats.cur_given + call.need
  BY <1>1 DEF Allocated, Grown, StatsType
<1>7. CASE TakeFree
  <2>1. stats'.cur_given = stats.cur_given + call.need
    BY <1>1, <1>6, <1>7, AllocatedType DEF TakeFree, StatsType, CallType
  <2> QED BY <1>5, <1>7, <2>1 DEF TakeFree
<1>8. CASE CarvePiece
  <2>1. PICK admin : Inserted(FreshPiece(call.need),
                              [stats EXCEPT !.free_space = @ + call.need], "FREE", admin)
    BY <1>1, <1>8, CarveFacts
  <2> QED BY <1>1, <1>2, <2>1 DEF Inserted, StatsType
<1>9. CASE InsertBlocks
  <2>1. PICK admin : Inserted(UserSlot(FreshPiece(call.need)),
                              Allocated(stats, call.need), "USER", admin)
    BY <1>1, <1>9, InsertFacts
  <2>2. Allocated(stats, call.need) \in StatsType
    BY <1>1, AllocatedType DEF CallType
  <2>3. stats'.cur_given = stats.cur_given + call.need
    BY <1>6, <2>1, <2>2 DEF Inserted, StatsType
  <2> QED BY <1>5, <1>9, <2>3 DEF InsertBlocks
<1>10. CASE DrainOne \/ GrowHeap
  BY <1>1, <1>2, <1>10 DEF DrainOne, GrowHeap, StatsType
<1>11. CASE Step
  BY <1>1, <1>2, <1>3, <1>4, <1>7, <1>8, <1>9, <1>10, <1>11, StepKinds
<1>12. CASE Program
  <2>1. ASSUME NEW a, NEW size \in Sizes, Resizes(a, size)
        PROVE  stats'.cur_given = stats.cur_given
    BY <1>1, <2>1 DEF Resizes, Resize, Grown, StatsType
  <2>2. ASSUME NEW fn, NEW size, NEW old, Begins(fn, size, old)
        PROVE  stats'.cur_given = stats.cur_given
    BY <2>2 DEF Begins, BeginMalloc, heap
  <2>3. ASSUME NEW a, NEW part, Scribble(a, part)
        PROVE  stats'.cur_given = stats.cur_given
    BY <2>3 DEF Scribble
  <2> QED BY <1>1, <1>2, <1>3, <1>4, <1>12, <2>1, <2>2, <2>3, ProgramKinds
<1>13. CASE UNCHANGED vars
  BY <1>2, <1>13 DEF vars
<1> QED BY <1>11, <1>12, <1>13 DEF Next

(* get_memory looks at the limit before it rounds the size up: what is      *)
(* given to the program stays less than a block over the limit, whichever   *)
(* way earlier calls ended.                                                 *)
THEOREM LimitKept == Spec => []LimitRounded
<1>1. Init => LimitRounded
  BY GeometryAssumption, ParameterAssumption DEF Init, LimitRounded
<1>2. CInv /\ LimitRounded /\ [Next]_vars => LimitRounded'
  BY LimitStep
<1> QED BY <1>1, <1>2, CallInvariance, PTL DEF Spec

-----------------------------------------------------------------------------
(* The checks of a chunk that nobody has damaged. *)

(* A program that always has its memory copied by a realloc, or one that    *)
(* asks for no more than LARGEST_ALLOCATION: a realloc that stays in place  *)
(* does not look at the limit.                                              *)
AlwaysCopies == \A s \in Settings : s \cap {"REALLOC_COPY", "NEVER_REUSE"} # {}
SizesAllowed == AlwaysCopies \/ \A n \in Sizes : n <= LARGEST_ALLOCATION

LEMMA NoResize ==
  ASSUME CInv, AlwaysCopies, NEW a, NEW size PROVE ~Resizes(a, size)
BY DEF CInv, AlwaysCopies, Resizes, MustCopy

(* What each step does to the user's part of a chunk, its flags and damage. *)
LEMMA UserSlotChanges ==
  ASSUME CInv, [Next]_vars, NEW a \in Slots
  PROVE  \/ slot'[a] = slot[a] /\ damage'[a] = damage[a]
         \/ /\ Is("FREE", a) /\ ~Is("FREE", a)' /\ slot'[a].usize = call.size
            /\ damage'[a] = {} /\ pc # "idle"
         \/ a \in UserChunks /\ Frees(a)
         \/ a \in UserChunks /\ \E size \in Sizes \ {0} : Resizes(a, size)
         \/ /\ slot'[a] = slot[a]
            /\ \E part \in ScribbleParts : damage'[a] = damage[a] \cup {part}
<1>1. IInv /\ a \in Addr
  BY DEF CInv, Slots
<1>2. ASSUME UNCHANGED <<slot, damage>> PROVE slot'[a] = slot[a] /\ damage'[a] = damage[a]
  BY <1>2
<1>3. CASE TakeFree
  <2>1. PICK b : /\ b \in Slots /\ Is("FREE", b) /\ slot[b] \in SlotType
                 /\ slot'[b] = UserSlot(slot[b]) /\ damage'[b] = {} /\ pc # "idle"
                 /\ \A c \in Addr \ {b} : slot'[c] = slot[c] /\ damage'[c] = damage[c]
    BY <1>1, <1>3, TakeFacts
  <2>2. UserSlot(slot[b]).usize = call.size /\ "FREE" \notin UserSlot(slot[b]).flags
    <3>1. UserSlot(slot[b]).usize = call.size
      BY <2>1 DEF UserSlot, SlotType
    <3> QED BY <1>1, <2>1, <3>1, UserSlotType
  <2> QED BY <1>1, <2>1, <2>2 DEF Is
<1>4. CASE CarvePiece
  <2>1. PICK admin : Inserted(FreshPiece(call.need),
                              [stats EXCEPT !.free_space = @ + call.need], "FREE", admin)
    BY <1>1, <1>4, CarveFacts
  <2> QED BY <1>1, <1>4, <2>1, CarveFacts DEF Inserted
<1>5. CASE InsertBlocks
  <2>1. PICK admin : Inserted(UserSlot(FreshPiece(call.need)),
                              Allocated(stats, call.need), "USER", admin)
    BY <1>1, <1>5, InsertFacts
  <2>2. damage' = [damage EXCEPT ![call.mem] = {}]
    BY <1>1, <1>5, InsertFacts
  <2> QED BY <1>1, <2>1, <2>2 DEF Inserted, IInv, TypeOK
<1>6. CASE DrainOne \/ GrowHeap \/ Quiet
  BY <1>2, <1>6 DEF DrainOne, GrowHeap, Quiet, heap
<1>7. ASSUME NEW b \in UserChunks, Frees(b), b # a
      PROVE  slot'[a] = slot[a] /\ damage'[a] = damage[a]
  BY <1>1, <1>7, FreesFacts
<1>8. CASE Step
  BY <1>1, <1>3, <1>4, <1>5, <1>6, <1>7, <1>8, StepKinds
<1>9. ASSUME NEW b \in UserChunks, NEW size \in Sizes, Resizes(b, size), b # a
      PROVE  slot'[a] = slot[a] /\ damage'[a] = damage[a]
  <2>1. size \in Nat
    BY ParameterAssumption
  <2> QED BY <1>1, <1>9, <2>1, ResizesFacts
<1>10. ASSUME NEW b \in Addr, NEW part \in ScribbleParts, Scribble(b, part)
       PROVE  /\ slot'[a] = slot[a]
              /\ damage'[a] = damage[a] \/ damage'[a] = damage[a] \cup {part}
  BY <1>1, <1>10 DEF Scribble, IInv, TypeOK
<1>11. ASSUME NEW fn, NEW size, NEW old, Begins(fn, size, old)
       PROVE  UNCHANGED <<slot, damage>>
  BY <1>11 DEF Begins, BeginMalloc, heap
<1>12. CASE Program
  BY <1>1, <1>2, <1>6, <1>7, <1>9, <1>10, <1>11, <1>12, ProgramKinds
<1>13. CASE UNCHANGED vars
  BY <1>2, <1>13 DEF vars
<1> QED BY <1>8, <1>12, <1>13 DEF Next

LEMMA NewSlots ==
  ASSUME CInv, [Next]_vars, NEW a \in Addr \ Slots, a \in Slots'
  PROVE  /\ \/ slot'[a].flags = {"FREE"}
            \/ slot'[a].flags = {"ADMIN"} /\ slot'[a].usize = 0
            \/ /\ slot'[a].usize = call.size /\ pc # "idle"
               /\ "USER" \in slot'[a].flags /\ "FREE" \notin slot'[a].flags
         /\ damage'[a] = {}
<1>1. IInv /\ damage[a] = {}
  BY CInvIs DEF AllSound
<1>2. ASSUME Slots' = Slots PROVE FALSE
  BY <1>2
<1>3. CASE TakeFree
  BY <1>1, <1>2, <1>3, TakeFacts
<1>4. CASE CarvePiece
  <2>1. PICK admin : Inserted(FreshPiece(call.need),
                              [stats EXCEPT !.free_space = @ + call.need], "FREE", admin)
    BY <1>1, <1>4, CarveFacts
  <2>2. /\ FreshPiece(call.need).flags = {"FREE"}
        /\ AdminSlot.flags = {"ADMIN"} /\ AdminSlot.usize = 0
    BY DEF FreshPiece, AdminSlot, NoSlot
  <2> QED BY <1>1, <1>4, <2>1, <2>2, CarveFacts DEF Inserted
<1>5. CASE InsertBlocks
  <2>1. PICK admin : Inserted(UserSlot(FreshPiece(call.need)),
                              Allocated(stats, call.need), "USER", admin)
    BY <1>1, <1>5, InsertFacts
  <2>2. damage' = [damage EXCEPT ![call.mem] = {}] /\ pc = "insert"
    BY <1>1, <1>5, InsertFacts
  <2>3. damage'[a] = {}
    BY <1>1, <2>2 DEF IInv, TypeOK
  <2>4. /\ UserSlot(FreshPiece(call.need)).usize = call.size
        /\ "USER" \in UserSlot(FreshPiece(call.need)).flags
        /\ "FREE" \notin UserSlot(FreshPiece(call.need)).flags
    BY DEF UserSlot, FreshPiece, NoSlot, UserFlags, AllocBlank, BlankFlag
  <2>5. AdminSlot.flags = {"ADMIN"} /\ AdminSlot.usize = 0
    BY DEF AdminSlot, NoSlot
  <2> QED BY <2>1, <2>2, <2>3, <2>4, <2>5 DEF Inserted
<1>6. CASE DrainOne \/ GrowHeap \/ Quiet \/ UNCHANGED vars
  <2>1. slot' = slot
    BY <1>6 DEF DrainOne, GrowHeap, Quiet, heap, vars
  <2> QED BY <1>2, <2>1 DEF Slots
<1>7. ASSUME NEW b \in UserChunks, Frees(b) PROVE FALSE
  BY <1>1, <1>2, <1>7, FreesFacts
<1>8. ASSUME NEW b \in UserChunks, NEW size \in Sizes, Resizes(b, size) PROVE FALSE
  <2>1. size \in Nat
    BY ParameterAssumption
  <2> QED BY <1>1, <1>2, <1>8, <2>1, ResizesFacts
<1>9. ASSUME NEW b, NEW part, Scribble(b, part) PROVE FALSE
  <2>1. Slots' = Slots
    BY <1>9 DEF Scribble, Slots
  <2> QED BY <1>2, <2>1
<1>10. ASSUME NEW fn, NEW size, NEW old, Begins(fn, size, old) PROVE FALSE
  <2>1. Slots' = Slots
    BY <1>10 DEF Begins, BeginMalloc, heap, Slots
  <2> QED BY <1>2, <2>1
<1>11. CASE Step
  BY <1>1, <1>3, <1>4, <1>5, <1>6, <1>7, <1>11, StepKinds
<1>12. CASE Program
  BY <1>1, <1>6, <1>7, <1>8, <1>9, <1>10, <1>12, ProgramKinds
<1> QED BY <1>6, <1>11, <1>12 DEF Next

(* No chunk in the program's hands is larger than what may be asked for.    *)
SizesWithin == \A a \in UserChunks : slot[a].usize <= LARGEST_ALLOCATION

LEMMA SizesStep ==
  ASSUME SizesAllowed, CInv, SizesWithin, [Next]_vars
  PROVE  SizesWithin'
<1>1. IInv /\ IInv' /\ CallFits
  BY CallNext DEF CInv
<1> SUFFICES ASSUME NEW a \in Slots', Is("USER", a)'
             PROVE  slot'[a].usize <= LARGEST_ALLOCATION
  <2>1. \A a : a \in UserChunks' => a \in Slots' /\ Is("USER", a)'
    BY <1>1 DEF IInv, ListsAgree, UsedAgrees, UserChunks
  <2> QED BY <2>1 DEF SizesWithin
<1>2. call.size <= LARGEST_ALLOCATION \/ pc = "idle"
  BY <1>1 DEF CallFits
<1>3. ASSUME a \in Slots, slot'[a] = slot[a] PROVE slot'[a].usize <= LARGEST_ALLOCATION
  BY <1>1, <1>3, UserChunksAre DEF Is, SizesWithin
<1>4. CASE a \in Slots
  <2>1. ASSUME a \in UserChunks, NEW size \in Sizes \ {0}, Resizes(a, size)
        PROVE  slot'[a].usize <= LARGEST_ALLOCATION
    <3>1. size \in Nat
      BY ParameterAssumption
    <3>2. slot'[a].usize = size
      BY <1>1, <2>1, <3>1, ResizesFacts
    <3> QED BY <2>1, <3>2, NoResize DEF SizesAllowed
  <2>2. a \in UserChunks /\ Frees(a) => ~Is("USER", a)'
    BY <1>1, FreesFacts
  <2> QED BY <1>2, <1>3, <1>4, <2>1, <2>2, UserSlotChanges
<1>5. CASE a \notin Slots
  <2>1. a \in Addr \ Slots
    BY <1>5 DEF Slots
  <2> QED BY <1>2, <2>1, NewSlots DEF Is
<1> QED BY <1>4, <1>5

(* An intact chunk passes check_used_slot in this call and in the next.     *)
LEMMA IntactPasses ==
  ASSUME CInv, SizesWithin, NEW a \in UserChunks, damage[a] = {},
         NEW now \in Nat, iter <= now
  PROVE  SlotError(a, now) = "ok"
<1>1. IInv /\ a \in Slots /\ a \in Addr /\ Is("USER", a) /\ slot[a] \in SlotType
  BY UserChunksAre, OnLists DEF CInv
<1>2. Sound(a) /\ slot[a].usize <= LARGEST_ALLOCATION
  BY <1>1, CInvIs DEF AllSound, SizesWithin
<1>3. /\ BLOCK_SIZE \in Nat /\ BLOCK_SIZE > 0 /\ slot[a].size \in Nat /\ slot[a].size > 0
      /\ slot[a].usize \in Nat /\ LARGEST_ALLOCATION \in Nat /\ a \in Nat
      /\ slot[a].seen \in Nat /\ slot[a].iter \in Nat /\ iter \in Nat
  BY <1>1, GeometryAssumption, ParameterAssumption
  DEF SlotType, Addr, IInv, NoOverlap, ChunksInHeap, TypeOK
<1>4. ~(slot[a].usize > LARGEST_ALLOCATION)
  BY <1>2, <1>3
<1>5. ~(slot[a].size > BLOCK_SIZE \div 2 /\ slot[a].size % BLOCK_SIZE # 0)
  BY <1>2, <1>3 DEF Sound, Placed, Rounded, Divided
<1>6. ASSUME Is("VALLOC", a)
      PROVE  UserStart(a) % BLOCK_SIZE = 0 /\ ~(slot[a].size < BLOCK_SIZE)
  <2>1. a % BLOCK_SIZE = 0 /\ slot[a].size % BLOCK_SIZE = 0
    BY <1>2, <1>6 DEF Sound, Placed, Rounded
  <2>2. UserStart(a) = a + 0 \/ UserStart(a) = a + BLOCK_SIZE
    BY <1>3, <1>6 DEF UserStart, UserOffset, Is
  <2>3. UserStart(a) % BLOCK_SIZE = 0
    BY <1>3, <2>1, <2>2, BlockMore
  <2>4. ~(slot[a].size < BLOCK_SIZE)
    BY <1>3, <2>1
  <2> QED BY <2>3, <2>4
<1>7. ~(slot[a].seen \div 2 > now)
  <2>1. slot[a].seen <= 2 * slot[a].iter /\ slot[a].iter <= iter
    BY <1>1, <1>2, <1>3 DEF Sound, Timed
  <2>2. slot[a].seen <= 2 * now
    BY <1>3, <2>1
  <2> QED BY <1>3, <2>2
<1> QED BY <1>4, <1>5, <1>6, <1>7 DEF SlotError

LEMMA SizesInvariance ==
  ASSUME SizesAllowed PROVE Spec => []SizesWithin
<1>1. Init => SizesWithin
  BY DEF Init, SizesWithin, UserChunks
<1>2. CInv /\ SizesWithin /\ [Next]_vars => SizesWithin'
  BY SizesStep
<1> QED BY <1>1, <1>2, CallInvariance, PTL DEF Spec

(* check_used_slot never rejects a chunk the program has left intact,       *)
(* whichever calls it went through, as long as none asked for more than     *)
(* LARGEST_ALLOCATION: by the sizes, the block boundaries and the marks     *)
(* that those calls left in its slot.                                       *)
THEOREM IntactAccepted ==
  ASSUME SizesAllowed PROVE Spec => []NoFalseAlarm
<1>1. CInv /\ SizesWithin => NoFalseAlarm
  <2> SUFFICES ASSUME CInv, SizesWithin PROVE NoFalseAlarm
    OBVIOUS
  <2>1. iter \in Nat /\ iter <= iter
    BY ParameterAssumption DEF CInv, IInv, TypeOK
  <2> QED BY <2>1, IntactPasses DEF NoFalseAlarm
<1> QED BY <1>1, SizesInvariance, CallInvariance, PTL

(* A chunk that was damaged does not pass.                                  *)
LEMMA DamagedFails ==
  ASSUME CInv, NEW a \in UserChunks, damage[a] # {}, NEW now
  PROVE  SlotError(a, now) # "ok"
<1>1. IInv /\ a \in Slots /\ Is("USER", a) /\ ~Is("FREE", a)
  BY UserChunksAre, UserAlone DEF CInv
<1>2. damage[a] \subseteq {"below", "bottom", "top", "above"}
  <2>1. damage[a] \subseteq WatchedParts(a)
    BY <1>1, CInvIs DEF AllSound, Sound
  <2> QED BY <1>1, <2>1 DEF WatchedParts
<1> QED BY <1>2 DEF SlotError

LEMMA DamageStep ==
  ASSUME CInv, [Next]_vars, NEW a \in UserChunks, damage[a] # {}
  PROVE  a \in used' /\ (damage[a] \subseteq damage'[a] \/ Resized(a))
<1>1. /\ IInv /\ IInv' /\ a \in Slots /\ a \in Addr /\ Is("USER", a) /\ ~Is("FREE", a)
  BY CallNext, UserChunksAre, UserAlone DEF CInv, Slots
<1>2. ASSUME slot'[a] = slot[a] \/ Is("USER", a)', a \in Slots'
      PROVE  a \in used'
  <2>1. ~Is("FREE", a)'
    BY <1>1, <1>2, UserAlone DEF Is, IInv, ListsAgree, OneKind
  <2> QED BY <1>1, <1>2, <2>1 DEF IInv, ListsAgree, UsedAgrees
<1>3. CASE slot'[a] = slot[a] /\ damage[a] \subseteq damage'[a]
  BY <1>1, <1>2, <1>3 DEF Slots
<1>4. ASSUME NEW size \in Sizes \ {0}, Resizes(a, size)
      PROVE  a \in used' /\ Resized(a)
  <2>1. /\ Is("USER", a)' /\ Slots' = Slots /\ slot'[a].iter = iter + 1 /\ iter \in Nat
    BY <1>1, <1>4, ResizesFacts, ParameterAssumption
  <2>2. slot[a].iter \in Nat /\ slot[a].iter <= iter
    BY <1>1, OnLists DEF CInv, SeenInTime, SlotType
  <2>3. MayResize
    BY <1>4 DEF Resizes, MustCopy, MayResize
  <2> QED BY <1>1, <1>2, <2>1, <2>2, <2>3 DEF Resized, Is
<1>5. ~Frees(a)
  BY DamagedFails DEF Frees
<1> QED BY <1>1, <1>3, <1>4, <1>5, UserSlotChanges

(* Overwritten bytes stay where they are seen: the free of a damaged chunk  *)
(* is refused in every order of the calls, the chunk keeps its place on the *)
(* address list, and the one thing that repairs it is a realloc in place,   *)
(* which REALLOC_COPY and NEVER_REUSE rule out.                             *)
THEOREM EvidenceKept == Spec => DamageKept
<1>1. CInv /\ [Next]_vars =>
        [\A a \in UserChunks : damage[a] # {} =>
           a \in used' /\ (damage[a] \subseteq damage'[a] \/ Resized(a))]_vars
  BY DamageStep
<1> QED BY <1>1, CallInvariance, PTL DEF Spec, DamageKept
=============================================================================
