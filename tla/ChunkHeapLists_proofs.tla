------------------------ MODULE ChunkHeapLists_proofs ------------------------
(***************************************************************************)
(* Proofs about the lists of the chunk layer over sequences of calls: what *)
(* is on none of them, what is on the wait list and how long a chunk stays *)
(* out of use; and that the counters are the sums of what is on them.      *)
(***************************************************************************)
EXTENDS ChunkHeap_proofs, SumTheorems

(* Programs that never set NEVER_REUSE, always do, or call no valloc.       *)
NeverLoses == \A s \in Settings : "NEVER_REUSE" \notin s
NeverReuses == \A s \in Settings : "NEVER_REUSE" \in s
MallocsOnly == "valloc" \notin MallocFns

(* A step that leaves the heap as it is. *)
Rests == /\ UNCHANGED heap /\ iter' \in {iter, iter + 1}
         /\ UNCHANGED <<iter, pc, call>> \/ pc' \in {"idle", "reuse"}

LEMMA NextKinds ==
  ASSUME CInv, [Next]_vars
  PROVE  \/ TakeFree \/ DrainOne \/ CarvePiece \/ InsertBlocks \/ GrowHeap \/ Rests
         \/ \E a \in UserChunks : Frees(a)
         \/ \E a \in UserChunks, size \in Sizes \ {0} : Resizes(a, size)
         \/ \E a \in Addr, part \in ScribbleParts : Scribble(a, part)
<1>1. IInv /\ iter \in Nat
  BY ParameterAssumption DEF CInv, IInv, TypeOK
<1>2. Quiet => Rests
  BY DEF Quiet, Rests
<1>3. ASSUME NEW fn \in MallocFns \cup {"malloc", "realloc"}, NEW size \in Sizes,
             NEW old \in Pointers, Begins(fn, size, old)
      PROVE  Rests
  <2>1. size \in Nat
    BY ParameterAssumption
  <2> QED BY <1>1, <1>3, <2>1, BeginsFits DEF Rests
<1>4. UNCHANGED vars => Rests
  BY DEF vars, heap, Rests
<1> QED BY <1>1, <1>2, <1>3, <1>4, StepKinds, ProgramKinds DEF Next

-----------------------------------------------------------------------------
(* The parts of the invariant of the lists. *)

NoneLost ==
  NeverLoses => \A a \in Slots : Is("FREE", a) => a \in FreeListed \cup Waiting
PieceReady == /\ pc \in {"carve", "retake"} => ~HeadDue
              /\ pc = "retake" => Available(call.need)
WaitingMarked ==
  \A a \in Waiting : slot[a].seen > 0 /\ (MallocsOnly => handed[a] = UserStart(a))
FreshListed ==
  NeverReuses => /\ wait_list = <<>>
                 /\ \A n \in SizeClasses : \A a \in Range(free_list[n]) : slot[a].seen = 0
AdminPlain ==
  \A a \in Slots : Is("ADMIN", a) => slot[a].flags = {"ADMIN"} /\ slot[a].usize = 0
ListInv == NoneLost /\ PieceReady /\ WaitingMarked /\ FreshListed /\ AdminPlain

(* The four kinds of moves of a list.                                       *)
LEMMA TakeMoves ==
  ASSUME IInv, TakeFree
  PROVE  LET n == call.need
             a == Head(free_list[n]) IN
         /\ wait_list' = wait_list
         /\ Range(free_list'[n]) = Range(free_list[n]) \ {a}
         /\ \A k \in SizeClasses \ {n} : free_list'[k] = free_list[k]
<1>1. /\ call.need \in SizeClasses /\ free_list[call.need] \in Seq(Addr)
      /\ free_list[call.need] # <<>> /\ IsInjective(free_list[call.need])
  BY DEF TakeFree, Available, IInv, TypeOK, ListsAgree, FreeAgrees
<1>2. free_list' = [free_list EXCEPT ![call.need] = Tail(free_list[call.need])]
      /\ wait_list' = wait_list
  BY DEF TakeFree
<1>3. /\ free_list'[call.need] = Tail(free_list[call.need])
      /\ \A k \in SizeClasses \ {call.need} : free_list'[k] = free_list[k]
  BY <1>1, <1>2 DEF IInv, TypeOK
<1> QED BY <1>1, <1>2, <1>3, TailOfList

LEMMA DrainMoves ==
  ASSUME IInv, DrainOne
  PROVE  LET a == Head(wait_list)
             n == slot[a].size IN
         /\ a \in Waiting /\ a \in Slots /\ n \in SizeClasses
         /\ Waiting' = Waiting \ {a}
         /\ Range(free_list'[n]) = {a} \cup Range(free_list[n])
         /\ \A k \in SizeClasses \ {n} : free_list'[k] = free_list[k]
<1> DEFINE a == Head(wait_list)
           n == slot[a].size
<1>1. wait_list \in Seq(Addr) /\ wait_list # <<>> /\ IsInjective(wait_list)
  BY DEF DrainOne, HeadDue, IInv, TypeOK, ListsAgree, WaitAgrees
<1>2. a \in Addr /\ a \in Waiting /\ Range(Tail(wait_list)) = Waiting \ {a}
  BY <1>1, TailOfList DEF Waiting
<1>3. a \in Slots /\ n \in SizeClasses
  BY <1>2, OnLists
<1>4. free_list[n] \in Seq(Addr) /\ IsInjective(free_list[n]) /\ a \notin Range(free_list[n])
  BY <1>2, <1>3 DEF IInv, TypeOK, ListsAgree, FreeAgrees
<1>5. /\ free_list' = [free_list EXCEPT ![n] = <<a>> \o free_list[n]]
      /\ wait_list' = Tail(wait_list)
  BY DEF DrainOne
<1>6. Range(<<a>> \o free_list[n]) = {a} \cup Range(free_list[n])
  BY <1>2, <1>4, PushOnList
<1>7. /\ free_list'[n] = <<a>> \o free_list[n]
      /\ \A k \in SizeClasses \ {n} : free_list'[k] = free_list[k]
  BY <1>3, <1>5 DEF IInv, TypeOK
<1> QED BY <1>2, <1>3, <1>5, <1>6, <1>7 DEF Waiting

LEMMA CarveMoves ==
  ASSUME IInv, CarvePiece
  PROVE  LET n == call.need IN
         /\ wait_list' = wait_list /\ n \in SizeClasses
         /\ free_list'[n] = <<call.mem>> \o free_list[n]
         /\ free_list'[n] # <<>>
         /\ Range(free_list'[n]) = {call.mem} \cup Range(free_list[n])
         /\ \A k \in SizeClasses \ {n} : free_list'[k] = free_list[k]
<1>1. pc = "carve" /\ call.need \in SizeClasses
  <2>1. pc = "carve" /\ call.need \in 0 .. HeapEnd /\ call.need > 0
    BY NeedIsSize DEF CarvePiece
  <2> QED BY <2>1, GeometryAssumption DEF SizeClasses
<1>2. PICK admin : Inserted(FreshPiece(call.need),
                            [stats EXCEPT !.free_space = @ + call.need], "FREE", admin)
  BY CarveFacts
<1>3. call.mem \in Addr \ Slots
  BY <1>2 DEF Inserted
<1>4. /\ free_list[call.need] \in Seq(Addr) /\ IsInjective(free_list[call.need])
      /\ call.mem \notin Range(free_list[call.need])
  BY <1>1, <1>3, OnLists DEF IInv, TypeOK, ListsAgree, FreeAgrees
<1>5. /\ free_list' = [free_list EXCEPT ![call.need] = <<call.mem>> \o free_list[call.need]]
      /\ wait_list' = wait_list
  BY DEF CarvePiece
<1>6. /\ free_list'[call.need] = <<call.mem>> \o free_list[call.need]
      /\ \A k \in SizeClasses \ {call.need} : free_list'[k] = free_list[k]
  BY <1>1, <1>5 DEF IInv, TypeOK
<1>7. Range(<<call.mem>> \o free_list[call.need]) = {call.mem} \cup Range(free_list[call.need])
  BY <1>3, <1>4, PushOnList
<1>8. <<call.mem>> \o free_list[call.need] # <<>>
  BY <1>3, <1>4
<1> QED BY <1>1, <1>5, <1>6, <1>7, <1>8

LEMMA FreeMoves ==
  ASSUME IInv, NEW a \in UserChunks, Frees(a)
  PROVE  /\ free_list' = free_list
         /\ IF "NEVER_REUSE" \in debug THEN wait_list' = wait_list
                                       ELSE Waiting' = {a} \cup Waiting
<1>1. /\ wait_list \in Seq(Addr) /\ IsInjective(wait_list) /\ a \notin Range(wait_list)
      /\ a \in Addr
  BY UserAlone DEF Waiting, IInv, TypeOK, ListsAgree, WaitAgrees
<1>2. Range(Append(wait_list, a)) = {a} \cup Range(wait_list)
  BY <1>1, AppendToList
<1> QED BY <1>2 DEF Frees, Release, Waiting

(* A step that is not one of the moves leaves the lists and sa_flags alone. *)
LEMMA OtherMoves ==
  ASSUME IInv, \/ GrowHeap \/ Rests \/ InsertBlocks
               \/ \E a \in UserChunks, size \in Sizes : Resizes(a, size)
               \/ \E a \in Addr, part \in ScribbleParts : Scribble(a, part)
  PROVE  UNCHANGED <<free_list, wait_list>>
BY DEF GrowHeap, Rests, heap, InsertBlocks, Resizes, Resize, Scribble

(* What is free after a step was free before it, or was freed or cut by it. *)
LEMMA FreeBefore ==
  ASSUME CInv, [Next]_vars, NEW a \in Slots', Is("FREE", a)'
  PROVE  \/ a \in Slots /\ Is("FREE", a) /\ slot'[a] = slot[a]
         \/ a \in UserChunks /\ Frees(a)
         \/ CarvePiece /\ a = call.mem /\ a \in Addr \ Slots /\ slot'[a] = FreshPiece(call.need)
<1>1. IInv
  BY DEF CInv
<1>2. CASE a \in Slots
  <2>1. ASSUME a \in UserChunks, NEW size \in Sizes \ {0}, Resizes(a, size) PROVE FALSE
    <3>1. size \in Nat /\ ~Is("FREE", a)
      BY <1>1, <2>1, UserAlone, ParameterAssumption
    <3> QED BY <1>1, <2>1, <3>1, ResizesFacts
  <2>2. slot'[a] = slot[a] => Is("FREE", a)
    BY DEF Is
  <2> QED BY <1>2, <2>1, <2>2, UserSlotChanges
<1>3. CASE a \notin Slots
  <2>1. Slots' # Slots /\ a \in Addr
    BY <1>3 DEF Slots
  <2>2. ASSUME slot' = slot PROVE FALSE
    BY <2>1, <2>2 DEF Slots
  <2>3. DrainOne \/ GrowHeap \/ Rests => slot' = slot
    BY DEF DrainOne, GrowHeap, Rests, heap
  <2>4. ASSUME NEW b \in Addr, NEW part, Scribble(b, part) PROVE slot' = slot
    BY <2>4 DEF Scribble
  <2>5. ASSUME NEW b \in UserChunks, NEW size \in Sizes \ {0}, Resizes(b, size) PROVE FALSE
    <3>1. size \in Nat
      BY ParameterAssumption
    <3> QED BY <1>1, <2>1, <2>5, <3>1, ResizesFacts
  <2>6. ASSUME NEW b \in UserChunks, Frees(b) PROVE FALSE
    BY <1>1, <2>1, <2>6, FreesFacts
  <2>7. TakeFree => FALSE
    BY <1>1, <2>1, TakeFacts
  <2>8. CASE InsertBlocks
    <3>1. PICK admin : Inserted(UserSlot(FreshPiece(call.need)),
                                Allocated(stats, call.need), "USER", admin)
      BY <1>1, <2>8, InsertFacts
    <3>2. /\ "FREE" \notin UserSlot(FreshPiece(call.need)).flags
          /\ "FREE" \notin AdminSlot.flags
      BY DEF UserSlot, FreshPiece, NoSlot, UserFlags, AllocBlank, BlankFlag, AdminSlot
    <3> QED BY <1>3, <3>1, <3>2 DEF Inserted, Is
  <2>9. CASE CarvePiece
    <3>1. PICK admin : Inserted(FreshPiece(call.need),
                                [stats EXCEPT !.free_space = @ + call.need], "FREE", admin)
      BY <1>1, <2>9, CarveFacts
    <3>2. "FREE" \notin AdminSlot.flags
      BY DEF AdminSlot, NoSlot
    <3> QED BY <1>3, <2>9, <3>1, <3>2 DEF Inserted, Is
  <2> QED BY <2>2, <2>3, <2>4, <2>5, <2>6, <2>7, <2>8, <2>9, NextKinds
<1> QED BY <1>2, <1>3

LEMMA NoneLostStep ==
  ASSUME CInv, NoneLost, [Next]_vars
  PROVE  NoneLost'
<1>1. IInv /\ debug \in Settings
  BY DEF CInv
<1> SUFFICES ASSUME NeverLoses, NEW a \in Slots', Is("FREE", a)'
             PROVE  a \in FreeListed' \cup Waiting'
  BY DEF NoneLost
<1>2. "NEVER_REUSE" \notin debug
  BY <1>1 DEF NeverLoses
<1>3. CASE a \in Slots /\ Is("FREE", a) /\ slot'[a] = slot[a]
  <2>1. a \in FreeListed \cup Waiting
    BY <1>3 DEF NoneLost
  <2>2. CASE UNCHANGED <<free_list, wait_list>>
    BY <2>1, <2>2 DEF FreeListed, Waiting
  <2>3. CASE TakeFree
    <3>1. PICK b, n : /\ n = call.need /\ b \in Slots /\ "FREE" \notin slot'[b].flags
                      /\ n \in SizeClasses /\ wait_list' = wait_list
                      /\ Range(free_list'[n]) = Range(free_list[n]) \ {b}
                      /\ \A k \in SizeClasses \ {n} : free_list'[k] = free_list[k]
      <4>1. \A s \in SlotType : "FREE" \notin UserSlot(s).flags
        BY <1>1, UserSlotType
      <4> QED BY <1>1, <2>3, <4>1, TakeFacts, TakeMoves
    <3>2. a # b
      BY <1>3, <3>1 DEF Is
    <3> QED BY <2>1, <3>1, <3>2 DEF FreeListed, Waiting
  <2>4. CASE DrainOne
    <3>1. PICK b, n : /\ n \in SizeClasses /\ Waiting' = Waiting \ {b}
                      /\ Range(free_list'[n]) = {b} \cup Range(free_list[n])
                      /\ \A k \in SizeClasses \ {n} : free_list'[k] = free_list[k]
      BY <1>1, <2>4, DrainMoves
    <3> QED BY <2>1, <3>1 DEF FreeListed
  <2>5. CASE CarvePiece
    <3>1. PICK b, n : /\ n \in SizeClasses /\ wait_list' = wait_list
                      /\ Range(free_list'[n]) = {b} \cup Range(free_list[n])
                      /\ \A k \in SizeClasses \ {n} : free_list'[k] = free_list[k]
      BY <1>1, <2>5, CarveMoves
    <3> QED BY <2>1, <3>1 DEF FreeListed, Waiting
  <2>6. ASSUME NEW b \in UserChunks, Frees(b) PROVE a \in FreeListed' \cup Waiting'
    <3>1. free_list' = free_list /\ Waiting' = {b} \cup Waiting
      BY <1>1, <1>2, <2>6, FreeMoves
    <3> QED BY <2>1, <3>1 DEF FreeListed
  <2> QED BY <1>1, <2>2, <2>3, <2>4, <2>5, <2>6, NextKinds, OtherMoves
<1>4. CASE a \in UserChunks /\ Frees(a)
  BY <1>1, <1>2, <1>4, FreeMoves
<1>5. CASE CarvePiece /\ a = call.mem
  <2>1. call.need \in SizeClasses /\ a \in Range(free_list'[call.need])
    BY <1>1, <1>5, CarveMoves
  <2> QED BY <2>1 DEF FreeListed
<1> QED BY <1>3, <1>4, <1>5, FreeBefore

LEMMA PieceReadyStep ==
  ASSUME CInv, PieceReady, [Next]_vars
  PROVE  PieceReady'
<1>1. IInv
  BY DEF CInv
<1>2. ASSUME pc' \notin {"carve", "retake"} PROVE PieceReady'
  BY <1>2 DEF PieceReady
<1>3. CASE TakeFree \/ InsertBlocks
  BY <1>2, <1>3 DEF TakeFree, InsertBlocks, HandOut, Returns
<1>4. CASE DrainOne
  BY <1>2, <1>4 DEF DrainOne, PieceReady
<1>5. CASE GrowHeap
  <2>1. ~HeadDue' /\ pc' # "retake"
    BY <1>5 DEF GrowHeap, HeadDue
  <2> QED BY <2>1 DEF PieceReady
<1>6. CASE CarvePiece
  <2>1. PICK admin : Inserted(FreshPiece(call.need),
                              [stats EXCEPT !.free_space = @ + call.need], "FREE", admin)
    BY <1>1, <1>6, CarveFacts
  <2>2. iter' = iter /\ wait_list' = wait_list /\ ~HeadDue
    BY <1>1, <1>6, CarveFacts DEF PieceReady
  <2>3. wait_list # <<>> => slot'[Head(wait_list)] = slot[Head(wait_list)]
    <3>1. wait_list # <<>> => Head(wait_list) \in Slots /\ Head(wait_list) \in Addr
      BY <1>1, TailOfList, OnLists DEF Waiting, IInv, TypeOK, ListsAgree, WaitAgrees
    <3> QED BY <2>1, <3>1 DEF Inserted
  <2>4. ~HeadDue'
    BY <2>2, <2>3 DEF HeadDue
  <2>5. call'.need = call.need
    BY <1>1, <1>6 DEF CarvePiece, IInv, TypeOK, CallType
  <2>6. Available(call.need)'
    BY <1>1, <1>6, <2>5, CarveMoves DEF Available
  <2> QED BY <2>4, <2>6 DEF PieceReady
<1>7. CASE Rests
  <2>1. CASE UNCHANGED <<iter, pc, call>>
    BY <1>7, <2>1 DEF Rests, heap, PieceReady, HeadDue, Available
  <2>2. CASE pc' \in {"idle", "reuse"}
    BY <1>2, <2>2
  <2> QED BY <1>7, <2>1, <2>2 DEF Rests
<1>8. ASSUME NEW a, Frees(a) PROVE PieceReady'
  BY <1>2, <1>8 DEF Frees, Returns
<1>9. ASSUME NEW a, NEW size, Resizes(a, size) PROVE PieceReady'
  BY <1>2, <1>9 DEF Resizes, Returns
<1>10. ASSUME NEW a, NEW part, Scribble(a, part) PROVE PieceReady'
  BY <1>2, <1>10 DEF Scribble
<1> QED BY <1>3, <1>4, <1>5, <1>6, <1>7, <1>8, <1>9, <1>10, NextKinds

(* What is on a list after a step is free then. *)
LEMMA ListedNext ==
  ASSUME CInv, [Next]_vars
  PROVE  /\ \A a \in Waiting' : a \in Slots' /\ Is("FREE", a)'
         /\ \A n \in SizeClasses : \A a \in Range(free_list'[n]) : a \in Slots' /\ Is("FREE", a)'
<1>1. IInv'
  BY CallNext DEF CInv
<1>2. /\ \A a \in Waiting' : Is("FREE", a)'
      /\ \A n \in SizeClasses : \A a \in Range(free_list'[n]) : Is("FREE", a)'
  BY <1>1 DEF IInv, ListsAgree, WaitAgrees, FreeAgrees
<1>3. wait_list' \in Seq(Addr) /\ \A n \in SizeClasses : free_list'[n] \in Seq(Addr)
  BY <1>1 DEF IInv, TypeOK
<1>4. /\ \A a \in Waiting' : a \in Addr
      /\ \A n \in SizeClasses : \A a \in Range(free_list'[n]) : a \in Addr
  BY <1>3 DEF Waiting, Range
<1> QED BY <1>2, <1>4 DEF Slots, Is

(* Only a free puts a chunk on the wait list; a chunk that stays free keeps *)
(* the pointer it was handed out with.                                      *)
LEMMA WaitingBefore ==
  ASSUME CInv, [Next]_vars, NEW a \in Waiting'
  PROVE  \/ a \in UserChunks /\ Frees(a)
         \/ a \in Waiting /\ slot'[a] = slot[a] /\ handed'[a] = handed[a]
<1>1. IInv /\ a \in Slots' /\ Is("FREE", a)'
  BY ListedNext DEF CInv
<1> SUFFICES ASSUME ~(a \in UserChunks /\ Frees(a))
             PROVE  a \in Waiting /\ slot'[a] = slot[a] /\ handed'[a] = handed[a]
  OBVIOUS
<1>2. a \in Waiting
  <2>1. CASE wait_list' = wait_list
    BY <2>1 DEF Waiting
  <2>2. CASE DrainOne
    BY <1>1, <2>2, DrainMoves
  <2>3. ASSUME NEW b \in UserChunks, Frees(b) PROVE a \in Waiting
    <3>1. b # a
      BY <2>3
    <3> QED BY <1>1, <2>1, <2>3, <3>1, FreeMoves
  <2>4. TakeFree \/ CarvePiece => wait_list' = wait_list
    BY DEF TakeFree, CarvePiece
  <2> QED BY <1>1, <2>1, <2>2, <2>3, <2>4, NextKinds, OtherMoves
<1>3. a \in Slots /\ a \in Addr
  BY <1>1, <1>2, OnLists
<1>4. slot'[a] = slot[a]
  BY <1>1, <1>3, FreeBefore
<1>5. handed'[a] = handed[a]
  <2>1. CASE TakeFree
    <3>1. PICK b : /\ "FREE" \notin slot'[b].flags
                   /\ \A c \in Addr \ {b} : handed'[c] = handed[c]
      <4>1. \A s \in SlotType : "FREE" \notin UserSlot(s).flags
        BY <1>1, UserSlotType
      <4> QED BY <1>1, <2>1, <4>1, TakeFacts
    <3> QED BY <1>1, <1>3, <3>1 DEF Is
  <2>2. CASE InsertBlocks
    <3>1. PICK admin : Inserted(UserSlot(FreshPiece(call.need)),
                                Allocated(stats, call.need), "USER", admin)
      BY <1>1, <2>2, InsertFacts
    <3>2. call.mem # a
      BY <1>3, <3>1 DEF Inserted
    <3> QED BY <1>1, <1>3, <2>2, <3>2, InsertFacts DEF IInv, TypeOK
  <2>3. CarvePiece \/ DrainOne \/ GrowHeap \/ Rests => handed' = handed
    BY DEF CarvePiece, DrainOne, GrowHeap, Rests, heap
  <2>4. ASSUME NEW b, Frees(b) PROVE handed' = handed
    BY <2>4 DEF Frees, Release
  <2>5. ASSUME NEW b, NEW size, Resizes(b, size) PROVE handed' = handed
    BY <2>5 DEF Resizes, Resize
  <2>6. ASSUME NEW b, NEW part, Scribble(b, part) PROVE handed' = handed
    BY <2>6 DEF Scribble
  <2> QED BY <2>1, <2>2, <2>3, <2>4, <2>5, <2>6, NextKinds
<1> QED BY <1>2, <1>4, <1>5

LEMMA WaitingMarkedStep ==
  ASSUME CInv, WaitingMarked, [Next]_vars
  PROVE  WaitingMarked'
<1> SUFFICES ASSUME NEW a \in Waiting'
             PROVE  slot'[a].seen > 0 /\ (MallocsOnly => handed'[a] = UserStart(a)')
  BY DEF WaitingMarked
<1>1. CASE a \in Waiting /\ slot'[a] = slot[a] /\ handed'[a] = handed[a]
  BY <1>1 DEF WaitingMarked, UserStart
<1>2. CASE a \in UserChunks /\ Frees(a)
  <2>1. IInv /\ AllSound /\ slot[a] \in SlotType /\ a \in Slots /\ handed[a] = UserStart(a)
    BY <1>2, CInvIs, UserAlone, OnLists DEF CInv, UserFits
  <2>2. /\ slot'[a].flags = {"FREE"} \cup (slot[a].flags \cap {"FENCE"}) \cup FreeBlank
        /\ slot'[a].seen = slot[a].seen + 1 /\ handed' = handed
    BY <1>2, <2>1, FreesFacts
  <2>3. slot'[a].seen > 0
    BY <2>1, <2>2 DEF SlotType
  <2>4. ASSUME MallocsOnly PROVE handed'[a] = UserStart(a)'
    <3>1. ~Is("VALLOC", a)
      BY <2>1, <2>4 DEF AllSound, Sound, Placed, MallocsOnly
    <3>2. "VALLOC" \notin slot'[a].flags /\ ("FENCE" \in slot'[a].flags <=> Is("FENCE", a))
      BY <2>2 DEF FreeBlank, BlankFlag, Is
    <3>3. UserStart(a)' = UserStart(a)
      BY <3>1, <3>2 DEF UserStart, UserOffset, Is
    <3> QED BY <2>1, <2>2, <3>3
  <2> QED BY <2>3, <2>4
<1> QED BY <1>1, <1>2, WaitingBefore

LEMMA FreshListedStep ==
  ASSUME CInv, FreshListed, [Next]_vars
  PROVE  FreshListed'
<1> SUFFICES ASSUME NeverReuses
             PROVE  /\ wait_list' = <<>>
                    /\ \A n \in SizeClasses : \A a \in Range(free_list'[n]) : slot'[a].seen = 0
  BY DEF FreshListed
<1>1. /\ IInv /\ "NEVER_REUSE" \in debug /\ wait_list = <<>>
      /\ \A n \in SizeClasses : \A a \in Range(free_list[n]) : slot[a].seen = 0
  BY DEF CInv, FreshListed, NeverReuses
<1>2. ~DrainOne
  BY <1>1 DEF DrainOne, HeadDue
<1>3. wait_list' = wait_list
  <2>1. TakeFree \/ CarvePiece => wait_list' = wait_list
    BY DEF TakeFree, CarvePiece
  <2>2. ASSUME NEW b \in UserChunks, Frees(b) PROVE wait_list' = wait_list
    BY <1>1, <2>2, FreeMoves
  <2> QED BY <1>1, <1>2, <2>1, <2>2, NextKinds, OtherMoves
<1>4. ASSUME NEW n \in SizeClasses, NEW a \in Range(free_list'[n]), a \notin Range(free_list[n])
      PROVE  CarvePiece /\ a = call.mem
  <2>1. free_list' # free_list
    BY <1>4
  <2>2. ~TakeFree
    BY <1>1, <1>4, TakeMoves
  <2>3. \A b \in UserChunks : ~Frees(b)
    BY <1>1, <2>1, FreeMoves
  <2>4. CarvePiece
    BY <1>1, <1>2, <2>1, <2>2, <2>3, NextKinds, OtherMoves
  <2> QED BY <1>1, <1>4, <2>4, CarveMoves
<1>5. ASSUME NEW n \in SizeClasses, NEW a \in Range(free_list'[n]) PROVE slot'[a].seen = 0
  <2>1. a \in Slots' /\ Is("FREE", a)'
    BY ListedNext
  <2>2. a \in Range(free_list[n]) => a \in Slots /\ a \notin UserChunks
    BY <1>1, OnLists, UserAlone
  <2>3. CASE a \in Range(free_list[n])
    BY <1>1, <2>1, <2>2, <2>3, FreeBefore
  <2>4. CASE a \notin Range(free_list[n])
    <3>1. CarvePiece /\ a = call.mem
      BY <1>4, <2>4
    <3>2. PICK admin : Inserted(FreshPiece(call.need),
                                [stats EXCEPT !.free_space = @ + call.need], "FREE", admin)
      BY <1>1, <3>1, CarveFacts
    <3> QED BY <3>1, <3>2 DEF Inserted, FreshPiece, NoSlot
  <2> QED BY <2>3, <2>4
<1> QED BY <1>1, <1>3, <1>5

LEMMA AdminPlainStep ==
  ASSUME CInv, AdminPlain, [Next]_vars
  PROVE  AdminPlain'
<1> SUFFICES ASSUME NEW a \in Slots', Is("ADMIN", a)'
             PROVE  slot'[a].flags = {"ADMIN"} /\ slot'[a].usize = 0
  BY DEF AdminPlain
<1>1. IInv /\ IInv' /\ a \in Addr
  BY CallNext DEF CInv, Slots
<1>2. ~Is("USER", a)' /\ ~Is("FREE", a)'
  BY <1>1 DEF IInv, ListsAgree, OneKind, Is
<1>3. CASE a \in Slots
  <2>1. slot'[a] # slot[a] => Is("USER", a)' \/ Is("FREE", a)'
    <3>1. ASSUME a \in UserChunks, Frees(a) PROVE Is("FREE", a)'
      BY <1>1, <3>1, FreesFacts
    <3>2. ASSUME a \in UserChunks, NEW size \in Sizes \ {0}, Resizes(a, size)
          PROVE  Is("USER", a)'
      <4>1. size \in Nat
        BY ParameterAssumption
      <4> QED BY <1>1, <3>2, <4>1, ResizesFacts
    <3>3. ASSUME Is("FREE", a), ~Is("FREE", a)' PROVE Is("USER", a)'
      <4>1. TakeFree /\ slot'[a] # slot[a]
        BY <1>1, <1>3, <3>3, FreeSlotStays DEF Is
      <4>2. slot'[a] = UserSlot(slot[a]) /\ slot[a] \in SlotType
        BY <1>1, <4>1, TakeFacts
      <4> QED BY <4>2 DEF UserSlot, UserFlags, SlotType, Is
    <3> QED BY <1>3, <3>1, <3>2, <3>3, UserSlotChanges
  <2> QED BY <1>2, <1>3, <2>1 DEF AdminPlain, Is
<1>4. CASE a \notin Slots
  <2>1. a \in Addr \ Slots
    BY <1>1, <1>4
  <2> QED BY <1>2, <2>1, NewSlots DEF Is
<1> QED BY <1>3, <1>4

(* With NEVER_REUSE off nothing falls off the lists, a call that has cut up *)
(* a block finds a piece, and what waits was handed out and freed.          *)
LEMMA ListInvariance == Spec => []ListInv
<1>1. Init => ListInv
  <2> SUFFICES ASSUME Init PROVE ListInv
    OBVIOUS
  <2>1. Slots = {} /\ wait_list = <<>> /\ pc = "idle"
        /\ (\A n \in SizeClasses : free_list[n] = <<>>) /\ \A a \in Addr : damage[a] = {}
    BY DEF Init, Slots, NoSlot
  <2>2. Range(<<>>) = {}
    BY DEF Range
  <2> QED BY <2>1, <2>2 DEF ListInv, NoneLost, PieceReady, WaitingMarked, FreshListed,
                            AdminPlain, Waiting
<1>2. CInv /\ ListInv /\ [Next]_vars => ListInv'
  BY NoneLostStep, PieceReadyStep, WaitingMarkedStep, FreshListedStep, AdminPlainStep
  DEF ListInv
<1> QED BY <1>1, <1>2, CallInvariance, PTL DEF Spec

(* While NEVER_REUSE is not asked for, memory a call returned or has just   *)
(* cut up can always be handed out, and get_divided_memory's second look at *)
(* the free list finds a piece.                                             *)
THEOREM NothingIsLost == Spec => []NothingLost
<1>1. ListInv => NothingLost
  BY DEF ListInv, NoneLost, PieceReady, NothingLost, RetakeFindsPiece, NeverLoses
<1> QED BY <1>1, ListInvariance, PTL

(* And count_changed counts all of the memory that has changed since a mark *)
(* as long as there is something on the free list.                          *)
THEOREM ChangesCounted ==
  ASSUME NeverLoses PROVE Spec => []FreedCounted
<1>1. CInv /\ ListInv => FreedCounted
  <2> SUFFICES ASSUME CInv, ListInv, FreeListed # {}, NEW mark \in 0 .. iter
               PROVE  CountChanged(mark, TRUE, TRUE) = SumFunctionOnSet(UserSize, Changed(mark))
    BY DEF FreedCounted
  <2>1. ASSUME NEW a \in Changed(mark)
        PROVE  a \in Visited /\ (Is("USER", a) \/ Is("FREE", a))
    <3>1. a \in Slots /\ ~Is("ADMIN", a)
      BY <2>1 DEF Changed
    <3>2. Is("USER", a) \/ Is("FREE", a)
      BY <3>1 DEF CInv, IInv, ListsAgree, OneKind, Is
    <3>3. Is("FREE", a) \/ a \in used
      BY <3>1 DEF CInv, IInv, ListsAgree, UsedAgrees
    <3> QED BY <3>1, <3>2, <3>3 DEF ListInv, NoneLost, Visited
  <2>2. {a \in Visited \cap Changed(mark) : (TRUE /\ Is("USER", a)) \/ (TRUE /\ Is("FREE", a))}
         = Changed(mark)
    BY <2>1
  <2> QED BY <2>2 DEF CountChanged
<1> QED BY <1>1, CallInvariance, ListInvariance, PTL

(* Where NEVER_REUSE is always set, memory that was used once is not handed *)
(* out again, by no sequence of calls: a chunk is carved, used and given    *)
(* up.                                                                      *)
THEOREM UsedOnce ==
  ASSUME NeverReuses PROVE Spec => NeverReuse
<1>1. CInv /\ ListInv /\ [Next]_vars =>
        [\A a \in Addr : Reused(a) => "NEVER_REUSE" \notin debug]_vars
  <2> SUFFICES ASSUME CInv, ListInv, [Next]_vars, NEW a \in Addr, Reused(a)
               PROVE  FALSE
    OBVIOUS
  <2>1. IInv /\ a \in Slots /\ Is("FREE", a) /\ slot[a].seen > 0
    BY DEF CInv, Reused, Slots, Is
  <2>2. "USER" \notin slot[a].flags
    BY <2>1 DEF IInv, ListsAgree, OneKind, Is
  <2>3. TakeFree /\ a = Head(free_list[call.need])
    BY <2>1, <2>2, FreeSlotStays DEF Reused
  <2>4. call.need \in SizeClasses /\ a \in Range(free_list[call.need])
    BY <2>1, <2>3, TakeFacts
  <2> QED BY <2>1, <2>4 DEF ListInv, FreshListed
<1> QED BY <1>1, CallInvariance, ListInvariance, PTL DEF Spec, NeverReuse

(* The checks of a chunk that is free, and of one the library keeps for its *)
(* slots, fail only for what the program has done to it.                    *)
LEMMA FreePasses ==
  ASSUME CInv, NEW a \in Slots, Is("FREE", a)
  PROVE  FreeSlotError(a, iter + 1) = "ok" <=> damage[a] = {}
<1>1. IInv /\ a \in Addr /\ slot[a] \in SlotType /\ damage[a] \subseteq WatchedParts(a)
  BY OnLists DEF CInv, DamageWatched, Slots
<1>2. damage[a] \subseteq {"body"} /\ ("body" \in damage[a] => Is("BLANK", a))
  BY <1>1 DEF WatchedParts
<1>3. ~(slot[a].seen \div 2 > iter + 1)
  <2>1. slot[a].iter <= iter /\ slot[a].seen <= 2 * slot[a].iter + 1
    <3>1. ~Is("USER", a)
      BY <1>1 DEF IInv, ListsAgree, OneKind, Is
    <3> QED BY <3>1 DEF CInv, SeenInTime
  <2>2. slot[a].seen \in Nat /\ slot[a].iter \in Nat /\ iter \in Nat
    BY <1>1, ParameterAssumption DEF SlotType, IInv, TypeOK
  <2>3. slot[a].seen <= 2 * iter + 1
    BY <2>1, <2>2
  <2> QED BY <2>2, <2>3
<1> QED BY <1>2, <1>3 DEF FreeSlotError

LEMMA AdminPasses ==
  ASSUME CInv, AdminPlain, NEW a \in Slots, Is("ADMIN", a)
  PROVE  SlotError(a, iter + 1) = "ok" /\ damage[a] = {}
<1>1. IInv /\ a \in Addr /\ slot[a] \in SlotType /\ damage[a] \subseteq WatchedParts(a)
  BY OnLists DEF CInv, DamageWatched, Slots
<1>2. slot[a].flags = {"ADMIN"} /\ slot[a].usize = 0
  BY DEF AdminPlain
<1>3. damage[a] = {}
  BY <1>1, <1>2 DEF WatchedParts, Is
<1>4. ~(slot[a].usize > LARGEST_ALLOCATION)
  BY <1>2, ParameterAssumption
<1>5. ~(slot[a].size > BLOCK_SIZE \div 2 /\ slot[a].size % BLOCK_SIZE # 0)
  <2>1. Rounded(slot[a].size)
    BY DEF CInv, OnBlocks
  <2> QED BY <1>1, <2>1, GeometryAssumption DEF Rounded, Divided, SlotType
<1>6. ~(slot[a].seen \div 2 > iter + 1)
  <2>1. slot[a].iter <= iter /\ slot[a].seen <= 2 * slot[a].iter + 1
    BY <1>2 DEF CInv, SeenInTime, Is
  <2>2. slot[a].seen \in Nat /\ slot[a].iter \in Nat /\ iter \in Nat
    BY <1>1, ParameterAssumption DEF SlotType, IInv, TypeOK
  <2>3. slot[a].seen <= 2 * iter + 1
    BY <2>1, <2>2
  <2> QED BY <2>2, <2>3
<1> QED BY <1>2, <1>3, <1>4, <1>5, <1>6 DEF SlotError, Is

(* A heap check answers by what the program has written over, and by        *)
(* nothing else: it meets every chunk that is in use and, as long as there  *)
(* is one on the size lists, every chunk that was freed and not given up    *)
(* for good; those that were damaged it rejects, and it rejects no other,   *)
(* however often a chunk was resized in place, handed out again, or blanked *)
(* under settings that have changed since.                                  *)
THEOREM VerifyReports ==
  ASSUME SizesAllowed PROVE Spec => VerifyTrue
<1> DEFINE Reached(a) == \/ Is("USER", a)
                         \/ FreeListed # {} /\ a \in FreeListed \cup Waiting
<1>1. ASSUME CInv, ListInv, SizesWithin, VerifyHeap
      PROVE  result' = "HEAP_BAD" <=> \E a \in Damaged : Reached(a)
  <2>1. /\ IInv /\ iter \in Nat /\ iter' = iter + 1
        /\ iter + 1 \in Nat /\ iter <= iter + 1
    BY <1>1, ParameterAssumption DEF CInv, IInv, TypeOK, VerifyHeap, Enter
  <2>2. result' = "HEAP_BAD" <=>
          \E a \in Visited : IF a \in used THEN SlotError(a, iter + 1) # "ok"
                                          ELSE FreeSlotError(a, iter + 1) # "ok"
    BY <1>1, <2>1 DEF VerifyHeap, Returns
  <2>3. ASSUME NEW a \in Slots
        PROVE  /\ a \in used <=> ~Is("FREE", a)
               /\ a \in used /\ ~Is("USER", a) => Is("ADMIN", a)
               /\ Is("USER", a) => ~Is("FREE", a)
    BY <2>1 DEF IInv, ListsAgree, UsedAgrees, OneKind, Is
  <2>4. Visited \subseteq Slots
    BY <2>1, OnLists DEF Visited, FreeListed, IInv, ListsAgree, UsedAgrees
  <2>5. ASSUME NEW a \in Slots
        PROVE  /\ a \in used => (SlotError(a, iter + 1) # "ok" <=> a \in Damaged)
               /\ a \notin used => (FreeSlotError(a, iter + 1) # "ok" <=> a \in Damaged)
    <3>1. CASE Is("USER", a)
      <4>1. a \in UserChunks
        BY <2>3, <3>1 DEF UserChunks
      <4> QED BY <1>1, <2>1, <2>3, <3>1, <4>1, IntactPasses, DamagedFails DEF Damaged
    <3>2. CASE Is("FREE", a)
      BY <1>1, <2>3, <3>2, FreePasses DEF Damaged
    <3>3. CASE ~Is("USER", a) /\ ~Is("FREE", a)
      BY <1>1, <2>3, <3>3, AdminPasses DEF Damaged, ListInv
    <3> QED BY <3>1, <3>2, <3>3
  <2>6. ASSUME NEW a \in Damaged
        PROVE  a \in Visited <=> Reached(a)
    <3>1. a \in Slots /\ damage[a] # {}
      BY DEF Damaged
    <3>2. ~Is("ADMIN", a)
      BY <1>1, <3>1, AdminPasses DEF ListInv
    <3>3. a \in used <=> Is("USER", a)
      BY <1>1, <2>1, <2>3, <3>1, <3>2 DEF IInv, ListsAgree, UsedAgrees, OneKind, Is
    <3> QED BY <3>3 DEF Visited
  <2>7. Damaged \subseteq Slots
    BY DEF Damaged
  <2> QED BY <2>2, <2>4, <2>5, <2>6, <2>7
<1>2. CInv /\ ListInv /\ SizesWithin /\ [Next]_vars =>
        [VerifyHeap => (result' = "HEAP_BAD" <=> \E a \in Damaged : Reached(a))]_vars
  BY <1>1
<1> QED BY <1>2, CallInvariance, ListInvariance, SizesInvariance, PTL DEF Spec, VerifyTrue

(* The second free of a pointer is told as what it is for as long as the    *)
(* chunk waits, whatever the program has allocated, freed and resized since:*)
(* the pointer stays within a chunk that nobody else can hold.  A fenced    *)
(* valloc is left out: chunk_free drops its alignment, and with it the      *)
(* pointer get_pnt_info works out.                                          *)
THEOREM SecondFreeTold ==
  ASSUME MallocsOnly PROVE Spec => DoubleFreeReported
<1>1. ASSUME CInv, ListInv, NEW a \in Waiting, FreeCall(handed[a])
      PROVE  result' = "ALREADY_FREE"
  <2> DEFINE pnt == handed[a]
  <2>1. /\ IInv /\ a \in Slots /\ a \in Addr /\ Is("FREE", a) /\ slot[a] \in SlotType
        /\ slot[a].seen > 0 /\ pnt = UserStart(a) /\ Contains(a, pnt)
    BY <1>1, OnLists DEF CInv, SeenInTime, ListInv, WaitingMarked, IInv, ListsAgree, WaitAgrees
  <2>2. pnt \in Nat /\ pnt # NULL /\ a \in Int /\ slot[a].size \in Int
    BY <2>1, GeometryAssumption DEF UserStart, UserOffset, Addr, NULL, SlotType
  <2> HIDE DEF pnt
  <2>3. ASSUME NEW b \in Slots, Contains(b, pnt) PROVE b = a
    <3>1. b \in Int /\ slot[b].size \in Int
      BY <2>1, OnLists, GeometryAssumption DEF Addr, SizeClasses
    <3>2. ~(a < b) /\ ~(b < a)
      BY <2>1, <2>2, <2>3, <3>1 DEF Contains, IInv, NoOverlap, ChunksApart
    <3> QED BY <2>2, <3>1, <3>2
  <2>4. Holders(pnt) = {} /\ ~ \E b \in FreeListed : Contains(b, pnt)
    <3>1. a \notin used /\ a \notin FreeListed
      BY <1>1, <2>1 DEF IInv, ListsAgree, UsedAgrees, FreeAgrees, FreeListed
    <3>2. used \subseteq Slots /\ FreeListed \subseteq Slots
      BY <2>1, OnLists DEF FreeListed
    <3> QED BY <2>3, <3>1, <3>2 DEF Holders
  <2>5. MissingError(pnt) = {"ALREADY_FREE"}
    BY <1>1, <2>1, <2>4 DEF MissingError
  <2>6. ChunkFree(pnt)
    BY <1>1 DEF FreeCall, pnt
  <2>7. \E error \in MissingError(pnt) : Returns(error)
    BY <2>2, <2>4, <2>6 DEF ChunkFree
  <2> QED BY <2>5, <2>7 DEF Returns
<1>2. CInv /\ ListInv /\ [Next]_vars =>
        [\A a \in Waiting : FreeCall(handed[a]) => result' = "ALREADY_FREE"]_vars
  BY <1>1
<1> QED BY <1>2, CallInvariance, ListInvariance, PTL DEF Spec, DoubleFreeReported

-----------------------------------------------------------------------------
(* The counters as sums.                                                    *)

LEMMA ChunksFinite ==
  ASSUME IInv
  PROVE  /\ \A S \in SUBSET Slots : IsFiniteSet(S)
         /\ \A a \in Slots : /\ slot[a] \in SlotType /\ a \in Addr
                             /\ ChunkSize[a] = slot[a].size /\ slot[a].size \in Nat
                             /\ UserSize[a] = slot[a].usize /\ slot[a].usize \in Nat
         /\ UserChunks \subseteq Slots /\ FreeChunks \subseteq Slots
         /\ UserChunks \cap FreeChunks = {}
<1>1. BLOCK_SIZE \in Int /\ HeapEnd - 1 \in Int
  BY GeometryAssumption
<1>2. IsFiniteSet(Addr)
  BY <1>1, FS_Interval DEF Addr
<1>3. \A S \in SUBSET Slots : IsFiniteSet(S)
  BY <1>2, FS_Subset DEF Slots
<1>4. \A a \in Slots : /\ slot[a] \in SlotType /\ a \in Addr
                       /\ slot[a].size \in Nat /\ slot[a].usize \in Nat
  BY OnLists, GeometryAssumption DEF SlotType
<1>5. UserChunks \subseteq Slots /\ \A a \in UserChunks : ~Is("FREE", a)
  BY UserAlone
<1> QED BY <1>3, <1>4, <1>5 DEF ChunkSize, UserSize, FreeChunks

LEMMA GainsOne ==
  ASSUME IInv, NEW S \in SUBSET Slots, NEW a \in Addr \ S, slot'[a] \in SlotType,
         \A b \in S : slot'[b] = slot[b]
  PROVE  /\ Cardinality(S \cup {a}) = Cardinality(S) + 1
         /\ SumFunctionOnSet(ChunkSize', S \cup {a}) = SumFunctionOnSet(ChunkSize, S) + slot'[a].size
         /\ SumFunctionOnSet(UserSize', S \cup {a}) = SumFunctionOnSet(UserSize, S) + slot'[a].usize
<1>1. IsFiniteSet(S) /\ a \notin S
  BY ChunksFinite
<1>2. slot'[a].size \in Int /\ slot'[a].usize \in Int
  BY GeometryAssumption DEF SlotType
<1>3. ChunkSize'[a] = slot'[a].size /\ UserSize'[a] = slot'[a].usize
  BY DEF ChunkSize, UserSize
<1>4. \A b \in S : /\ ChunkSize[b] \in Int /\ ChunkSize'[b] = ChunkSize[b]
                   /\ UserSize[b] \in Int /\ UserSize'[b] = UserSize[b]
  <2>1. \A b \in S : ChunkSize[b] \in Int /\ UserSize[b] \in Int
    BY ChunksFinite
  <2>2. \A b \in S : ChunkSize'[b] = ChunkSize[b] /\ UserSize'[b] = UserSize[b]
    BY DEF ChunkSize, UserSize, Slots
  <2> QED BY <2>1, <2>2
<1>5. SumFunctionOnSet(ChunkSize', S \cup {a}) = SumFunctionOnSet(ChunkSize, S) + ChunkSize'[a]
  BY <1>1, <1>2, <1>3, <1>4, SumGains
<1>6. SumFunctionOnSet(UserSize', S \cup {a}) = SumFunctionOnSet(UserSize, S) + UserSize'[a]
  BY <1>1, <1>2, <1>3, <1>4, SumGains
<1> QED BY <1>1, <1>3, <1>5, <1>6, FS_AddElement

LEMMA LosesOne ==
  ASSUME IInv, NEW S \in SUBSET Slots, NEW a \in S, \A b \in S \ {a} : slot'[b] = slot[b]
  PROVE  /\ Cardinality(S \ {a}) = Cardinality(S) - 1
         /\ SumFunctionOnSet(ChunkSize', S \ {a}) = SumFunctionOnSet(ChunkSize, S) - slot[a].size
         /\ SumFunctionOnSet(UserSize', S \ {a}) = SumFunctionOnSet(UserSize, S) - slot[a].usize
<1>1. IsFiniteSet(S) /\ ChunkSize[a] = slot[a].size /\ UserSize[a] = slot[a].usize
  BY ChunksFinite
<1>2. \A b \in S : ChunkSize[b] \in Int /\ UserSize[b] \in Int
  BY ChunksFinite
<1>3. \A b \in S \ {a} : ChunkSize'[b] = ChunkSize[b] /\ UserSize'[b] = UserSize[b]
  BY DEF ChunkSize, UserSize, Slots
<1>4. SumFunctionOnSet(ChunkSize', S \ {a}) = SumFunctionOnSet(ChunkSize, S) - ChunkSize[a]
  BY <1>1, <1>2, <1>3, SumLoses
<1>5. SumFunctionOnSet(UserSize', S \ {a}) = SumFunctionOnSet(UserSize, S) - UserSize[a]
  BY <1>1, <1>2, <1>3, SumLoses
<1> QED BY <1>1, <1>4, <1>5, FS_RemoveElement

LEMMA SameSums ==
  ASSUME IInv, NEW S \in SUBSET Slots, \A b \in S : slot'[b] = slot[b]
  PROVE  /\ SumFunctionOnSet(ChunkSize', S) = SumFunctionOnSet(ChunkSize, S)
         /\ SumFunctionOnSet(UserSize', S) = SumFunctionOnSet(UserSize, S)
<1>1. IsFiniteSet(S)
  BY ChunksFinite
<1>2. \A b \in S : ChunkSize'[b] = ChunkSize[b] /\ UserSize'[b] = UserSize[b]
  BY DEF ChunkSize, UserSize, Slots
<1> QED BY <1>1, <1>2, SumOfSame

LEMMA SumsAreInt ==
  ASSUME IInv
  PROVE  /\ SumFunctionOnSet(ChunkSize, UserChunks) \in Nat
         /\ SumFunctionOnSet(UserSize, UserChunks) \in Nat
         /\ SumFunctionOnSet(ChunkSize, FreeChunks) \in Nat
         /\ Cardinality(UserChunks) \in Nat
<1>1. /\ UserChunks \in SUBSET Slots /\ FreeChunks \in SUBSET Slots
      /\ \A S \in SUBSET Slots : IsFiniteSet(S)
      /\ \A a \in Slots : ChunkSize[a] \in Nat /\ UserSize[a] \in Nat
  BY ChunksFinite
<1> QED BY <1>1, SumIsNat, FS_CardinalityType

(* Which chunks are the program's and which are free after a step.          *)
LEMMA KindsNext ==
  ASSUME CInv, [Next]_vars
  PROVE  /\ UserChunks' = {a \in Slots' : "USER" \in slot'[a].flags}
         /\ FreeChunks' = {a \in Slots' : "FREE" \in slot'[a].flags}
         /\ UserChunks = {a \in Slots : Is("USER", a)}
         /\ FreeChunks = {a \in Slots : Is("FREE", a)}
         /\ \A a \in Slots : ~(Is("USER", a) /\ Is("FREE", a))
<1>1. IInv /\ IInv'
  BY CallNext DEF CInv
<1>2. \A a \in Slots' : "USER" \in slot'[a].flags => "FREE" \notin slot'[a].flags
  BY <1>1 DEF IInv, ListsAgree, OneKind, Is
<1>3. used' = {a \in Slots' : "FREE" \notin slot'[a].flags}
  BY <1>1 DEF IInv, ListsAgree, UsedAgrees, Is
<1>4. UserChunks' = {a \in used' : "USER" \in slot'[a].flags}
  BY DEF UserChunks, Is
<1>5. UserChunks' = {a \in Slots' : "USER" \in slot'[a].flags}
  BY <1>2, <1>3, <1>4
<1>6. \A a \in Slots : ~(Is("USER", a) /\ Is("FREE", a))
  BY <1>1 DEF IInv, ListsAgree, OneKind, Is
<1>7. UserChunks = {a \in Slots : Is("USER", a)}
  BY <1>1, UserChunksAre
<1> QED BY <1>5, <1>6, <1>7 DEF FreeChunks, Is

(* What the counters are after a step, for each kind of step. *)

LEMMA ResizedIs ==
  ASSUME NEW st \in StatsType, NEW size \in Int, NEW delta \in Int
  PROVE  LET s == Grown(st, size, delta) IN
         /\ s \in StatsType
         /\ s.current = st.current + delta /\ s.maximum = Larger(st.maximum, st.current + delta)
         /\ s.one_max = Larger(st.one_max, size) /\ s.total = st.total + size
         /\ s.tot_pnts = st.tot_pnts + 1
         /\ \A f \in {"cur_given", "max_given", "free_space", "cur_pnts", "max_pnts",
                      "user_blocks", "admin_blocks"} : s[f] = st[f]
<1>1. Grown(st, size, delta) \in StatsType
  BY GrownType
<1> QED BY <1>1 DEF Grown, StatsType

LEMMA AllocatedIs ==
  ASSUME NEW st \in StatsType, NEW given \in Int, call.size \in Int
  PROVE  LET s == Allocated(st, given) IN
         /\ s \in StatsType
         /\ s.current = st.current + call.size /\ s.cur_given = st.cur_given + given
         /\ s.cur_pnts = st.cur_pnts + 1 /\ s.free_space = st.free_space
         /\ s.maximum = Larger(st.maximum, st.current + call.size)
         /\ s.max_given = Larger(st.max_given, st.cur_given + given)
         /\ s.one_max = Larger(st.one_max, call.size) /\ s.total = st.total + call.size
         /\ s.max_pnts = Larger(st.max_pnts, st.cur_pnts + 1)
         /\ s.tot_pnts = st.tot_pnts + 1
         /\ s.user_blocks = st.user_blocks /\ s.admin_blocks = st.admin_blocks
<1>1. PICK g \in StatsType : g = Grown(st, call.size, call.size)
  BY GrownType
<1>2. /\ g.current = st.current + call.size /\ g.maximum = Larger(st.maximum, st.current + call.size)
      /\ g.one_max = Larger(st.one_max, call.size) /\ g.total = st.total + call.size
      /\ g.tot_pnts = st.tot_pnts + 1
      /\ \A f \in {"cur_given", "max_given", "free_space", "cur_pnts", "max_pnts",
                   "user_blocks", "admin_blocks"} : g[f] = st[f]
  BY <1>1, ResizedIs
<1>3. Allocated(st, given) \in StatsType
  BY AllocatedType
<1>4. Allocated(st, given) =
        [g EXCEPT !.cur_given = @ + given, !.max_given = Larger(@, st.cur_given + given),
                  !.cur_pnts = @ + 1, !.max_pnts = Larger(@, st.cur_pnts + 1)]
  BY <1>1 DEF Allocated
<1> QED BY <1>2, <1>3, <1>4 DEF StatsType

LEMMA FreedIs ==
  ASSUME NEW st \in StatsType, NEW given \in Int, NEW size \in Int
  PROVE  LET s == Freed(st, given, size) IN
         /\ s \in StatsType
         /\ s.current = st.current - size /\ s.cur_given = st.cur_given - given
         /\ s.free_space = st.free_space + given /\ s.cur_pnts = st.cur_pnts - 1
         /\ \A f \in {"maximum", "max_given", "one_max", "total", "max_pnts", "tot_pnts",
                      "user_blocks", "admin_blocks"} : s[f] = st[f]
<1>1. Freed(st, given, size) \in StatsType
  BY FreedType
<1> QED BY <1>1 DEF Freed, StatsType

-----------------------------------------------------------------------------
(* The counters after each kind of step that moves them. *)

LEMMA CountersAre ==
  ASSUME IInv
  PROVE  /\ stats \in StatsType /\ call.need \in Int /\ call.size \in Int
         /\ call.need \in Nat /\ call.size \in Nat
BY DEF IInv, TypeOK, CallType

SameMaxima == \A f \in {"maximum", "max_given", "one_max", "total", "max_pnts", "tot_pnts"} :
                stats'[f] = stats[f]
MoreAllocated ==
  /\ stats'.current = stats.current + call.size
  /\ stats'.cur_given = stats.cur_given + call.need
  /\ stats'.cur_pnts = stats.cur_pnts + 1
  /\ stats'.maximum = Larger(stats.maximum, stats.current + call.size)
  /\ stats'.max_given = Larger(stats.max_given, stats.cur_given + call.need)
  /\ stats'.one_max = Larger(stats.one_max, call.size)
  /\ stats'.total = stats.total + call.size
  /\ stats'.max_pnts = Larger(stats.max_pnts, stats.cur_pnts + 1)
  /\ stats'.tot_pnts = stats.tot_pnts + 1
  /\ stats'.user_blocks = stats.user_blocks

LEMMA TakeStats ==
  ASSUME IInv, TakeFree
  PROVE  /\ MoreAllocated /\ stats'.free_space = stats.free_space - call.need
         /\ stats'.admin_blocks = stats.admin_blocks /\ heap_high' = heap_high
<1>1. stats \in StatsType /\ call.need \in Int /\ call.size \in Int
  BY CountersAre
<1>2. PICK st \in StatsType : st = Allocated(stats, call.need)
  BY <1>1, AllocatedType
<1>3. stats' = [st EXCEPT !.free_space = @ - call.need] /\ heap_high' = heap_high
  BY <1>2 DEF TakeFree
<1>4. /\ \A f \in {"current", "cur_given", "cur_pnts", "maximum", "max_given", "one_max",
                   "total", "max_pnts", "tot_pnts", "user_blocks", "admin_blocks"} :
            stats'[f] = st[f]
      /\ stats'.free_space = st.free_space - call.need
  BY <1>2, <1>3 DEF StatsType
<1> QED BY <1>1, <1>2, <1>3, <1>4, AllocatedIs DEF MoreAllocated

LEMMA InsertStats ==
  ASSUME IInv, InsertBlocks
  PROVE  /\ MoreAllocated /\ stats'.free_space = stats.free_space
         /\ \/ stats'.admin_blocks = stats.admin_blocks /\ heap_high' = heap_high
            \/ /\ stats'.admin_blocks = stats.admin_blocks + 1
               /\ heap_high' = heap_high + BLOCK_SIZE
<1>1. /\ stats \in StatsType /\ call.need \in Int /\ call.size \in Int
      /\ heap_high \in Nat
  BY CountersAre DEF IInv, TypeOK
<1>2. PICK st \in StatsType : st = Allocated(stats, call.need)
  BY <1>1, AllocatedType
<1>3. PICK admin : Inserted(UserSlot(FreshPiece(call.need)), st, "USER", admin)
  BY <1>2, InsertFacts
<1>4. \A f \in {"current", "cur_given", "cur_pnts", "maximum", "max_given", "one_max",
                "total", "max_pnts", "tot_pnts", "user_blocks", "free_space"} :
         stats'[f] = st[f]
  BY <1>2, <1>3 DEF StatsType, Inserted
<1>5. \/ stats'.admin_blocks = st.admin_blocks /\ heap_high' = heap_high
      \/ stats'.admin_blocks = st.admin_blocks + 1 /\ heap_high' = heap_high + BLOCK_SIZE
  BY <1>1, <1>2, <1>3 DEF StatsType, Inserted
<1> QED BY <1>1, <1>2, <1>4, <1>5, AllocatedIs DEF MoreAllocated

LEMMA CarveStats ==
  ASSUME IInv, CarvePiece
  PROVE  /\ stats'.free_space = stats.free_space + call.need /\ SameMaxima
         /\ \A f \in {"current", "cur_given", "cur_pnts", "user_blocks"} : stats'[f] = stats[f]
         /\ \/ stats'.admin_blocks = stats.admin_blocks /\ heap_high' = heap_high
            \/ /\ stats'.admin_blocks = stats.admin_blocks + 1
               /\ heap_high' = heap_high + BLOCK_SIZE
<1>1. /\ stats \in StatsType /\ call.need \in Int /\ heap_high \in Nat
  BY CountersAre DEF IInv, TypeOK
<1>2. PICK admin : Inserted(FreshPiece(call.need),
                            [stats EXCEPT !.free_space = @ + call.need], "FREE", admin)
  BY CarveFacts
<1>3. /\ stats'.free_space = stats.free_space + call.need /\ SameMaxima
      /\ \A f \in {"current", "cur_given", "cur_pnts", "user_blocks"} : stats'[f] = stats[f]
  BY <1>1, <1>2 DEF StatsType, Inserted, SameMaxima
<1>4. \/ stats'.admin_blocks = stats.admin_blocks /\ heap_high' = heap_high
      \/ stats'.admin_blocks = stats.admin_blocks + 1 /\ heap_high' = heap_high + BLOCK_SIZE
  BY <1>1, <1>2 DEF StatsType, Inserted
<1> QED BY <1>3, <1>4

LEMMA FreeStats ==
  ASSUME IInv, NEW a \in UserChunks, Frees(a)
  PROVE  /\ slot[a].size \in Nat /\ slot[a].usize \in Nat
         /\ stats'.current = stats.current - slot[a].usize
         /\ stats'.cur_given = stats.cur_given - slot[a].size
         /\ stats'.free_space = stats.free_space + slot[a].size
         /\ stats'.cur_pnts = stats.cur_pnts - 1 /\ SameMaxima
         /\ stats'.user_blocks = stats.user_blocks
         /\ stats'.admin_blocks = stats.admin_blocks /\ heap_high' = heap_high
<1>1. stats \in StatsType
  BY CountersAre
<1>2. slot[a].size \in Nat /\ slot[a].usize \in Nat
  BY ChunksFinite
<1>3. slot[a].size \in Int /\ slot[a].usize \in Int
  BY <1>2
<1>4. stats' = Freed(stats, slot[a].size, slot[a].usize) /\ heap_high' = heap_high
  BY DEF Frees, Release
<1> QED BY <1>1, <1>2, <1>3, <1>4, FreedIs DEF SameMaxima

LEMMA ResizeStats ==
  ASSUME IInv, NEW a \in UserChunks, NEW size \in Sizes, Resizes(a, size)
  PROVE  /\ slot[a].usize \in Nat /\ size \in Nat
         /\ stats'.current = stats.current + (size - slot[a].usize)
         /\ stats'.maximum = Larger(stats.maximum, stats.current + (size - slot[a].usize))
         /\ stats'.one_max = Larger(stats.one_max, size) /\ stats'.total = stats.total + size
         /\ stats'.tot_pnts = stats.tot_pnts + 1 /\ heap_high' = heap_high
         /\ \A f \in {"cur_given", "max_given", "free_space", "cur_pnts", "max_pnts",
                      "user_blocks", "admin_blocks"} : stats'[f] = stats[f]
<1>1. stats \in StatsType
  BY CountersAre
<1>2. slot[a].usize \in Nat /\ size \in Nat
  BY ChunksFinite, ParameterAssumption
<1>3. size \in Int /\ size - slot[a].usize \in Int
  BY <1>2
<1>4. stats' = Grown(stats, size, size - slot[a].usize) /\ heap_high' = heap_high
  BY DEF Resizes, Resize
<1> QED BY <1>1, <1>2, <1>3, <1>4, ResizedIs

LEMMA TakeTotals ==
  ASSUME CInv, Accounting, TakeFree, [Next]_vars
  PROVE  Accounting'
<1>1. IInv /\ stats \in StatsType /\ call \in CallType
  BY DEF CInv, IInv, TypeOK
<1>2. PICK a \in Slots :
        /\ Is("FREE", a) /\ slot[a].size = call.need /\ slot[a] \in SlotType
        /\ slot'[a] = UserSlot(slot[a]) /\ Slots' = Slots
        /\ \A b \in Addr \ {a} : slot'[b] = slot[b]
  BY <1>1, TakeFacts
<1>3. /\ slot'[a].flags \cap {"USER", "FREE", "ADMIN"} = {"USER"} /\ slot'[a] \in SlotType
      /\ slot'[a].size = call.need /\ slot'[a].usize = call.size
  <2>1. slot'[a].usize = call.size
    BY <1>2 DEF UserSlot, SlotType
  <2> QED BY <1>1, <1>2, <2>1, UserSlotType
<1>4. /\ UserChunks' = UserChunks \cup {a} /\ FreeChunks' = FreeChunks \ {a}
      /\ a \in FreeChunks /\ a \notin UserChunks
  <2>1. \A b \in Slots \ {a} : slot'[b] = slot[b]
    BY <1>2 DEF Slots
  <2> QED BY <1>2, <1>3, <2>1, KindsNext DEF Is
<1>5. /\ \A b \in UserChunks : slot'[b] = slot[b]
      /\ \A b \in FreeChunks \ {a} : slot'[b] = slot[b]
      /\ UserChunks \in SUBSET Slots /\ FreeChunks \in SUBSET Slots /\ a \in Addr
  BY <1>1, <1>2, <1>4, ChunksFinite DEF Slots
<1>6. /\ Cardinality(UserChunks') = stats.cur_pnts + 1
      /\ SumFunctionOnSet(ChunkSize', UserChunks') = stats.cur_given + call.need
      /\ SumFunctionOnSet(UserSize', UserChunks') = stats.current + call.size
  BY <1>1, <1>3, <1>4, <1>5, GainsOne DEF Accounting
<1>7. SumFunctionOnSet(ChunkSize', FreeChunks') = stats.free_space - call.need
  BY <1>1, <1>2, <1>4, <1>5, LosesOne DEF Accounting
<1>8. /\ stats'.cur_pnts = stats.cur_pnts + 1 /\ stats'.current = stats.current + call.size
      /\ stats'.cur_given = stats.cur_given + call.need
      /\ stats'.free_space = stats.free_space - call.need
  BY <1>1, TakeStats DEF MoreAllocated
<1> QED BY <1>6, <1>7, <1>8 DEF Accounting

LEMMA FreeTotals ==
  ASSUME CInv, Accounting, [Next]_vars, NEW a \in UserChunks, Frees(a)
  PROVE  Accounting'
<1>1. IInv /\ stats \in StatsType
  BY DEF CInv, IInv, TypeOK
<1>2. /\ a \in Slots /\ a \in Addr /\ Slots' = Slots /\ ~Is("USER", a)' /\ Is("FREE", a)'
      /\ slot'[a].size = slot[a].size /\ ~Is("FREE", a)
      /\ \A b \in Addr \ {a} : slot'[b] = slot[b]
  BY <1>1, FreesFacts
<1>3. UserChunks' = UserChunks \ {a} /\ FreeChunks' = FreeChunks \cup {a} /\ a \notin FreeChunks
  <2>1. \A b \in Slots \ {a} : slot'[b] = slot[b]
    BY <1>2 DEF Slots
  <2> QED BY <1>2, <2>1, KindsNext DEF Is
<1>4. /\ \A b \in FreeChunks : slot'[b] = slot[b]
      /\ \A b \in UserChunks \ {a} : slot'[b] = slot[b]
      /\ UserChunks \in SUBSET Slots /\ FreeChunks \in SUBSET Slots
  BY <1>1, <1>2, <1>3, ChunksFinite DEF Slots
<1>5. slot'[a] \in SlotType
  <2>1. IInv'
    BY CallNext DEF CInv
  <2> QED BY <1>2, <2>1 DEF IInv, TypeOK
<1>6. /\ Cardinality(UserChunks') = stats.cur_pnts - 1
      /\ SumFunctionOnSet(ChunkSize', UserChunks') = stats.cur_given - slot[a].size
      /\ SumFunctionOnSet(UserSize', UserChunks') = stats.current - slot[a].usize
  BY <1>1, <1>3, <1>4, LosesOne DEF Accounting
<1>7. SumFunctionOnSet(ChunkSize', FreeChunks') = stats.free_space + slot[a].size
  BY <1>1, <1>2, <1>3, <1>4, <1>5, GainsOne DEF Accounting
<1>8. /\ stats'.cur_pnts = stats.cur_pnts - 1 /\ stats'.current = stats.current - slot[a].usize
      /\ stats'.cur_given = stats.cur_given - slot[a].size
      /\ stats'.free_space = stats.free_space + slot[a].size
  BY <1>1, FreeStats
<1> QED BY <1>6, <1>7, <1>8 DEF Accounting

LEMMA ResizeTotals ==
  ASSUME CInv, Accounting, [Next]_vars, NEW a \in UserChunks, NEW size \in Sizes, Resizes(a, size)
  PROVE  Accounting'
<1>1. IInv /\ stats \in StatsType
  BY DEF CInv, IInv, TypeOK
<1>2. /\ a \in Slots /\ a \in Addr /\ Slots' = Slots
      /\ slot'[a].flags = slot[a].flags \cup AllocBlank
      /\ slot'[a].size = slot[a].size /\ slot'[a].usize = size
      /\ \A b \in Addr \ {a} : slot'[b] = slot[b]
  <2>1. size \in Nat
    BY ParameterAssumption
  <2> QED BY <1>1, <2>1, ResizesFacts
<1>3. UserChunks' = UserChunks /\ FreeChunks' = FreeChunks /\ a \notin FreeChunks
  <2>1. \A b \in Slots \ {a} : slot'[b] = slot[b]
    BY <1>2 DEF Slots
  <2>2. \A b \in Slots : \A f \in {"USER", "FREE"} : f \in slot'[b].flags <=> f \in slot[b].flags
    BY <1>2, <2>1 DEF AllocBlank, BlankFlag
  <2>3. a \notin FreeChunks
    BY <1>2, KindsNext
  <2> QED BY <1>2, <2>2, <2>3, KindsNext DEF Is
<1>4. /\ \A b \in FreeChunks : slot'[b] = slot[b]
      /\ \A b \in UserChunks \ {a} : slot'[b] = slot[b]
      /\ UserChunks \in SUBSET Slots /\ FreeChunks \in SUBSET Slots /\ IsFiniteSet(UserChunks)
  BY <1>1, <1>2, <1>3, ChunksFinite DEF Slots
<1>5. (\A b \in UserChunks : UserSize[b] \in Int /\ ChunkSize[b] \in Int) /\ size \in Int
  <2>1. size \in Int
    BY ParameterAssumption
  <2>2. \A b \in Slots : ChunkSize[b] \in Nat /\ UserSize[b] \in Nat
    BY <1>1, ChunksFinite
  <2>3. ASSUME NEW b \in UserChunks PROVE UserSize[b] \in Int /\ ChunkSize[b] \in Int
    <3>1. b \in Slots
      BY <1>4
    <3> QED BY <2>2, <3>1
  <2> QED BY <2>1, <2>3
<1>6. /\ \A b \in UserChunks \ {a} : UserSize'[b] = UserSize[b]
      /\ \A b \in UserChunks : ChunkSize'[b] = ChunkSize[b]
      /\ UserSize'[a] = size /\ UserSize[a] = slot[a].usize
  BY <1>2, <1>4 DEF UserSize, ChunkSize, Slots
<1>7. SumFunctionOnSet(UserSize', UserChunks) = stats.current + (size - slot[a].usize)
  <2>1. \A b \in UserChunks : UserSize'[b] \in Int
    BY <1>5, <1>6
  <2>2. SumFunctionOnSet(UserSize', UserChunks)
          = SumFunctionOnSet(UserSize, UserChunks) + (UserSize'[a] - UserSize[a])
    BY <1>4, <1>5, <1>6, <2>1, SumOfChanged
  <2> QED BY <1>6, <2>2 DEF Accounting
<1>8. SumFunctionOnSet(ChunkSize', UserChunks) = stats.cur_given
  BY <1>4, <1>6, SumOfSame DEF Accounting
<1>9. SumFunctionOnSet(ChunkSize', FreeChunks) = stats.free_space
  BY <1>1, <1>4, SameSums DEF Accounting
<1>10. /\ stats'.current = stats.current + (size - slot[a].usize)
       /\ stats'.cur_given = stats.cur_given /\ stats'.free_space = stats.free_space
       /\ stats'.cur_pnts = stats.cur_pnts
  BY <1>1, ResizeStats
<1> QED BY <1>3, <1>7, <1>8, <1>9, <1>10 DEF Accounting

LEMMA InsertedSlots ==
  ASSUME NEW s, NEW st, NEW kind, NEW admin, Inserted(s, st, kind, admin)
  PROVE  /\ \A b \in Slots : slot'[b] = slot[b]
         /\ Slots' = Slots \cup {call.mem} \cup admin
         /\ admin \cap Slots = {} /\ call.mem \notin admin
         /\ \A b \in admin : slot'[b].flags = {"ADMIN"}
<1>1. Slots \subseteq Addr /\ AdminSlot.flags = {"ADMIN"}
  BY DEF Slots, AdminSlot, NoSlot
<1> QED BY <1>1 DEF Inserted

LEMMA CarveTotals ==
  ASSUME CInv, Accounting, [Next]_vars, CarvePiece
  PROVE  Accounting'
<1>1. IInv /\ stats \in StatsType /\ call.need \in Int
  BY DEF CInv, IInv, TypeOK, CallType
<1>2. PICK admin : Inserted(FreshPiece(call.need),
                            [stats EXCEPT !.free_space = @ + call.need], "FREE", admin)
  BY <1>1, CarveFacts
<1>3. PICK a \in Addr \ Slots : a = call.mem
  BY <1>2 DEF Inserted
<1>4. slot'[a] \in SlotType /\ slot'[a].flags = {"FREE"} /\ slot'[a].size = call.need
  <2>1. call.need \in 0 .. HeapEnd
    BY <1>1, NeedIsSize DEF CarvePiece
  <2> QED BY <1>2, <1>3, <2>1, PieceType DEF Inserted
<1>5. /\ \A b \in Slots : slot'[b] = slot[b]
      /\ Slots' = Slots \cup {a} \cup admin /\ admin \cap Slots = {} /\ a \notin admin
      /\ \A b \in admin : slot'[b].flags = {"ADMIN"}
  BY <1>2, <1>3, InsertedSlots
<1>6. UserChunks' = UserChunks /\ FreeChunks' = FreeChunks \cup {a} /\ a \notin FreeChunks
  BY <1>3, <1>4, <1>5, KindsNext DEF Is
<1>7. /\ UserChunks \in SUBSET Slots /\ FreeChunks \in SUBSET Slots
      /\ \A b \in FreeChunks : slot'[b] = slot[b]
      /\ \A b \in UserChunks : slot'[b] = slot[b]
  BY <1>1, <1>5, ChunksFinite
<1>8. SumFunctionOnSet(ChunkSize', FreeChunks') = stats.free_space + call.need
  BY <1>1, <1>4, <1>5, <1>6, <1>7, GainsOne DEF Accounting
<1>9. /\ SumFunctionOnSet(ChunkSize', UserChunks') = stats.cur_given
      /\ SumFunctionOnSet(UserSize', UserChunks') = stats.current
  BY <1>1, <1>5, <1>6, <1>7, SameSums DEF Accounting
<1>10. /\ stats'.cur_pnts = stats.cur_pnts /\ stats'.current = stats.current
       /\ stats'.cur_given = stats.cur_given
       /\ stats'.free_space = stats.free_space + call.need
  BY <1>1, CarveStats
<1> QED BY <1>6, <1>8, <1>9, <1>10 DEF Accounting

LEMMA InsertTotals ==
  ASSUME CInv, Accounting, [Next]_vars, InsertBlocks
  PROVE  Accounting'
<1>1. IInv /\ stats \in StatsType /\ call.need \in Int /\ call.size \in Int
  BY DEF CInv, IInv, TypeOK, CallType
<1>2. PICK admin : Inserted(UserSlot(FreshPiece(call.need)),
                            Allocated(stats, call.need), "USER", admin)
  BY <1>1, InsertFacts
<1>3. PICK a \in Addr \ Slots : a = call.mem
  BY <1>2 DEF Inserted
<1>4. /\ slot'[a] \in SlotType /\ slot'[a].flags \cap {"USER", "FREE", "ADMIN"} = {"USER"}
      /\ slot'[a].size = call.need /\ slot'[a].usize = call.size
  <2>1. PICK s : s = FreshPiece(call.need)
    OBVIOUS
  <2>2. call.need \in 0 .. HeapEnd
    BY <1>1, NeedIsSize DEF InsertBlocks
  <2>3. s \in SlotType /\ s.size = call.need /\ slot'[a] = UserSlot(s)
    BY <1>2, <1>3, <2>1, <2>2, PieceType DEF Inserted
  <2>4. UserSlot(s).usize = call.size
    BY <2>3 DEF UserSlot, SlotType
  <2> QED BY <1>1, <2>3, <2>4, UserSlotType
<1>5. /\ \A b \in Slots : slot'[b] = slot[b]
      /\ Slots' = Slots \cup {a} \cup admin /\ admin \cap Slots = {} /\ a \notin admin
      /\ \A b \in admin : slot'[b].flags = {"ADMIN"}
  BY <1>2, <1>3, InsertedSlots
<1>6. FreeChunks' = FreeChunks /\ UserChunks' = UserChunks \cup {a} /\ a \notin UserChunks
  <2>1. "USER" \in slot'[a].flags /\ "FREE" \notin slot'[a].flags
    BY <1>4
  <2>2. /\ \A b \in Slots' : b \in Slots \/ b = a \/ b \in admin
        /\ \A b \in admin : "USER" \notin slot'[b].flags /\ "FREE" \notin slot'[b].flags
        /\ \A b \in Slots : b \in Slots' /\ b # a /\ slot'[b] = slot[b]
        /\ a \in Slots'
    BY <1>3, <1>5
  <2>3. FreeChunks' = FreeChunks
    BY <2>1, <2>2, KindsNext DEF Is
  <2>4. UserChunks' = UserChunks \cup {a} /\ a \notin UserChunks
    BY <2>1, <2>2, KindsNext DEF Is
  <2> QED BY <2>3, <2>4
<1>7. /\ UserChunks \in SUBSET Slots /\ FreeChunks \in SUBSET Slots
      /\ \A b \in FreeChunks : slot'[b] = slot[b]
      /\ \A b \in UserChunks : slot'[b] = slot[b]
  BY <1>1, <1>5, ChunksFinite
<1>8. /\ Cardinality(UserChunks') = stats.cur_pnts + 1
      /\ SumFunctionOnSet(ChunkSize', UserChunks') = stats.cur_given + call.need
      /\ SumFunctionOnSet(UserSize', UserChunks') = stats.current + call.size
  <2>1. a \in Addr \ UserChunks /\ slot'[a] \in SlotType
    BY <1>4, <1>6
  <2>2. /\ Cardinality(UserChunks \cup {a}) = Cardinality(UserChunks) + 1
        /\ SumFunctionOnSet(ChunkSize', UserChunks \cup {a})
             = SumFunctionOnSet(ChunkSize, UserChunks) + slot'[a].size
        /\ SumFunctionOnSet(UserSize', UserChunks \cup {a})
             = SumFunctionOnSet(UserSize, UserChunks) + slot'[a].usize
    BY <1>1, <1>7, <2>1, GainsOne
  <2> QED BY <1>4, <1>6, <2>2 DEF Accounting
<1>9. SumFunctionOnSet(ChunkSize', FreeChunks') = stats.free_space
  BY <1>1, <1>5, <1>6, <1>7, SameSums DEF Accounting
<1>10. /\ stats'.cur_pnts = stats.cur_pnts + 1 /\ stats'.current = stats.current + call.size
       /\ stats'.cur_given = stats.cur_given + call.need
       /\ stats'.free_space = stats.free_space
  BY <1>1, InsertStats DEF MoreAllocated
<1> QED BY <1>6, <1>8, <1>9, <1>10 DEF Accounting

LEMMA AccountingStep ==
  ASSUME CInv, Accounting, [Next]_vars
  PROVE  Accounting'
<1>1. IInv /\ stats \in StatsType
  BY DEF CInv, IInv, TypeOK
<1>2. ASSUME UNCHANGED slot,
             \A f \in {"cur_pnts", "current", "cur_given", "free_space"} : stats'[f] = stats[f]
      PROVE  Accounting'
  <2>1. Slots' = Slots
    BY <1>2 DEF Slots
  <2>2. UserChunks' = UserChunks /\ FreeChunks' = FreeChunks
    BY <1>2, <2>1, KindsNext DEF Is
  <2>3. ChunkSize' = ChunkSize /\ UserSize' = UserSize
    BY <1>2 DEF ChunkSize, UserSize
  <2> QED BY <1>2, <2>2, <2>3 DEF Accounting
<1>3. CASE DrainOne \/ Rests
  BY <1>2, <1>3 DEF DrainOne, Rests, heap
<1>4. CASE GrowHeap
  <2>1. UNCHANGED slot
    BY <1>4 DEF GrowHeap
  <2>2. \A f \in {"cur_pnts", "current", "cur_given", "free_space"} : stats'[f] = stats[f]
    BY <1>1, <1>4 DEF GrowHeap, StatsType
  <2> QED BY <1>2, <2>1, <2>2
<1>5. ASSUME NEW a, NEW part, Scribble(a, part) PROVE Accounting'
  BY <1>2, <1>5 DEF Scribble
<1>6. ASSUME NEW a \in UserChunks, NEW size \in Sizes \ {0}, Resizes(a, size) PROVE Accounting'
  BY <1>6, ResizeTotals
<1> QED BY <1>3, <1>4, <1>5, <1>6, TakeTotals, FreeTotals, CarveTotals, InsertTotals, NextKinds

-----------------------------------------------------------------------------
(* The blocks. *)

(* What a call has taken from the heap and not handed out or cut up yet.    *)
UnusedSpace == IF pc \in {"carve", "insert"} THEN call.bounds + call.need - call.mem ELSE 0
SpaceWithin ==
  stats.cur_given + stats.free_space + UnusedSpace <= stats.user_blocks * BLOCK_SIZE
BlocksCounted ==
  /\ stats.admin_blocks >= 0
  /\ heap_high = BLOCK_SIZE + (stats.user_blocks + stats.admin_blocks) * BLOCK_SIZE

LEMMA UnusedIs ==
  ASSUME IInv
  PROVE  /\ UnusedSpace \in Int /\ UnusedSpace >= 0
         /\ pc \notin {"carve", "insert"} => UnusedSpace = 0
         /\ pc = "insert" => UnusedSpace = call.need
         /\ pc = "carve" => /\ UnusedSpace = call.bounds + call.need - call.mem
                            /\ UnusedSpace >= call.need
<1>1. call.bounds \in Int /\ call.need \in Nat /\ call.mem \in Nat
  BY DEF IInv, TypeOK, CallType
<1>2. /\ pc = "insert" => call.mem = call.bounds
      /\ pc = "carve" => call.mem <= call.bounds
  BY DEF IInv, CallOK
<1> QED BY <1>1, <1>2 DEF UnusedSpace

LEMMA IdleSpace == ASSUME pc' \notin {"carve", "insert"} PROVE UnusedSpace' = 0
BY DEF UnusedSpace

LEMMA SpaceStep ==
  ASSUME CInv, SpaceWithin, [Next]_vars
  PROVE  SpaceWithin'
<1>1. /\ IInv /\ stats \in StatsType /\ call \in CallType /\ BLOCK_SIZE \in Nat /\ BLOCK_SIZE > 0
      /\ call.need \in Nat /\ call.size \in Nat /\ call.mem \in Nat /\ call.bounds \in Int
  BY GeometryAssumption DEF CInv, IInv, TypeOK, CallType
<1>2. /\ UnusedSpace \in Int /\ UnusedSpace >= 0
      /\ pc \notin {"carve", "insert"} => UnusedSpace = 0
      /\ pc = "insert" => UnusedSpace = call.need
      /\ pc = "carve" => /\ UnusedSpace = call.bounds + call.need - call.mem
                         /\ UnusedSpace >= call.need
  BY <1>1, UnusedIs
<1>3. PICK room : room = stats.user_blocks * BLOCK_SIZE /\ room \in Int
  BY <1>1 DEF StatsType
<1>4. stats.cur_given \in Int /\ stats.free_space \in Int /\ stats.user_blocks \in Int
      /\ stats.cur_given + stats.free_space + UnusedSpace <= room
  BY <1>1, <1>3 DEF StatsType, SpaceWithin
<1>5. ASSUME stats'.user_blocks = stats.user_blocks,
             stats'.cur_given + stats'.free_space + UnusedSpace' <= room
      PROVE  SpaceWithin'
  BY <1>3, <1>5 DEF SpaceWithin
<1>6. call.need \in Int
  BY <1>1
<1>8. CASE TakeFree
  <2>1. pc \notin {"carve", "insert"} /\ UnusedSpace' = 0
    BY <1>8, IdleSpace DEF TakeFree, HandOut, Returns
  <2>2. /\ stats'.cur_given = stats.cur_given + call.need
        /\ stats'.free_space = stats.free_space - call.need
        /\ stats'.user_blocks = stats.user_blocks
    BY <1>1, <1>8, TakeStats DEF MoreAllocated
  <2> QED BY <1>1, <1>2, <1>4, <1>5, <2>1, <2>2
<1>9. CASE CarvePiece
  <2>2. /\ stats'.cur_given = stats.cur_given
        /\ stats'.free_space = stats.free_space + call.need
        /\ stats'.user_blocks = stats.user_blocks
    BY <1>1, <1>9, CarveStats
  <2>3. pc = "carve" /\ (pc' = "carve" \/ pc' = "retake")
    BY <1>9 DEF CarvePiece
  <2>4. call'.mem = call.mem + call.need /\ call'.need = call.need /\ call'.bounds = call.bounds
    BY <1>1, <1>9 DEF CarvePiece, CallType
  <2>5. UnusedSpace' = UnusedSpace - call.need \/ UnusedSpace' = 0
    <3>1. CASE pc' = "carve"
      <4>1. UnusedSpace' = call'.bounds + call'.need - call'.mem
        BY <3>1 DEF UnusedSpace
      <4> QED BY <1>1, <1>2, <2>3, <2>4, <4>1
    <3> QED BY <2>3, <3>1, IdleSpace
  <2>6. UnusedSpace' <= UnusedSpace - call.need /\ UnusedSpace' \in Int
    BY <1>2, <1>6, <2>3, <2>5
  <2>7. stats'.cur_given + stats'.free_space + UnusedSpace' <= room
    BY <1>2, <1>3, <1>4, <1>6, <2>2, <2>6
  <2> QED BY <1>5, <2>2, <2>7
<1>10. CASE InsertBlocks
  <2>3. /\ stats'.cur_given = stats.cur_given + call.need
        /\ stats'.free_space = stats.free_space
        /\ stats'.user_blocks = stats.user_blocks
    BY <1>1, <1>10, InsertStats DEF MoreAllocated
  <2>4. pc = "insert" /\ UnusedSpace' = 0
    BY <1>10, IdleSpace DEF InsertBlocks, HandOut, Returns
  <2> QED BY <1>1, <1>2, <1>4, <1>5, <2>3, <2>4
<1>11. CASE GrowHeap
  <2> DEFINE grown == IF Divided(call.need) THEN BLOCK_SIZE ELSE call.need
  <2>1. grown \in Nat /\ grown % BLOCK_SIZE = 0
    <3>1. BLOCK_SIZE % BLOCK_SIZE = 0
      BY <1>1
    <3>2. Rounded(call.need)
      BY <1>11 DEF GrowHeap, CInv, CallFits
    <3> QED BY <1>1, <3>1, <3>2 DEF Rounded
  <2>2. /\ stats' = [stats EXCEPT !.user_blocks = @ + grown \div BLOCK_SIZE]
        /\ call' = [call EXCEPT !.mem = heap_high, !.bounds = heap_high + grown - call.need]
        /\ pc = "reuse" /\ pc' \in {"carve", "insert"} /\ heap_high \in Nat
    BY <1>1, <1>11 DEF GrowHeap, IInv, TypeOK
  <2> HIDE DEF grown
  <2>3. PICK k \in Nat : k = grown \div BLOCK_SIZE /\ k * BLOCK_SIZE = grown
    BY <1>1, <2>1
  <2>4. /\ stats'.cur_given = stats.cur_given /\ stats'.free_space = stats.free_space
        /\ stats'.user_blocks = stats.user_blocks + k
    BY <1>1, <2>2, <2>3 DEF StatsType
  <2>5. UnusedSpace' = grown
    <3>1. /\ call'.mem = heap_high /\ call'.need = call.need
          /\ call'.bounds = heap_high + grown - call.need
      BY <1>1, <2>2 DEF CallType
    <3>2. UnusedSpace' = call'.bounds + call'.need - call'.mem
      BY <2>2 DEF UnusedSpace
    <3> QED BY <1>1, <2>1, <2>2, <3>1, <3>2
  <2>6. (stats.user_blocks + k) * BLOCK_SIZE = room + grown
    BY <1>1, <1>3, <1>4, <2>3
  <2>7. UnusedSpace = 0
    BY <1>2, <2>2
  <2>8. stats'.cur_given + stats'.free_space + UnusedSpace' <= room + grown
    BY <1>3, <1>4, <2>1, <2>4, <2>5, <2>7
  <2> QED BY <2>4, <2>6, <2>8 DEF SpaceWithin
<1>12. CASE Rests
  <2>1. stats' = stats
    BY <1>12 DEF Rests, heap
  <2>2. UnusedSpace' = UnusedSpace \/ UnusedSpace' = 0
    BY <1>12 DEF Rests, UnusedSpace
  <2>3. stats'.cur_given + stats'.free_space + UnusedSpace' <= room
    BY <1>2, <1>3, <1>4, <2>1, <2>2
  <2> QED BY <1>5, <2>1, <2>3
<1>13. CASE DrainOne
  BY <1>4, <1>5, <1>13 DEF DrainOne, UnusedSpace
<1>14. ASSUME NEW a, NEW part, Scribble(a, part) PROVE SpaceWithin'
  BY <1>4, <1>5, <1>14 DEF Scribble, UnusedSpace
<1>15. ASSUME NEW a \in UserChunks, Frees(a) PROVE SpaceWithin'
  <2>2. /\ slot[a].size \in Int /\ stats'.cur_given = stats.cur_given - slot[a].size
        /\ stats'.free_space = stats.free_space + slot[a].size
        /\ stats'.user_blocks = stats.user_blocks
    BY <1>1, <1>15, FreeStats
  <2>3. UnusedSpace' = 0
    BY <1>15, IdleSpace DEF Frees, Returns
  <2>4. stats'.cur_given + stats'.free_space + UnusedSpace' <= room
    BY <1>2, <1>3, <1>4, <2>2, <2>3
  <2> QED BY <1>5, <2>2, <2>4
<1>16. ASSUME NEW a \in UserChunks, NEW size \in Sizes \ {0}, Resizes(a, size) PROVE SpaceWithin'
  <2>2. /\ stats'.cur_given = stats.cur_given /\ stats'.free_space = stats.free_space
        /\ stats'.user_blocks = stats.user_blocks
    BY <1>1, <1>16, ResizeStats
  <2>3. UnusedSpace' = 0
    BY <1>16, IdleSpace DEF Resizes, Returns
  <2>4. stats'.cur_given + stats'.free_space + UnusedSpace' <= room
    BY <1>2, <1>3, <1>4, <2>2, <2>3
  <2> QED BY <1>5, <2>2, <2>4
<1> QED BY <1>8, <1>9, <1>10, <1>11, <1>12, <1>13, <1>14, <1>15, <1>16, NextKinds

LEMMA BlocksStep ==
  ASSUME CInv, BlocksCounted, [Next]_vars
  PROVE  BlocksCounted'
<1>1. /\ IInv /\ stats \in StatsType /\ BLOCK_SIZE \in Nat /\ BLOCK_SIZE > 0
      /\ call.need \in Nat /\ call.size \in Nat /\ heap_high \in Nat
      /\ stats.user_blocks \in Int /\ stats.admin_blocks \in Int
  <2>1. IInv /\ heap_high \in Nat
    BY DEF CInv, IInv, TypeOK
  <2>2. stats.user_blocks \in Int /\ stats.admin_blocks \in Int
    BY <2>1, CountersAre DEF StatsType
  <2> QED BY <2>1, <2>2, CountersAre, GeometryAssumption
<1>2. ASSUME stats'.user_blocks = stats.user_blocks, stats'.admin_blocks = stats.admin_blocks,
             heap_high' = heap_high
      PROVE  BlocksCounted'
  BY <1>2 DEF BlocksCounted
<1>3. ASSUME stats'.user_blocks = stats.user_blocks,
             stats'.admin_blocks = stats.admin_blocks + 1,
             heap_high' = heap_high + BLOCK_SIZE
      PROVE  BlocksCounted'
  <2>1. (stats.user_blocks + (stats.admin_blocks + 1)) * BLOCK_SIZE
          = (stats.user_blocks + stats.admin_blocks) * BLOCK_SIZE + BLOCK_SIZE
    BY <1>1
  <2>2. (stats.user_blocks + stats.admin_blocks) * BLOCK_SIZE \in Int
    BY <1>1
  <2> QED BY <1>1, <1>3, <2>1, <2>2 DEF BlocksCounted
<1>4. CASE TakeFree
  BY <1>1, <1>2, <1>4, TakeStats DEF MoreAllocated
<1>5. CASE CarvePiece
  BY <1>1, <1>2, <1>3, <1>5, CarveStats
<1>6. CASE InsertBlocks
  BY <1>1, <1>2, <1>3, <1>6, InsertStats DEF MoreAllocated
<1>10. CASE GrowHeap
  <2> DEFINE grown == IF Divided(call.need) THEN BLOCK_SIZE ELSE call.need
  <2>1. grown \in Nat /\ grown % BLOCK_SIZE = 0
    <3>1. BLOCK_SIZE % BLOCK_SIZE = 0
      BY <1>1
    <3>2. Rounded(call.need)
      BY <1>10 DEF GrowHeap, CInv, CallFits
    <3> QED BY <1>1, <3>1, <3>2 DEF Rounded
  <2>2. /\ stats' = [stats EXCEPT !.user_blocks = @ + grown \div BLOCK_SIZE]
        /\ heap_high' = heap_high + grown
    BY <1>10 DEF GrowHeap
  <2> HIDE DEF grown
  <2>3. PICK k \in Nat : k = grown \div BLOCK_SIZE /\ k * BLOCK_SIZE = grown
    BY <1>1, <2>1
  <2>4. stats'.user_blocks = stats.user_blocks + k /\ stats'.admin_blocks = stats.admin_blocks
    BY <1>1, <2>2, <2>3, CountersAre DEF StatsType
  <2>5. (stats.user_blocks + k + stats.admin_blocks) * BLOCK_SIZE
          = (stats.user_blocks + stats.admin_blocks) * BLOCK_SIZE + grown
    BY <1>1, <2>3
  <2>6. (stats.user_blocks + stats.admin_blocks) * BLOCK_SIZE \in Int
    BY <1>1
  <2> QED BY <1>1, <2>1, <2>2, <2>4, <2>5, <2>6 DEF BlocksCounted
<1>11. CASE DrainOne \/ Rests
  BY <1>2, <1>11 DEF DrainOne, Rests, heap
<1>12. ASSUME NEW a, NEW part, Scribble(a, part) PROVE BlocksCounted'
  BY <1>2, <1>12 DEF Scribble
<1>13. ASSUME NEW a \in UserChunks, Frees(a) PROVE BlocksCounted'
  BY <1>1, <1>2, <1>13, FreeStats
<1>14. ASSUME NEW a \in UserChunks, NEW size \in Sizes \ {0}, Resizes(a, size) PROVE BlocksCounted'
  BY <1>1, <1>2, <1>14, ResizeStats
<1> QED BY <1>4, <1>5, <1>6, <1>10, <1>11, <1>12, <1>13, <1>14, NextKinds

-----------------------------------------------------------------------------
(* The maxima. *)

MaximaReached ==
  /\ MaximaOrdered
  /\ stats.current <= stats.maximum /\ stats.cur_given <= stats.max_given

(* What the program asked for is within what it was given.                  *)
LEMMA CurrentWithin ==
  ASSUME CInv, Accounting
  PROVE  /\ 0 <= stats.current /\ stats.current <= stats.cur_given
         /\ \A a \in UserChunks : slot[a].usize <= stats.current
<1>1. IInv
  BY DEF CInv
<1>2. /\ UserChunks \in SUBSET Slots /\ IsFiniteSet(UserChunks)
      /\ \A a \in UserChunks : /\ UserSize[a] = slot[a].usize /\ UserSize[a] \in Nat
                               /\ ChunkSize[a] = slot[a].size /\ ChunkSize[a] \in Nat
                               /\ a \in Addr
  BY <1>1, ChunksFinite
<1>3. ASSUME NEW a \in UserChunks PROVE UserSize[a] <= ChunkSize[a]
  <2>1. UserOffset(slot[a].flags) \in Nat /\ FenceTop(slot[a].flags) \in Nat /\ a \in Int
    BY <1>2, GeometryAssumption DEF UserOffset, FenceTop, Addr
  <2>2. UserStart(a) + slot[a].usize <= UpperBounds(a)
    BY DEF CInv, UserFits
  <2> QED BY <1>2, <2>1, <2>2 DEF UserStart, UpperBounds
<1>4. SumFunctionOnSet(UserSize, UserChunks) <= SumFunctionOnSet(ChunkSize, UserChunks)
  BY <1>2, <1>3, SumIsMonotonic
<1>5. /\ SumFunctionOnSet(UserSize, UserChunks) \in Nat
      /\ \A a \in UserChunks : UserSize[a] <= SumFunctionOnSet(UserSize, UserChunks)
  BY <1>2, SumIsNat
<1> QED BY <1>2, <1>4, <1>5 DEF Accounting

LEMMA MaximaStep ==
  ASSUME CInv, Accounting, MaximaReached, [Next]_vars
  PROVE  MaximaReached'
<1>1. /\ IInv /\ stats \in StatsType /\ call.need \in Nat /\ call.size \in Nat
  BY CountersAre DEF CInv
<1>2. /\ stats.current \in Int /\ stats.maximum \in Int /\ stats.cur_given \in Int
      /\ stats.max_given \in Int /\ stats.one_max \in Int /\ stats.total \in Int
      /\ stats.cur_pnts \in Int /\ stats.max_pnts \in Int /\ stats.tot_pnts \in Int
  BY <1>1 DEF StatsType
<1>3. /\ stats.one_max <= stats.maximum /\ stats.maximum <= stats.total
      /\ stats.maximum <= stats.max_given
      /\ stats.cur_pnts <= stats.max_pnts /\ stats.max_pnts <= stats.tot_pnts
      /\ stats.current <= stats.maximum /\ stats.cur_given <= stats.max_given
  BY DEF MaximaReached, MaximaOrdered
<1>4. /\ 0 <= stats.current /\ stats.current <= stats.cur_given
      /\ 0 <= stats'.current /\ stats'.current <= stats'.cur_given
      /\ \A a \in UserChunks' : slot'[a].usize <= stats'.current
  <2>1. (CInv /\ Accounting => /\ 0 <= stats.current /\ stats.current <= stats.cur_given
                               /\ \A a \in UserChunks : slot[a].usize <= stats.current)'
    BY CurrentWithin, PTL
  <2> QED BY <2>1, CurrentWithin, CallNext, AccountingStep
<1>5. ASSUME SameMaxima, stats'.current <= stats.current, stats'.cur_given <= stats.cur_given,
             stats'.cur_pnts <= stats.cur_pnts, stats'.current \in Int,
             stats'.cur_given \in Int, stats'.cur_pnts \in Int
      PROVE  MaximaReached'
  <2>1. /\ stats'.one_max = stats.one_max /\ stats'.maximum = stats.maximum
        /\ stats'.total = stats.total /\ stats'.max_given = stats.max_given
        /\ stats'.max_pnts = stats.max_pnts /\ stats'.tot_pnts = stats.tot_pnts
    BY <1>5 DEF SameMaxima
  <2> QED BY <1>2, <1>3, <1>5, <2>1 DEF MaximaReached, MaximaOrdered
<1>6. ASSUME MoreAllocated PROVE MaximaReached'
  BY <1>1, <1>2, <1>3, <1>4, <1>6 DEF MoreAllocated, Larger, MaximaReached, MaximaOrdered
<1>7. CASE TakeFree
  BY <1>1, <1>6, <1>7, TakeStats
<1>8. CASE InsertBlocks
  BY <1>1, <1>6, <1>8, InsertStats
<1>9. CASE CarvePiece
  BY <1>1, <1>2, <1>5, <1>9, CarveStats
<1>10. CASE GrowHeap
  <2>1. /\ \A f \in {"current", "cur_given", "cur_pnts"} : stats'[f] = stats[f]
        /\ SameMaxima
    BY <1>1, <1>10 DEF GrowHeap, StatsType, SameMaxima
  <2> QED BY <1>2, <1>5, <2>1
<1>11. ASSUME stats' = stats PROVE MaximaReached'
  BY <1>11 DEF MaximaReached, MaximaOrdered
<1>12. CASE DrainOne \/ Rests
  BY <1>11, <1>12 DEF DrainOne, Rests, heap
<1>13. ASSUME NEW a, NEW part, Scribble(a, part) PROVE MaximaReached'
  BY <1>11, <1>13 DEF Scribble
<1>14. ASSUME NEW a \in UserChunks, Frees(a) PROVE MaximaReached'
  <2>1. /\ slot[a].size \in Nat /\ slot[a].usize \in Nat /\ SameMaxima
        /\ stats'.current = stats.current - slot[a].usize
        /\ stats'.cur_given = stats.cur_given - slot[a].size
        /\ stats'.cur_pnts = stats.cur_pnts - 1
    BY <1>1, <1>14, FreeStats
  <2> QED BY <1>2, <1>5, <2>1
<1>15. ASSUME NEW a \in UserChunks, NEW size \in Sizes \ {0}, Resizes(a, size)
       PROVE  MaximaReached'
  <2>1. /\ slot[a].usize \in Nat /\ size \in Nat
        /\ stats'.current = stats.current + (size - slot[a].usize)
        /\ stats'.maximum = Larger(stats.maximum, stats.current + (size - slot[a].usize))
        /\ stats'.one_max = Larger(stats.one_max, size) /\ stats'.total = stats.total + size
        /\ stats'.tot_pnts = stats.tot_pnts + 1
        /\ stats'.cur_given = stats.cur_given /\ stats'.max_given = stats.max_given
        /\ stats'.cur_pnts = stats.cur_pnts /\ stats'.max_pnts = stats.max_pnts
    BY <1>1, <1>15, ResizeStats
  <2>2. size <= stats'.current
    <3>1. a \in Slots /\ a \in Addr /\ slot'[a].usize = size /\ Slots' = Slots
          /\ "USER" \in slot'[a].flags
      BY <1>1, <1>15, <2>1, UserChunksAre, ResizesFacts DEF Is
    <3>2. a \in UserChunks'
      BY <3>1, KindsNext
    <3> QED BY <1>4, <3>1, <3>2
  <2> QED BY <1>2, <1>3, <1>4, <2>1, <2>2 DEF Larger, MaximaReached, MaximaOrdered
<1> QED BY <1>7, <1>8, <1>9, <1>10, <1>12, <1>13, <1>14, <1>15, NextKinds

CountInv == Accounting /\ SpaceWithin /\ BlocksCounted /\ MaximaReached

LEMMA CountInit == ASSUME Init PROVE CountInv
<1>1. Slots = {} /\ UserChunks = {} /\ pc = "idle" /\ BLOCK_SIZE \in Nat
  BY GeometryAssumption DEF Init, Slots, NoSlot, UserChunks
<1>2. FreeChunks = {} /\ UnusedSpace = 0
  BY <1>1 DEF FreeChunks, UnusedSpace
<1>3. Accounting
  BY <1>1, <1>2, SumOfEmpty, FS_EmptySet DEF Init, Accounting
<1>4. SpaceWithin /\ BlocksCounted
  BY <1>1, <1>2 DEF Init, SpaceWithin, BlocksCounted
<1>5. MaximaReached
  BY DEF Init, MaximaReached, MaximaOrdered
<1> QED BY <1>3, <1>4, <1>5 DEF CountInv

(* The counters are the sums they stand for, the printed maxima are maxima  *)
(* of what they are printed beside, and no block of the heap goes           *)
(* uncounted, in every state of every sequence of calls (alloc_current and  *)
(* the others, which eight places in chunk.c move one by one).              *)
THEOREM CountersTrue == Spec => []Counters
<1>1. Init => CountInv
  BY CountInit
<1>2. CInv /\ CountInv /\ [Next]_vars => CountInv'
  BY AccountingStep, SpaceStep, BlocksStep, MaximaStep DEF CountInv
<1>3. CInv /\ CountInv => Counters
  <2> SUFFICES ASSUME CInv, CountInv PROVE Counters
    OBVIOUS
  <2>1. /\ IInv /\ stats \in StatsType /\ BLOCK_SIZE \in Nat
    BY CountersAre, GeometryAssumption DEF CInv
  <2>2. /\ stats.current \in Int /\ stats.free_space \in Int /\ stats.cur_given \in Int
        /\ stats.user_blocks \in Int /\ stats.admin_blocks \in Int
    BY <2>1 DEF StatsType
  <2>3. UnusedSpace \in Int /\ UnusedSpace >= 0
    BY <2>1, UnusedIs
  <2>4. PICK user : user = stats.user_blocks * BLOCK_SIZE /\ user \in Int
    BY <2>1, <2>2
  <2>5. PICK admin : admin = stats.admin_blocks * BLOCK_SIZE /\ admin \in Int /\ admin >= 0
    BY <2>1, <2>2 DEF CountInv, BlocksCounted
  <2>6. (stats.user_blocks + stats.admin_blocks) * BLOCK_SIZE = user + admin
    BY <2>1, <2>2, <2>4, <2>5
  <2>7. stats.current <= stats.cur_given
    BY CurrentWithin DEF CountInv
  <2>8. stats.cur_given + stats.free_space + UnusedSpace <= user
    BY <2>4 DEF CountInv, SpaceWithin
  <2>9. stats.current + stats.free_space <= user + admin
    BY <2>2, <2>3, <2>4, <2>5, <2>7, <2>8
  <2>10. BlocksAccounted
    BY <2>6, <2>9 DEF BlocksAccounted, CountInv, BlocksCounted
  <2> QED BY <2>10 DEF CountInv, Counters, MaximaReached
<1> QED BY <1>1, <1>2, <1>3, CallInvariance, PTL DEF Spec
=============================================================================
