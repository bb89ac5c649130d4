----------------------------- MODULE AddressLists -----------------------------
(***************************************************************************)
(* The skip lists and the heap below them: a request is answered from the  *)
(* size list, or with a block from the system whose slots go on the lists; *)
(* and when there is no slot left for that, with one more block to cut     *)
(* slots from.                                                             *)
(***************************************************************************)
EXTENDS SkipList, HeapExtend, FiniteSetsExt

CONSTANTS Sizes,           \* sizes of chunks: parts of a block, or whole ones
          SlotsPerBlock    \* slots of each height in an admin block

ASSUME SizesAssumption ==
  /\ Sizes \subseteq Nat \ {0}
  /\ \A n \in Sizes : n \in 1 .. BLOCK_SIZE \div 2 \/ n % BLOCK_SIZE = 0
  /\ SlotsPerBlock \in [Heights -> Nat \ {0}]

VARIABLES pc,      \* where the request is
          size,    \* what it asks for
          height,  \* random_level of the slot being made, -1 before
          todo     \* the addresses that still need a slot

request == <<pc, size, height, todo>>
vars == <<listvars, heapvars, request>>

Divided == size <= BLOCK_SIZE \div 2
Flag == IF Divided THEN "FREE" ELSE "USER"
(* create_divided_chunks: as many whole pieces as there are in a block. *)
Pieces(mem) == [i \in 1 .. (IF Divided THEN BLOCK_SIZE \div size ELSE 1) |->
                  mem + (i - 1) * size]

Init == SkipInit /\ HeapInit /\ pc = "idle" /\ size = 0 /\ height = -1 /\ todo = <<>>

Done == pc' = "idle" /\ size' = 0

Request(n) ==
  /\ pc = "idle" /\ pc' = "reuse" /\ size' = n
  /\ UNCHANGED <<listvars, heapvars, height, todo>>

(* Whether the first slot of the wait list has waited long enough is a      *)
(* matter of ChunkHeap's clock.                                             *)
DrainWaiting ==
  /\ pc = "reuse" /\ Drain
  /\ UNCHANGED <<heapvars, request>>

Reuse ==
  /\ pc \in {"reuse", "retake"} /\ Take(size)
  /\ Done
  /\ UNCHANGED <<heapvars, height, todo>>

AskBlock ==
  /\ pc = "reuse" /\ FindFreeSize(slot, next, size).found = NIL
  /\ HeapAlloc(IF Divided THEN BLOCK_SIZE ELSE size)
  /\ pc' = "heap"
  /\ UNCHANGED <<listvars, size, height, todo>>

HeapRuns ==
  /\ pc \in {"heap", "admin"} /\ HeapStep
  /\ UNCHANGED <<listvars, request>>

GotBlock ==
  /\ pc = "heap" /\ want = 0
  /\ IF got = HEAP_ALLOC_ERROR
     THEN Done /\ UNCHANGED todo
     ELSE pc' = "insert" /\ todo' = Pieces(got) /\ UNCHANGED size
  /\ UNCHANGED <<listvars, heapvars, height>>

(* random_level, when there is a slot of that height. *)
InsertNext(h) ==
  /\ pc = "insert" /\ height \in {-1, h}
  /\ InsertAddress(h, Head(todo), Flag, size)
  /\ height' = -1 /\ todo' = Tail(todo)
  /\ \/ todo' # <<>> /\ UNCHANGED <<pc, size>>
     \/ todo' = <<>> /\ Divided /\ pc' = "retake" /\ UNCHANGED size
     \/ todo' = <<>> /\ ~Divided /\ Done
  /\ UNCHANGED heapvars

AskSlots(h) ==
  /\ pc = "insert" /\ height = -1 /\ entry_free[h] = NIL
  /\ made + SlotsPerBlock[h] <= MaxSlots
  /\ HeapAlloc(BLOCK_SIZE)
  /\ height' = h /\ pc' = "admin"
  /\ UNCHANGED <<listvars, size, todo>>

(* The block of slots comes, or the insertion fails and what is left of the *)
(* block is lost.                                                           *)
GotSlots ==
  /\ pc = "admin" /\ want = 0 /\ entry_free[height] = NIL
  /\ IF got = HEAP_ALLOC_ERROR
     THEN Done /\ height' = -1 /\ todo' = <<>> /\ UNCHANGED listvars
     ELSE AllocSlots(height, SlotsPerBlock[height]) /\ UNCHANGED request
  /\ UNCHANGED heapvars

(* The first slot of an admin block is for the block itself. *)
InsertAdmin ==
  /\ pc = "admin" /\ want = 0 /\ entry_free[height] # NIL
  /\ InsertAddress(height, got, "ADMIN", BLOCK_SIZE)
  /\ pc' = "insert"
  /\ UNCHANGED <<heapvars, size, height, todo>>

FreePointer(pnt) ==
  /\ pc = "idle" /\ Free(pnt)
  /\ UNCHANGED <<heapvars, request>>

(* Another caller of sbrk, between any two steps. *)
Other(n) == OtherMoves(n) /\ UNCHANGED <<listvars, request>>

Next == \/ \E n \in Sizes : Request(n)
        \/ DrainWaiting \/ Reuse \/ AskBlock \/ HeapRuns \/ GotBlock
        \/ GotSlots \/ InsertAdmin
        \/ \E h \in Heights : InsertNext(h) \/ AskSlots(h)
        \/ \E pnt \in 1 .. SystemEnd - 1 : FreePointer(pnt)
        \/ \E n \in Others[grows] : Other(n)

Spec == Init /\ [][Next]_vars

-----------------------------------------------------------------------------
Used == Members(Chain(AddressList, 0))
Free0 == Members(Chain(SizeList, 0))
Waits == Members(ChainFrom(wait_head, 0))
Unused == UNION {Members(ChainFrom(entry_free[h], 0)) : h \in Heights}

(* Four kinds of list are linked through sa_next_p[0], and at every moment  *)
(* each slot is on exactly one of them, once; the wait list ends in its     *)
(* tail.                                                                    *)
OneListEach ==
  /\ Unused = {x \in 1 .. made : slot[x].flag = "none"}
  /\ Used = {x \in Ids : slot[x].flag \in {"USER", "ADMIN"}}
  /\ Free0 \cup Waits = {x \in Ids : slot[x].flag = "FREE"}
  /\ Free0 \cap Waits = {}
  /\ wait_head # NIL => wait_tail \in Waits /\ next[wait_tail][0] = NIL

(* Each higher level is the part of the one below it that is tall enough,   *)
(* in the same order; the bottom one is sorted, and has nothing twice.      *)
Levelled(list, level) ==
  LET all == Chain(list, 0) part == Chain(list, level) IN
  /\ Members(part) = {x \in Members(all) : slot[x].level >= level}
  /\ \A i, j \in DOMAIN part : i < j =>
       \E a, b \in DOMAIN all : a < b /\ all[a] = part[i] /\ all[b] = part[j]
Sorted(list, field) ==
  LET chain == Chain(list, 0) IN
  \A i, j \in DOMAIN chain : i < j => /\ chain[i] # chain[j]
                                     /\ slot[chain[i]][field] <= slot[chain[j]][field]
ListsLevelled ==
  /\ \A list \in {AddressList, SizeList}, level \in SkipLevels : Levelled(list, level)
  /\ Sorted(AddressList, "mem")
  /\ Sorted(SizeList, "size")
  /\ ~list_error

(* A search of the address list finds the chunk around an address, exactly  *)
(* when there is one, however the levels fell; the search for a size finds  *)
(* a free chunk exactly when there is one; and a free chunk that the search *)
(* by address comes across, on a list that is not sorted by address, is one *)
(* around that address ("already free" is never a guess).                   *)
Around(x, pnt) == slot[x].mem <= pnt /\ pnt < slot[x].mem + slot[x].size
SearchesTrue ==
  /\ \A pnt \in 1 .. SystemEnd - 1 :
       LET used == FindAddress(slot, next, AddressList, pnt, FALSE).found
           free == FindAddress(slot, next, SizeList, pnt, FALSE).found
       IN /\ IF used = NIL THEN \A x \in Used : ~Around(x, pnt)
                           ELSE used \in Used /\ Around(used, pnt)
          /\ free # NIL => free \in Free0 /\ Around(free, pnt)
  /\ \A n \in Sizes :
       LET found == FindFreeSize(slot, next, n).found
       IN IF found = NIL THEN \A x \in Free0 : slot[x].size # n
                         ELSE found \in Free0 /\ slot[found].size = n

(* The blocks the system gave are apart from each other whoever else takes  *)
(* memory, within the bounds that later pointer checks go by, and on block  *)
(* boundaries if the break moves up; and every slot stands for memory of    *)
(* its own in one of them.                                                  *)
Memory(x) == Extent(slot[x].mem, slot[x].size)
BlocksSound ==
  /\ HInv /\ BlocksAligned
  /\ \A x \in Used \cup Free0 \cup Waits :
       \E r \in given : r.lo <= slot[x].mem /\ slot[x].mem + slot[x].size <= r.lo + r.size
  /\ \A x, y \in Used \cup Free0 \cup Waits : x # y => Apart(Memory(x), Memory(y))

-----------------------------------------------------------------------------
(* The pointers implement the sets and stacks that ChunkHeap has for them.  *)
Chunk(x) == [mem |-> slot[x].mem, size |-> slot[x].size]
Abstract(chain) == [i \in DOMAIN chain |-> Chunk(chain[i])]
(* Chunks of one size stand together on the size list.                      *)
OfSize(n) ==
  LET part[chain \in Seq(Ids)] ==
        LET at == {i \in DOMAIN chain : slot[chain[i]].size = n}
        IN IF at = {} THEN <<>> ELSE SubSeq(chain, Min(at), Max(at))
  IN part[Chain(SizeList, 0)]
Bytes == Sizes \cup {BLOCK_SIZE}

UsedChunks == {Chunk(x) : x \in Used}
WaitingChunks == Abstract(ChainFrom(wait_head, 0))
FreeChunks == [n \in Bytes |-> Abstract(OfSize(n))]

Store == INSTANCE ChunkStore WITH
  Chunks <- [mem : 1 .. SystemEnd, size : Bytes],
  Bytes <- Bytes,
  used <- UsedChunks, waiting <- WaitingChunks, free <- FreeChunks
ImplementsStore == Store!Spec
=============================================================================
