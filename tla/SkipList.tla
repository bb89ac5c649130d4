------------------------------- MODULE SkipList -------------------------------
(***************************************************************************)
(* The skip lists of the chunk layer (chunk.c), pointer by pointer: the    *)
(* address list, the list of free chunks by size, the wait list and the    *)
(* lists of unused slots.  The last three and level 0 of the first two     *)
(* are all linked through the same field, sa_next_p[0].                    *)
(***************************************************************************)
EXTENDS Integers, Sequences

CONSTANTS
  MAX_SKIP_LEVEL,
  Heights,          \* sa_level_n of the slots random_level may ask for
  MaxSlots          \* bound: slots there is admin memory for

(* random_level may also return MAX_SKIP_LEVEL - 1, and MAX_SKIP_LEVEL, once *)
(* in 2^31 calls; the lists have no such entries.                            *)
ASSUME SkipListAssumption ==
  /\ MAX_SKIP_LEVEL \in Nat \ {0} /\ MaxSlots \in Nat
  /\ Heights # {} /\ Heights \subseteq 0 .. MAX_SKIP_LEVEL - 2

NIL == 0
Ids == 1 .. MaxSlots
AddressList == MaxSlots + 1      \* skip_address_list
SizeList == MaxSlots + 2         \* skip_free_list
Nodes == Ids \cup {AddressList, SizeList}
SkipLevels == 0 .. MAX_SKIP_LEVEL - 1

VARIABLES
  slot,                  \* the skip_alloc_t records
  next,                  \* their sa_next_p, and those of the two list heads
  entry_free,            \* entry_free_list[]
  wait_head, wait_tail,  \* free_wait_list_head, free_wait_list_tail
  made,                  \* slots that alloc_slots has cut so far
  list_error             \* ERROR_ADDRESS_LIST was reported

listvars == <<slot, next, entry_free, wait_head, wait_tail, made, list_error>>

SkipInit ==
  /\ slot = [x \in Ids |-> [level |-> 0, mem |-> 0, size |-> 0, flag |-> "none"]]
  /\ next = [n \in Nodes |-> [l \in SkipLevels |-> NIL]]
  /\ entry_free = [h \in Heights |-> NIL]
  /\ wait_head = NIL /\ wait_tail = NIL /\ made = 0 /\ list_error = FALSE

-----------------------------------------------------------------------------
(* The way down from the top level to level 0: right while the next slot is *)
(* before what is looked for, down otherwise, and update keeps the turns.   *)
Cursor == [at : Nodes, level : SkipLevels, found : Nodes \cup {NIL},
           update : [SkipLevels -> Nodes]]
Search(nx, list, right, match) ==
  LET go[s \in Cursor] ==
        LET n == nx[s.at][s.level]
            t == [s EXCEPT !.found = IF n \in match THEN n ELSE @,
                           !.update[s.level] = s.at]
        IN CASE n \in right -> go[[s EXCEPT !.at = n]]
             [] n \notin right /\ s.level > 0 -> go[[t EXCEPT !.level = @ - 1]]
             [] OTHER -> t
  IN go[[at |-> list, level |-> MAX_SKIP_LEVEL - 1, found |-> NIL,
         update |-> [l \in SkipLevels |-> list]]]

(* Mutant: a loose search goes by the start of the chunk alone. *)
FindAddressExact(sl, nx, list, address, exact) ==
  Search(nx, list, {n \in Ids : sl[n].mem < address}, {n \in Ids : sl[n].mem = address})

FindAddress(sl, nx, list, address, exact) ==
  LET within == {n \in Ids : sl[n].mem < address /\ address < sl[n].mem + sl[n].size}
      match == {n \in Ids : sl[n].mem = address} \cup (IF exact THEN {} ELSE within)
  IN Search(nx, list, {n \in Ids : sl[n].mem < address} \ match, match)

(* Mutant: it goes on behind the slots of the same size. *)
FindFreeSizePast(sl, nx, size) ==
  Search(nx, SizeList, {n \in Ids : sl[n].size <= size}, {n \in Ids : sl[n].size = size})

FindFreeSize(sl, nx, size) ==
  Search(nx, SizeList, {n \in Ids : sl[n].size < size}, {n \in Ids : sl[n].size = size})

(* The links that insert_slot sets for slot x at the turns of a search. *)
Linked(sl, nx, x, update) ==
  [n \in Nodes |-> [l \in SkipLevels |->
     CASE l > sl[x].level -> nx[n][l]
       [] l <= sl[x].level /\ n = x -> nx[update[l]][l]
       [] l <= sl[x].level /\ n = update[l] /\ n # x -> x
       [] OTHER -> nx[n][l]]]

(* insert_slot: the address list refuses an address it has. *)
InsertSlot(sl, nx, x, list) ==
  LET search == IF list = SizeList THEN FindFreeSize(sl, nx, sl[x].size)
                ELSE FindAddress(sl, nx, list, sl[x].mem, TRUE)
      twice == list = AddressList /\ search.found # NIL
  IN [ok |-> ~twice, next |-> IF twice THEN nx ELSE Linked(sl, nx, x, search.update)]

(* Mutant: only the bottom level is unlinked. *)
RemoveSlotBottom(nx, x, update) ==
  [ok |-> nx[update[0]][0] = x,
   next |-> [nx EXCEPT ![update[0]][0] = IF @ = x THEN nx[x][0] ELSE @]]

(* remove_slot goes up until a turn of the search does not lead to x. *)
RemoveSlot(nx, x, update) ==
  LET leads == {l \in SkipLevels : \A k \in 0 .. l : nx[update[k]][k] = x} IN
  [ok |-> leads # {},
   next |-> [n \in Nodes |-> [l \in SkipLevels |->
               IF l \in leads /\ n = update[l] THEN nx[x][l] ELSE nx[n][l]]]]

-----------------------------------------------------------------------------
(* alloc_slots: count slots of one height, each put in front of the list.   *)
AllocSlots(h, count) ==
  LET fresh == made + 1 .. made + count IN
  /\ made' = made + count
  /\ slot' = [x \in Ids |-> IF x \in fresh THEN [slot[x] EXCEPT !.level = h] ELSE slot[x]]
  /\ next' = [n \in Nodes |->
                IF n \in fresh
                THEN [next[n] EXCEPT ![0] = IF n = made + 1 THEN entry_free[h] ELSE n - 1]
                ELSE next[n]]
  /\ entry_free' = [entry_free EXCEPT ![h] = made + count]
  /\ UNCHANGED <<wait_head, wait_tail, list_error>>

(* get_slot takes the first unused slot of a height and clears it; then     *)
(* insert_address, or get_slot itself for an admin block, fills it in.      *)
InsertAddress(h, address, flag, size) ==
  LET x == entry_free[h]
      filled == [slot EXCEPT ![x].mem = address, ![x].size = size, ![x].flag = flag]
      cleared == [next EXCEPT ![x] = [l \in SkipLevels |-> NIL]]
      inserted == InsertSlot(filled, cleared, x,
                             IF flag = "FREE" THEN SizeList ELSE AddressList)
  IN /\ x # NIL
     /\ entry_free' = [entry_free EXCEPT ![h] = next[x][0]]
     /\ slot' = filled
     /\ next' = inserted.next
     /\ list_error' = (list_error \/ ~inserted.ok)
     /\ UNCHANGED <<wait_head, wait_tail, made>>

(* Mutant: the link is followed after the slot was put on the size list.    *)
DrainLate ==
  LET x == wait_head
      inserted == InsertSlot(slot, next, x, SizeList)
  IN /\ x # NIL
     /\ wait_head' = inserted.next[x][0]
     /\ wait_tail' = IF wait_head' = NIL THEN NIL ELSE wait_tail
     /\ next' = inserted.next
     /\ UNCHANGED <<slot, entry_free, made, list_error>>

(* use_free_memory: the first slot of the wait list goes to the size list;  *)
(* its link to the next one that waits is read before it is overwritten.    *)
Drain ==
  LET x == wait_head
      inserted == InsertSlot(slot, next, x, SizeList)
  IN /\ x # NIL
     /\ wait_head' = next[x][0]
     /\ wait_tail' = IF next[x][0] = NIL THEN NIL ELSE wait_tail
     /\ next' = inserted.next
     /\ UNCHANGED <<slot, entry_free, made, list_error>>

(* use_free_memory: the first free slot of the size becomes a used one. *)
Take(size) ==
  LET search == FindFreeSize(slot, next, size)
      x == search.found
      removed == RemoveSlot(next, x, search.update)
      inserted == InsertSlot(slot, removed.next, x, AddressList)
  IN /\ x # NIL
     /\ slot' = [slot EXCEPT ![x].flag = "USER"]
     /\ next' = inserted.next
     /\ list_error' = (list_error \/ ~removed.ok \/ ~inserted.ok)
     /\ UNCHANGED <<entry_free, wait_head, wait_tail, made>>

(* _dmalloc_chunk_free of a pointer into a used chunk (its other checks are *)
(* in ChunkHeap): off the address list, to the end of the wait list.        *)
Free(pnt) ==
  LET search == FindAddress(slot, next, AddressList, pnt, FALSE)
      x == search.found
      removed == RemoveSlot(next, x, search.update)
      ended == [removed.next EXCEPT ![x][0] = NIL]
  IN /\ x # NIL /\ slot[x].flag = "USER" /\ slot[x].mem = pnt
     /\ slot' = [slot EXCEPT ![x].flag = "FREE"]
     /\ list_error' = (list_error \/ ~removed.ok)
     /\ IF wait_head = NIL THEN wait_head' = x /\ next' = ended
                           ELSE /\ next' = [ended EXCEPT ![wait_tail][0] = x]
                                /\ UNCHANGED wait_head
     /\ wait_tail' = x
     /\ UNCHANGED <<entry_free, made>>

-----------------------------------------------------------------------------
(* The slots a list is made of at a level, from its first one on, as many   *)
(* steps as there are slots.                                                *)
Walk(nx, first, level) ==
  LET longer == [chain \in Seq(Ids) |->
                   LET n == IF chain = <<>> THEN first ELSE nx[chain[Len(chain)]][level]
                   IN IF n = NIL THEN chain ELSE Append(chain, n)]
      go[k \in 0 .. MaxSlots] == IF k = 0 THEN <<>> ELSE longer[go[k - 1]]
  IN go[MaxSlots]
ChainFrom(first, level) == Walk(next, first, level)
Chain(list, level) == ChainFrom(next[list][level], level)
Members(chain) == {chain[i] : i \in DOMAIN chain}
=============================================================================
