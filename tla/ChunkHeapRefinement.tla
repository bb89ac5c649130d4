------------------------- MODULE ChunkHeapRefinement -------------------------
(***************************************************************************)
(* The chunk layer implements the abstract allocator: a used slot is a     *)
(* range the program owns, a slot that was freed a range that rests from   *)
(* its sa_use_iter on.  Draining the wait list, cutting up blocks and the  *)
(* failures on the way are stuttering steps.                               *)
(***************************************************************************)
EXTENDS ChunkHeap

live == {[lo |-> UserStart(a), len |-> slot[a].usize] : a \in UserChunks}
resting == {[lo |-> handed[a], len |-> slot[a].usize, when |-> slot[a].iter] :
             a \in {c \in Slots : Is("FREE", c) /\ slot[c].seen > 0}}

Abstract == INSTANCE Allocator WITH
  Starts <- Addr, Lengths <- Sizes, Delay <- FREED_POINTER_DELAY, now <- iter

(* Every behaviour of _dmalloc_chunk_malloc, _free and _realloc, whichever  *)
(* way their loops end, is one the abstract allocator allows.               *)
ImplementsAllocator == Abstract!Spec
=============================================================================
