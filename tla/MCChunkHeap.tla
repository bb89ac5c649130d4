----------------------------- MODULE MCChunkHeap -----------------------------
(***************************************************************************)
(* Small heaps: blocks of 4 bytes that are cut into pieces of 1 or 2, and  *)
(* admin blocks of 3 slots, so that every third piece needs a new one.     *)
(***************************************************************************)
EXTENDS ChunkHeapRefinement

MCSlotsPerBlock == [level \in Levels |-> 3 + level]

(* Values of _dmalloc_flags a run lets the program choose from.            *)
Plain == {{}}
PlainOrFence == {{}, {"FENCE", "ERROR_FREE_NULL"}}
BlankOrNeverReuse == {{"FENCE", "CHECK_BLANK"}, {"FENCE", "NEVER_REUSE"}}
=============================================================================
