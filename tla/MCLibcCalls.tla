---------------------------- MODULE MCLibcCalls -----------------------------
(* A block of three bytes with fence posts and a blanked byte above them,  *)
(* one of two bytes with neither and a byte to spare, and one string that  *)
(* is not in the heap.                                                     *)
EXTENDS LibcCalls
MCBlocks == {[low |-> 0, size |-> 3, high |-> 6, fenced |-> TRUE, blanked |-> TRUE],
             [low |-> 6, size |-> 2, high |-> 9, fenced |-> FALSE, blanked |-> FALSE]}
MCContents ==
    {[x \in {1, 2, 3, 6, 7} |-> CASE x \in ends -> 0 [] x \in others -> 11 [] OTHER -> 1]:
       ends \in {{}, {3}, {2, 7}, {3, 7}}, others \in {{}, {2, 6}}}
MCStrings == [x \in 9 .. 11 |-> IF x = 11 THEN 0 ELSE IF x = 9 THEN 1 ELSE 21]
=============================================================================
