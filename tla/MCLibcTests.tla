---------------------------- MODULE MCLibcTests -----------------------------
(* The test programs as they are; new memory holds 0 or some other byte.   *)
EXTENDS LibcTests
MCTop == TestTop
MCBlocks == TestBlocks
=============================================================================
