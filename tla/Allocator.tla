------------------------------ MODULE Allocator ------------------------------
(***************************************************************************)
(* What the allocation calls promise the program, whatever the library     *)
(* does inside: the memory a pointer stands for belongs to that pointer    *)
(* alone until it is freed, a resize keeps the pointer, and what was freed *)
(* stays out of use for Delay calls.                                       *)
(***************************************************************************)
EXTENDS Integers

CONSTANTS Starts,   \* natural numbers: addresses a pointer may have
          Lengths,  \* sizes the program asks for
          Delay     \* calls before freed memory may be handed out again

VARIABLES live,     \* ranges the program owns
          resting,  \* ranges it has freed, and when
          now       \* calls made so far

Bytes(r) == r.lo .. r.lo + r.len - 1
Apart(r, s) == r.lo # s.lo /\ Bytes(r) \cap Bytes(s) = {}
Rested(d) == d.when + Delay <= now
MayOwn(r) == /\ \A s \in live : Apart(r, s)
             /\ \A d \in resting : Rested(d) \/ Bytes(r) \cap Bytes(d) = {}

Init == live = {} /\ resting = {} /\ now = 0

(* Ranges that have rested long enough may be forgotten, those the new one *)
(* covers must be.                                                         *)
Alloc(r) ==
  /\ MayOwn(r)
  /\ live' = live \cup {r}
  /\ resting' \subseteq resting
  /\ \A d \in resting \ resting' : Rested(d)
  /\ \A d \in resting' : Bytes(r) \cap Bytes(d) = {}
  /\ now' = now

Free(r) ==
  /\ live' = live \ {r}
  /\ now' \in {now, now + 1}
  /\ resting' = resting \cup {[lo |-> r.lo, len |-> r.len, when |-> now']}

Resize(r, len) ==
  LET resized == [r EXCEPT !.len = len] IN
  /\ \A s \in live \ {r} : Apart(resized, s)
  /\ \A d \in resting : Bytes(resized) \cap Bytes(d) = {}
  /\ live' = (live \ {r}) \cup {resized}
  /\ now' = now + 1
  /\ UNCHANGED resting

(* A call that gives and takes nothing: a check, or an error. *)
Tick == now' = now + 1 /\ UNCHANGED <<live, resting>>

Next == \/ \E lo \in Starts, len \in Lengths : Alloc([lo |-> lo, len |-> len])
        \/ \E r \in live : Free(r)
        \/ \E r \in live, len \in Lengths : Resize(r, len)
        \/ Tick

Spec == Init /\ [][Next]_<<live, resting, now>>
=============================================================================
