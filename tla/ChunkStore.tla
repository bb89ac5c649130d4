------------------------------ MODULE ChunkStore ------------------------------
(***************************************************************************)
(* What the lists of the chunk layer are for: chunks that are used, that   *)
(* wait, and that are free, the last by size and the latest first.         *)
(***************************************************************************)
EXTENDS Sequences, Naturals

CONSTANTS Chunks,   \* records [mem, size]
          Bytes     \* sizes a chunk may have

VARIABLES used, waiting, free

Init == used = {} /\ waiting = <<>> /\ free = [n \in Bytes |-> <<>>]

Apart(c, d) == c.mem + c.size <= d.mem \/ d.mem + d.size <= c.mem
Stored == used \cup {waiting[i] : i \in DOMAIN waiting}
               \cup UNION {{free[n][i] : i \in DOMAIN free[n]} : n \in Bytes}

Use(c) == /\ \A d \in Stored : Apart(c, d)
          /\ used' = used \cup {c}
          /\ UNCHANGED <<waiting, free>>
Cut(c) == /\ \A d \in Stored : Apart(c, d)
          /\ free' = [free EXCEPT ![c.size] = <<c>> \o @]
          /\ UNCHANGED <<used, waiting>>
Release(c) == /\ used' = used \ {c}
              /\ waiting' = Append(waiting, c)
              /\ UNCHANGED free
Rest == /\ waiting # <<>>
        /\ free' = [free EXCEPT ![Head(waiting).size] = <<Head(waiting)>> \o @]
        /\ waiting' = Tail(waiting)
        /\ UNCHANGED used
Reuse(n) == /\ free[n] # <<>>
            /\ used' = used \cup {Head(free[n])}
            /\ free' = [free EXCEPT ![n] = Tail(@)]
            /\ UNCHANGED waiting

Next == \/ \E c \in Chunks \cap (used' \ used) : Use(c)
        \/ \E n \in Bytes : free'[n] # <<>> /\ Head(free'[n]) \in Chunks /\ Cut(Head(free'[n]))
        \/ \E c \in used : Release(c)
        \/ Rest
        \/ \E n \in Bytes : Reuse(n)

Spec == Init /\ [][Next]_<<used, waiting, free>>
=============================================================================
