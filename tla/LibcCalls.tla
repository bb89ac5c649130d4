----------------------------- MODULE LibcCalls ------------------------------
(***************************************************************************)
(* A program that calls the wrappers of arg_check.c one after the other    *)
(* with pointers into blocks of the heap, into their fence posts and out   *)
(* of the heap, and with check-funcs set or not: dmalloc_debug may change  *)
(* that between two calls.                                                 *)
(***************************************************************************)
EXTENDS ArgCheck

CONSTANTS Pointers,  \* what the program passes
          Lengths, Bytes,
          Contents,  \* what the user spaces hold at first
          Strings,   \* the bytes above the heap
          MaxCalls

VARIABLE calls       \* how many there have been

Ranged(fns, as, bs, bytes, lengths) ==
    {[fn |-> fn, a |-> a, b |-> b, ch |-> ch, len |-> n]:
       fn \in fns, a \in as, b \in bs, ch \in bytes, n \in lengths}
InHeap == {p \in Pointers: Holder(p) # {}}
Calls ==
    Ranged({"atoi", "atol", "strlen"}, Pointers, {Null}, {0}, {0})
    \union Ranged({"index", "rindex", "strchr", "strrchr"}, Pointers, {Null}, Bytes, {0})
    \union Ranged({"strcasecmp", "strcmp", "strcspn", "strpbrk", "strspn", "strstr"}, Pointers, Pointers, {0}, {0})
    \union Ranged({"strcat", "strcpy"}, InHeap, Pointers, {0}, {0})
    \union Ranged({"strtok"}, InHeap \union {Null}, Pointers, {0}, {0})
    \union Ranged({"bzero"}, InHeap, {Null}, {0}, Lengths)
    \union Ranged({"memchr"}, Pointers, {Null}, Bytes, Lengths)
    \union Ranged({"strndup"}, Pointers, {Null}, {0}, Lengths \union {-1})
    \union Ranged({"memset"}, InHeap, {Null}, Bytes, Lengths)
    \union Ranged({"bcmp", "memcmp", "strncasecmp", "strncmp"}, Pointers, Pointers, {0}, Lengths)
    \union Ranged({"bcopy"}, Pointers, InHeap, {0}, Lengths)
    \union Ranged({"memcpy", "memmove", "strncat", "strncpy"}, InHeap, Pointers, {0}, Lengths)
    \union Ranged({"memccpy"}, InHeap, Pointers, Bytes, Lengths)

Above1(b) == {x \in b.low .. (b.high - 1): ~IsUser(b, x)}
InitCalls ==
    /\ \E c \in Contents:
         mem = [x \in Addresses |->
                  IF \E b \in Blocks: x \in Above1(b)
                  THEN Fresh(CHOOSE b \in Blocks: x \in Above1(b), x)
                  ELSE IF x \in DOMAIN c THEN c[x] ELSE Strings[x]]
    /\ checking \in BOOLEAN
    /\ errno = "none" /\ saved = Null /\ called = NothingCalled /\ calls = 0

Step == \E c \in Calls: Do(c) /\ calls' = calls + 1
SetFlag ==
    /\ checking' = ~checking /\ called' = NothingCalled
    /\ UNCHANGED <<mem, errno, saved, calls>>
NextCalls == calls < MaxCalls /\ (Step \/ SetFlag)
SpecCalls == InitCalls /\ [][NextCalls]_<<vars, calls>>

=============================================================================
