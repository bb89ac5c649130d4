------------------------------ MODULE ArgCheck ------------------------------
(***************************************************************************)
(* arg_check.c: the wrappers around the string functions of the C library. *)
(* With check-funcs set a wrapper asks dmalloc_verify_pnt about each       *)
(* pointer it is given, reports the first one that is bad, and calls the   *)
(* function all the same.  Memory is small: blocks of the heap, and above  *)
(* them strings the heap knows nothing of, the last of which ends memory.  *)
(* What a function touches is that of compat.c, the versions for systems   *)
(* without them, and for the rest that of the C library; it often stops    *)
(* before the end of what the wrapper asks for.  What a function returns   *)
(* is left out, except for the place strtok goes on at.  Of the bytes, 0   *)
(* ends a string, 1 to 9 are digits, 11 to 19 small letters and 21 to 29   *)
(* their capitals; there are no blanks and no signs.                       *)
(***************************************************************************)
EXTENDS Integers, Sequences, SequencesExt, FiniteSetsExt

CONSTANTS Top,       \* the last address
          Blocks,    \* of the heap: [low, size, high, fenced, blanked]
          Null,      \* the pointer 0L
          FenceByte, \* a byte of a fence post
          BlankByte  \* the byte blanked space holds

VARIABLES mem,       \* the byte at each address; 0 ends a string
          checking,  \* check-funcs is set
          errno,     \* dmalloc_errno
          saved,     \* where the next strtok(0L, ...) goes on
          called     \* what became of the last call

vars == <<mem, checking, errno, saved, called>>

Addresses == 0 .. Top
Width(b) == IF b.fenced THEN 1 ELSE 0

\* get_pnt_info: where the user space of a block starts and ends, and the
\* space between its upper fence and its end.
UserStart(b) == b.low + Width(b)
UserBounds(b) == UserStart(b) + b.size
IsUser(b, x) == x \in UserStart(b) .. (UserBounds(b) - 1)
Above(b) == (UserBounds(b) + Width(b)) .. (b.high - 1)

\* find_address, for a pointer that may be inside of a block.
Holder(p) == {b \in Blocks: p \in b.low .. (b.high - 1)}

\* fence_read, and the look at the blanked space above the fence.
BlockError(b) ==
    CASE b.fenced /\ mem[b.low] # FenceByte -> "under_fence"
      [] b.fenced /\ mem[b.low] = FenceByte /\ mem[UserBounds(b)] # FenceByte -> "over_fence"
      [] b.blanked /\ (b.fenced => mem[b.low] = FenceByte /\ mem[UserBounds(b)] = FenceByte)
           /\ \E x \in Above(b): mem[x] # BlankByte -> "free_overwritten"
      [] OTHER -> "none"

\* Mutant: the last byte of the user space is not counted as room.
RoomForLess(b, p, string, min) ==
    IF string THEN \/ min > 0 /\ p + min <= UserBounds(b)
                   \/ \E x \in p .. (UserBounds(b) - 1): mem[x] = 0
              ELSE min > 0 => p + min < UserBounds(b)

\* The last part of check_used_slot: a string ends in the user space, or
\* min bytes do; min bounds the length of a string too.
RoomFor(b, p, string, min) ==
    IF string THEN \/ min > 0 /\ p + min <= UserBounds(b)
                   \/ \E x \in p .. (UserBounds(b) - 1): mem[x] = 0
              ELSE min > 0 => p + min <= UserBounds(b)

\* check_used_slot.
CheckUsedSlot(b, p, string, min) ==
    CASE p < UserStart(b) -> "would_overwrite"
      [] p >= UserStart(b) /\ BlockError(b) # "none" -> BlockError(b)
      [] p >= UserStart(b) /\ BlockError(b) = "none" /\ ~RoomFor(b, p, string, min) -> "would_overwrite"
      [] OTHER -> "none"

\* _dmalloc_chunk_pnt_check, not exact: a pointer the heap does not know
\* is fine.
PntCheck(p, string, min) ==
    IF Holder(p) = {} THEN "none"
    ELSE CheckUsedSlot(CHOOSE b \in Holder(p): TRUE, p, string, min)

\* dmalloc_verify_pnt with -1, and with a size.
String(p) == PntCheck(p, TRUE, 0)
Room(p, min) == PntCheck(p, FALSE, min)

---------------------------------------------------------------------------
\* What the functions touch: for each pointer how many bytes from it on at
\* most, and the bytes memory holds then.

\* Memory ends with a string; behind it is nothing a call may reach.
Byte(x) == IF x \in Addresses THEN mem[x] ELSE FenceByte
Strlen(p) == Min({x \in p .. Top: mem[x] = 0}) - p
Through(p) == [at |-> p, n |-> Strlen(p) + 1]
Reach(p, n) == [at |-> p, n |-> n]
Held(p) == {mem[x]: x \in p .. (p + Strlen(p) - 1)}

\* The bytes up to the first that is ch, that one included; and up to the
\* end of a string, without the 0.
Upto(p, len, ch) ==
    Min({len} \union {n \in 1 .. len: Byte(p + n - 1) = ch})
Before(p, len) ==
    Min({len} \union {n \in 0 .. (len - 1): Byte(p + n) = 0})

\* The loop of the wrappers of strncmp and strncasecmp: to the end of the
\* first of two strings.
UptoEither(p, q, len) ==
    Min({len} \union {n \in 1 .. len: Byte(p + n - 1) = 0 \/ Byte(q + n - 1) = 0})

\* How far the functions themselves look: through the first byte of a string
\* that is among some bytes, or is not, or its 0; through the first two bytes
\* that differ; and the same for strings, capital letters as small ones or not.
DigitBytes == 1 .. 9
Capitals == 21 .. 29
Small(byte, capitals) == IF byte \in capitals THEN byte - 10 ELSE byte
Looked(p, bytes, among) ==
    Reach(p, Min({x \in p .. Top: mem[x] = 0 \/ (mem[x] \in bytes) = among}) - p + 1)
Memcompared(p, q, len) ==
    Min({len} \union {n \in 1 .. len: Byte(p + n - 1) # Byte(q + n - 1)})
Compared(p, q, len, capitals) ==
    Min({len} \union {n \in 1 .. len: \/ Small(Byte(p + n - 1), capitals) # Small(Byte(q + n - 1), capitals)
                                     \/ Byte(p + n - 1) = 0})
\* strstr: through the end of the first match.
Matched(p, q) ==
    Min({Strlen(p) + 1} \union
        {n \in 0 .. Strlen(p): /\ n >= Strlen(q)
                               /\ \A i \in 1 .. Strlen(q): mem[p + n - i] = mem[q + Strlen(q) - i]})

\* memcpy, memmove: right to left where the two overlap, so no byte is
\* read after it has been written.
Copy(to, from, n) ==
    [x \in Addresses |-> IF x \in to .. (to + n - 1) THEN Byte(from + (x - to)) ELSE mem[x]]
\* memset.
Fill(to, byte, n) ==
    [x \in Addresses |-> IF x \in to .. (to + n - 1) THEN byte ELSE mem[x]]
\* strncpy fills up with 0 bytes to the length it was given.
CopyPadded(to, from, len) ==
    [x \in Addresses |-> CASE x \in to .. (to + Upto(from, len, 0) - 1) -> Byte(from + (x - to))
                           [] x \in (to + Upto(from, len, 0)) .. (to + len - 1) -> 0
                           [] OTHER -> mem[x]]
\* strncat ends what it has copied.
CopyEnded(to, from, n) ==
    [x \in Addresses |-> CASE x \in to .. (to + n - 1) -> Byte(from + (x - to))
                           [] x = to + n -> 0
                           [] OTHER -> mem[x]]

\* A call reaches some bytes, and might with other bytes there reach all it
\* was given: a string to its end, or as many bytes as its length says.
Looks(reaches, spans) == [reach |-> reaches, span |-> spans, mem |-> mem]
Writes(reaches, bytes) == [reach |-> reaches, span |-> reaches, mem |-> bytes]

\* Only calls that stay in the memory modelled here and leave its last
\* string alone.
Inside(effect) ==
    /\ \A r \in effect.reach: r.at + r.n - 1 <= Top
    /\ \A x \in Addresses: effect.mem[x] # mem[x] => \E b \in Blocks: x \in b.low .. (b.high - 1)

\* C leaves copies between strings that overlap undefined.
Apart(p, n, q, m) == p + n <= q \/ q + m <= p

\* A pointer is outside when a byte it leads to, or the pointer itself, is
\* not in the user space of its block.
Outside(reach) ==
    \E r \in reach: \E b \in Holder(r.at):
      r.at < UserStart(b) \/ (r.n > 0 /\ r.at + r.n > UserBounds(b))
Damaged(reach) == \E r \in reach: \E b \in Holder(r.at): BlockError(b) # "none"

NothingCalled == [reported |-> FALSE, outside |-> FALSE, span |-> FALSE, damaged |-> FALSE,
                  unasked |-> FALSE]

\* A wrapper: the checks in turn up to the first that fails, the message,
\* and the function.  What the checks of loc_strlen find is reported as
\* well; what is wrong there fails the check that follows too.  A call may
\* touch bytes that no check has asked for.
Report(locals, checks) ==
    LET failed == SelectSeq(checks \o locals, LAMBDA error: error # "none")
    IN IF checking /\ failed # <<>> THEN failed[1] ELSE "none"
Wrap(locals, checks, does, unasked) ==
    /\ \E effect \in {does}:
         /\ Inside(effect)
         /\ mem' = effect.mem
         /\ called' = [reported |-> Report(locals, checks) # "none", outside |-> Outside(effect.reach),
                       span |-> Outside(effect.span), damaged |-> Damaged(effect.reach), unasked |-> unasked]
    /\ errno' = IF Report(locals, checks) = "none" THEN errno ELSE Report(locals, checks)
    /\ UNCHANGED checking
Call(checks, effect) == Wrap(<<>>, checks, effect, FALSE) /\ UNCHANGED saved

---------------------------------------------------------------------------
\* The wrappers, in the order of the file.  A call is the function, its
\* pointers a and b in their order, a byte and a length.

\* A look at a string, at two of them, and at as many bytes of each as the
\* wrapper finds, of which the function reads some.
Look1(c, read) == Call(<<String(c.a)>>, Looks({read}, {Through(c.a)}))
Look2(c, reads) == Call(<<String(c.a), String(c.b)>>, Looks(reads, {Through(c.a), Through(c.b)}))
Listed2(c, read) == Look2(c, {read, Through(c.b)})
Compare(c, n, read) ==
    Call(<<Room(c.a, n), Room(c.b, n)>>,
         Looks({Reach(c.a, read), Reach(c.b, read)}, {Reach(c.a, n), Reach(c.b, n)}))
CompareStrings(c, capitals) ==
    LET read == Compared(c.a, c.b, Strlen(c.a) + 1, capitals)
    IN Look2(c, {Reach(c.a, read), Reach(c.b, read)})

\* loc_strlen's own check.
LocStrlen(p) == String(p)

LookNumber(c) == Look1(c, Looked(c.a, DigitBytes, FALSE))
LookFor(c) == Look1(c, Looked(c.a, {c.ch}, TRUE))
Atoi(c) == c.fn = "atoi" /\ LookNumber(c)
Atol(c) == c.fn = "atol" /\ LookNumber(c)
Bcmp(c) == c.fn = "bcmp" /\ Compare(c, c.len, Memcompared(c.a, c.b, c.len))
Bcopy(c) ==
    /\ c.fn = "bcopy"
    /\ Call(<<Room(c.a, c.len), Room(c.b, c.len)>>,
            Writes({Reach(c.a, c.len), Reach(c.b, c.len)}, Copy(c.b, c.a, c.len)))
Bzero(c) ==
    /\ c.fn = "bzero"
    /\ Call(<<Room(c.a, c.len)>>, Writes({Reach(c.a, c.len)}, Fill(c.a, 0, c.len)))
Index(c) == c.fn = "index" /\ LookFor(c)
Memccpy(c) ==
    LET n == Upto(c.b, c.len, c.ch)
    IN /\ c.fn = "memccpy"
       /\ Apart(c.a, n, c.b, n)
       /\ Call(<<Room(c.a, n), Room(c.b, n)>>,
               Writes({Reach(c.a, n), Reach(c.b, n)}, Copy(c.a, c.b, n)))
Memchr(c) ==
    /\ c.fn = "memchr"
    /\ Call(<<Room(c.a, c.len)>>,
            Looks({Reach(c.a, Upto(c.a, c.len, c.ch))}, {Reach(c.a, c.len)}))
Memcmp(c) == c.fn = "memcmp" /\ Compare(c, c.len, Memcompared(c.a, c.b, c.len))
\* An overlap is warned of and copied all the same.
Move(c) ==
    Call(<<Room(c.a, c.len), Room(c.b, c.len)>>,
         Writes({Reach(c.a, c.len), Reach(c.b, c.len)}, Copy(c.a, c.b, c.len)))
Memcpy(c) == c.fn = "memcpy" /\ Move(c)
Memmove(c) == c.fn = "memmove" /\ Move(c)
Memset(c) ==
    /\ c.fn = "memset"
    /\ Call(<<Room(c.a, c.len)>>, Writes({Reach(c.a, c.len)}, Fill(c.a, c.ch, c.len)))
Rindex(c) == c.fn = "rindex" /\ Look1(c, Through(c.a))
Strcasecmp(c) == c.fn = "strcasecmp" /\ CompareStrings(c, Capitals)
Strcat(c) ==
    LET n == Strlen(c.b) + 1
    IN /\ c.fn = "strcat"
       /\ Apart(c.a, Strlen(c.a) + n, c.b, n)
       /\ Wrap(<<LocStrlen(c.a), LocStrlen(c.b)>>,
               <<Room(c.a, Strlen(c.a) + Strlen(c.b) + 1), String(c.b)>>,
               Writes({Reach(c.a, Strlen(c.a) + n), Reach(c.b, n)},
                      Copy(c.a + Strlen(c.a), c.b, n)), FALSE)
       /\ UNCHANGED saved
Strchr(c) == c.fn = "strchr" /\ LookFor(c)
Strcmp(c) == c.fn = "strcmp" /\ CompareStrings(c, {})
\* Mutant: no room for the 0 at the end.
StrcpyShort(c) ==
    LET n == Strlen(c.b) + 1
    IN /\ c.fn = "strcpy"
       /\ Apart(c.a, n, c.b, n)
       /\ Wrap(<<LocStrlen(c.b)>>, <<Room(c.a, Strlen(c.b)), String(c.b)>>,
               Writes({Reach(c.a, n), Reach(c.b, n)}, Copy(c.a, c.b, n)), FALSE)
       /\ UNCHANGED saved
Strcpy(c) ==
    LET n == Strlen(c.b) + 1
    IN /\ c.fn = "strcpy"
       /\ Apart(c.a, n, c.b, n)
       /\ Wrap(<<LocStrlen(c.b)>>, <<Room(c.a, Strlen(c.b) + 1), String(c.b)>>,
               Writes({Reach(c.a, n), Reach(c.b, n)}, Copy(c.a, c.b, n)), FALSE)
       /\ UNCHANGED saved
\* The list of strcspn, strpbrk, strspn and strtok is read whole, the string
\* through the first byte that is on it or not.
LookOn(c) == Listed2(c, Looked(c.a, Held(c.b), TRUE))
LookOff(c) == Listed2(c, Looked(c.a, Held(c.b), FALSE))
Strcspn(c) == c.fn = "strcspn" /\ LookOn(c)
StrlenCall(c) ==
    /\ c.fn = "strlen"
    /\ Wrap(<<LocStrlen(c.a)>>, <<String(c.a)>>, Looks({Through(c.a)}, {Through(c.a)}), FALSE)
    /\ UNCHANGED saved
CompareSome(c, capitals) ==
    Compare(c, UptoEither(c.a, c.b, c.len), Compared(c.a, c.b, c.len, capitals))
Strncasecmp(c) == c.fn = "strncasecmp" /\ CompareSome(c, Capitals)
\* The 0 that ends the string to be copied is read and not asked for.
Strncat(c) ==
    LET n == Before(c.b, c.len)
        reach == Reach(c.a, Strlen(c.a) + n + 1)
    IN /\ c.fn = "strncat"
       /\ Apart(c.a, reach.n, c.b, Upto(c.b, c.len, 0))
       /\ Wrap(<<LocStrlen(c.a)>>, <<Room(c.a, Strlen(c.a) + n + 1), Room(c.b, n)>>,
               Writes({reach, Reach(c.b, Upto(c.b, c.len, 0))},
                      CopyEnded(c.a + Strlen(c.a), c.b, n)), n < c.len)
       /\ UNCHANGED saved
Strncmp(c) == c.fn = "strncmp" /\ CompareSome(c, {})
\* The room for the 0 bytes behind a short string is not asked for.
Strncpy(c) ==
    LET n == Upto(c.b, c.len, 0)
    IN /\ c.fn = "strncpy"
       /\ Apart(c.a, c.len, c.b, n)
       /\ Wrap(<<>>, <<Room(c.a, n), Room(c.b, n)>>,
               Writes({Reach(c.a, c.len), Reach(c.b, n)}, CopyPadded(c.a, c.b, c.len)), n < c.len)
       /\ UNCHANGED saved
Strpbrk(c) == c.fn = "strpbrk" /\ LookOn(c)
Strrchr(c) == c.fn = "strrchr" /\ Look1(c, Through(c.a))
Strspn(c) == c.fn = "strspn" /\ LookOff(c)
Strstr(c) == c.fn = "strstr" /\ Listed2(c, Reach(c.a, Matched(c.a, c.b)))

\* strtok goes on in the string it was given before, which nobody checks
\* again; it ends the token it finds with a 0.
Strtok(c) ==
    LET from == IF c.a = Null THEN saved ELSE c.a
        seps == Held(c.b)
        first == Min({x \in from .. Top: mem[x] \notin seps})
        end == Min({x \in first .. Top: mem[x] \in seps \union {0}})
        token == IF from = Null THEN {} ELSE {Reach(from, end - from + 1)}
        given == IF c.a = Null THEN token ELSE {Through(c.a)}
        effect(bytes) == [reach |-> token \union {Through(c.b)}, span |-> given \union {Through(c.b)},
                          mem |-> bytes]
        checks == IF c.a = Null THEN <<String(c.b)>> ELSE <<String(c.a), String(c.b)>>
    IN /\ c.fn = "strtok"
       /\ IF from = Null \/ mem[first] = 0
          THEN /\ Wrap(<<>>, checks, effect(mem), c.a = Null)
               /\ saved' = IF from = Null THEN Null ELSE first
          ELSE /\ Wrap(<<>>, checks, effect([mem EXCEPT ![end] = 0]), c.a = Null)
               /\ saved' = IF mem[end] = 0 THEN end ELSE end + 1

\* dmalloc_strndup looks at its string; a negative length is strdup.  A
\* length of 0 asks for the whole string, of which it copies nothing.
Strndup(c) ==
    LET n == IF c.len < 0 THEN Strlen(c.a) + 1 ELSE Upto(c.a, c.len, 0)
    IN /\ c.fn = "strndup"
       /\ Wrap(<<>>, <<PntCheck(c.a, TRUE, c.len)>>,
               Looks({Reach(c.a, n)}, {IF c.len = 0 THEN Through(c.a) ELSE Reach(c.a, n)}), FALSE)
       /\ UNCHANGED saved

Do(c) ==
    \/ Atoi(c) \/ Atol(c) \/ Bcmp(c) \/ Bcopy(c) \/ Bzero(c) \/ Index(c)
    \/ Memccpy(c) \/ Memchr(c) \/ Memcmp(c) \/ Memcpy(c) \/ Memmove(c) \/ Memset(c)
    \/ Rindex(c) \/ Strcasecmp(c) \/ Strcat(c) \/ Strchr(c) \/ Strcmp(c) \/ Strcpy(c)
    \/ Strcspn(c) \/ StrlenCall(c) \/ Strncasecmp(c) \/ Strncat(c) \/ Strncmp(c)
    \/ Strncpy(c) \/ Strpbrk(c) \/ Strrchr(c) \/ Strspn(c) \/ Strstr(c) \/ Strtok(c)
    \/ Strndup(c)

---------------------------------------------------------------------------
\* What dmalloc puts around the user space of a block.
Fresh(b, x) == IF x \in Above(b) THEN BlankByte ELSE FenceByte

(* With check-funcs a call that reaches a byte outside of the user space of *)
(* the block its pointer is in, or whose pointer is in a block that an     *)
(* earlier call has damaged, is reported.  Three calls get by with bytes   *)
(* that nobody asks for (unasked): the padding of strncpy, the 0 strncat   *)
(* stops at, and what strtok(0L) goes on in.  And no call is blamed that   *)
(* was given room to the last byte it could come to.                       *)
ReportsTrue ==
    checking
      => /\ ~called.unasked => (called.outside \/ called.damaged => called.reported)
         /\ called.reported => called.span \/ called.damaged

=============================================================================
