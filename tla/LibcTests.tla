----------------------------- MODULE LibcTests ------------------------------
(***************************************************************************)
(* The repository's own tests of the wrappers: dmalloc_fc_t.c and the part *)
(* check_arg_check of dmalloc_t.c.  A test is the steps it takes: a call   *)
(* of a wrapper, bytes written without one, dmalloc_errno set to no error, *)
(* and what the test expects dmalloc_errno to be.  Blocks of 5 and 10      *)
(* bytes stand for what it allocates; its literals lie above the heap.     *)
(* The comparisons of what a function returned with what it should have    *)
(* returned are left out, and so is the byte behind the block that some    *)
(* tests put back.                                                         *)
(***************************************************************************)
EXTENDS ArgCheck

CONSTANTS Garbage,   \* what the bytes of a new allocation may hold
          StrdupMacro \* strdup is a macro of dmalloc.h

VARIABLES suite,   \* the program that runs
          test,    \* the test it is at
          step,    \* and the step of that test
          prev,    \* dmalloc_errno as the test found it
          final    \* no test has failed so far

testVars == <<vars, suite, test, step, prev, final>>

\* Characters: digits, letters and what separates them.
Digits(n) == [i \in 1 .. n |-> i]
Lower(n) == [i \in 1 .. n |-> 10 + i]
Upper(n) == [i \in 1 .. n |-> 20 + i]
Foot == <<16, 31, 31, 32>>
Footy == Foot \o <<33>>
Footies == Foot \o <<34, 15, 35>>
Comma == <<41>>
Listed(n) == SubSeq(<<11, 41, 12, 41, 13>>, 1, n)
Zeros == <<0, 0, 0, 0, 0>>
Many(byte, n) == [i \in 1 .. n |-> byte]

Literals == <<Digits(4), Digits(5), Digits(6), SubSeq(Foot, 1, 3), Foot, Footy, Footies, Lower(2),
              Lower(4), Lower(5), Lower(6), Upper(4), Upper(5), Upper(6), Listed(4), Listed(5),
              Comma, <<32>>, <<33>>, <<31, 32>>, <<37, 31, 37, 15>>, <<42>>, Zeros>>
Size == 5
Pnt == 0
Pnt2 == 8
TestBlocks == {[low |-> Pnt, size |-> Size, high |-> 8, fenced |-> FALSE, blanked |-> FALSE],
               [low |-> Pnt2, size |-> 2 * Size, high |-> 20, fenced |-> FALSE, blanked |-> FALSE]}
Static == FoldSeq(LAMBDA text, bytes: bytes \o text \o <<0>>, <<>>, Literals)
TestTop == 19 + Len(Static)
At(text) == CHOOSE p \in 20 .. TestTop: SubSeq(Static, p - 19, p - 19 + Len(text)) = text \o <<0>>

---------------------------------------------------------------------------
C(fn, a, b, ch, len) == [fn |-> fn, a |-> a, b |-> b, ch |-> ch, len |-> len]
Run(c) == [do |-> "call", c |-> c]
Two(fn, a, b) == Run(C(fn, a, b, 0, 0))
Sized(fn, a, b, len) == Run(C(fn, a, b, 0, len))
One(fn) == Two(fn, Pnt, Pnt)
Fit(fn, len) == Sized(fn, Pnt, Pnt, len)
Moved(text) == Sized("memmove", Pnt, At(text), Len(text))
Copied(text) == Two("strcpy", Pnt, At(text))
Same(text) == Sized("memcmp", Pnt, At(text), Len(text))
Put(at, bytes) == [do |-> "put", at |-> at, bytes |-> bytes]
Ended(at, text) == Put(at, text \o <<0>>)
Malloc == [do |-> "malloc"]
Reset == [do |-> "reset"]
Expect(error) == [do |-> "expect", error |-> error]
Ok == Expect("none")
Fail == Expect("would_overwrite")

\* dmalloc_fc_t.c, in the order of its table.  Its own calls are checked.
Reads(fn, fits, over) == <<Malloc, Copied(fits), One(fn), Ok, Moved(over), One(fn), Fail>>
Searches(fn, for, missing) ==
    <<Malloc, Copied(Foot), Two(fn, Pnt, At(for)), Ok, Moved(Footy), Two(fn, Pnt, At(missing)), Fail>>
Takes(fn) ==
    <<Malloc, Sized(fn, Pnt, At(Digits(5)), 5), Ok, Same(Digits(5)), Sized(fn, Pnt, At(Digits(6)), 6), Fail>>
Clears(fn) ==
    <<Malloc, Copied(SubSeq(Foot, 1, 3)), Same(Zeros), Fit(fn, Size), Ok, Same(Zeros),
      Fit(fn, Size + 1), Fail>>
Appends(fn) ==
    <<Malloc, Copied(Lower(2)), Sized(fn, Pnt, At(Lower(2)), 2), Ok, Same(Lower(2)),
      Sized(fn, Pnt, At(Lower(2)), 2), Fail>>

DoAtoi == Reads("atoi", Digits(4), Digits(5))
DoAtol == Reads("atol", Digits(4), Digits(5))
DoBcmp == <<Malloc, Moved(Digits(5)), Sized("bcmp", Pnt, At(Digits(5)), 5), Ok,
            Moved(Digits(6)), Sized("bcmp", Pnt, At(Digits(6)), 6), Fail>>
DoBcopy == <<Malloc, Sized("bcopy", At(Digits(5)), Pnt, 5), Ok, Same(Digits(5)),
             Sized("bcopy", At(Digits(6)), Pnt, 6), Fail>>
DoBzero == Clears("bzero")
DoIndex == Reads("index", Foot, Footy)
DoMemccpy == <<Malloc, Run(C("memccpy", Pnt, At(Footy), 36, 5)), Ok, Same(Footy),
               Run(C("memccpy", Pnt, At(Footies), 36, 7)), Fail>>
DoMemchr == <<Malloc, Moved(Footy), Fit("memchr", Size), Ok, Fit("memchr", Size + 1), Fail>>
DoMemcmp == <<Malloc, Moved(Digits(5)), Same(Digits(5)), Ok, Moved(Digits(6)), Same(Digits(6)), Fail>>
DoMemcpy == Takes("memcpy")
DoMemmove == Takes("memmove")
DoMemset == Clears("memset")
\* The first call of this one is of index.
DoRindex == <<Malloc, Copied(Foot), One("index"), Ok, Moved(Footy), One("rindex"), Fail>>
DoStrcasecmp == <<Malloc, Copied(Upper(4)), Two("strcasecmp", Pnt, At(Lower(4))), Ok,
                  Moved(Upper(6)), Two("strcasecmp", Pnt, At(Lower(6))), Fail>>
DoStrcat == Appends("strcat")
DoStrchr == Reads("strchr", Foot, Footy)
DoStrcmp == Searches("strcmp", Foot, Footy)
DoStrcpy == <<Malloc, Copied(Digits(4)), Ok, Same(Digits(4)), Copied(Digits(5)), Fail>>
DoStrcspn == <<Malloc, Copied(Digits(4)), Two("strcspn", Pnt, At(Digits(4))), Ok>>
DoStrlen == Reads("strlen", Digits(4), Digits(5))
DoStrncasecmp == <<Malloc, Moved(Upper(5)), Sized("strncasecmp", Pnt, At(Lower(5)), 5), Ok,
                   Sized("strncasecmp", Pnt, At(Upper(6)), 6), Fail>>
DoStrncat == Appends("strncat")
DoStrncmp == <<Malloc, Moved(Footy), Sized("strncmp", Pnt, At(Footy), 5), Ok,
               Sized("strncmp", Pnt, At(Footy), 6), Fail>>
DoStrncpy == Takes("strncpy")
DoStrpbrk == Searches("strpbrk", <<32>>, <<33>>)
DoStrrchr == Reads("strrchr", Foot, Footy)
DoStrspn == Searches("strspn", Foot, Footy)
DoStrstr == Searches("strstr", <<31, 32>>, <<37, 31, 37, 15>>)
DoStrtok == <<Malloc, Copied(Listed(4)), Two("strtok", Pnt, At(Comma)), Ok,
              Moved(Listed(5)), Two("strtok", Pnt, At(Comma)), Fail>>

TestFuncs ==
    <<DoAtoi, DoAtol, DoBcmp, DoBcopy, DoBzero, DoIndex, DoMemccpy, DoMemchr, DoMemcmp, DoMemcpy,
      DoMemmove, DoMemset, DoRindex, DoStrcasecmp, DoStrcat, DoStrchr, DoStrcmp, DoStrcpy, DoStrcspn,
      DoStrlen, DoStrncasecmp, DoStrncat, DoStrncmp, DoStrncpy, DoStrpbrk, DoStrrchr, DoStrspn,
      DoStrstr, DoStrtok>>

---------------------------------------------------------------------------
\* check_arg_check of dmalloc_t.c: one allocation of 5 bytes and one of 10
\* for all of it, filled by calls that are not checked.
Good(prepare, call) == <<Reset>> \o prepare \o <<call, Ok>>
Bad(prepare, call) == <<Reset>> \o prepare \o <<call, Fail>>
Text(text) == <<Ended(Pnt, text)>>
Full(text) == <<Put(Pnt, text)>>
Both(one, two) == <<Put(Pnt, one), Put(Pnt2, two)>>
Alike(one, two) == Both(one \o <<0>>, two \o <<0>>)

ArgStrings(fn) == Good(Text(Digits(4)), One(fn)) \o Bad(Full(Digits(5)), One(fn))
ArgPairs(fn, one(_), two(_)) ==
    Good(Alike(one(4), two(4)), Two(fn, Pnt, Pnt2)) \o Bad(Both(one(5), two(5)), Two(fn, Pnt, Pnt2))
ArgCopies(fn, byte, from, to) ==
    Good(Full(Many(byte, Size)), Sized(fn, Pnt2, Pnt, Size)) \o Bad(<<>>, Sized(fn, to, from, Size + 1))
ArgCompares(fn, prepare) ==
    Good(prepare, Sized(fn, Pnt, Pnt2, Size)) \o Bad(<<>>, Sized(fn, Pnt, Pnt2, Size + 1))

ArgBcmp ==
    Good(Both(Many(1, Size), Many(1, Size)), Sized("bcmp", Pnt, Pnt2, Size))
      \o ArgCompares("bcmp", Both(Many(1, Size), Many(2, Size)))
ArgBcopy ==
    Good(Full(Many(2, Size)), Sized("bcopy", Pnt, Pnt2, Size))
      \o Bad(Full(Many(2, Size)), Sized("bcopy", Pnt, Pnt2, Size + 1))
ArgBzero == Good(<<>>, Fit("bzero", Size)) \o Bad(<<>>, Fit("bzero", Size + 1))
ArgMemccpy == ArgCopies("memccpy", 3, Pnt, Pnt2)
ArgMemchr == Good(Full(Many(4, Size)), Fit("memchr", Size)) \o Bad(<<>>, Fit("memchr", Size + 1))
ArgMemcmp == ArgCompares("memcmp", Both(Many(5, Size), Many(5, Size)))
ArgMemcpy == ArgCopies("memcpy", 6, Pnt2, Pnt)
ArgMemmove == ArgCopies("memmove", 7, Pnt2, Pnt)
ArgMemset == Good(<<>>, Fit("memset", Size)) \o Bad(<<>>, Fit("memset", Size + 1))
ArgStrcat ==
    Good(Alike(Lower(2), <<13, 14>>), Two("strcat", Pnt, Pnt2))
      \o Bad(Alike(Lower(2), Lower(3)), Two("strcat", Pnt, Pnt2))
ArgStrcpy ==
    Good(<<Ended(Pnt2, Lower(4))>>, Two("strcpy", Pnt, Pnt2))
      \o Bad(<<Ended(Pnt2, Lower(5))>>, Two("strcpy", Pnt, Pnt2))
ArgStrcspn ==
    Good(Text(Lower(4)), Two("strcspn", Pnt, At(<<42>>)))
      \o Bad(Full(Lower(5)), Two("strcspn", Pnt, At(<<42>>)))
\* strdup is strndup of the whole string.
ArgStrdup ==
    IF StrdupMacro THEN Good(Text(Many(3, 4)), Fit("strndup", -1)) \o Bad(Full(Many(3, Size)), Fit("strndup", -1))
    ELSE <<>>
ArgStrncasecmp == ArgCompares("strncasecmp", Both(Many(11, Size), Many(21, Size)))
ArgStrncat ==
    Good(Both(<<8, 8, 8, 0, 8>>, <<8, 0, 8, 8, 8>>), Sized("strncat", Pnt, Pnt2, Size))
      \o Bad(Full(<<8, 8, 8, 8, 0>>), Sized("strncat", Pnt, Pnt2, Size))
ArgStrncmp == ArgCompares("strncmp", Both(Many(9, Size), Many(9, Size)))
ArgStrncpy == Good(Full(Many(9, Size)), Sized("strncpy", Pnt, Pnt2, Size))
                \o Bad(<<>>, Sized("strncpy", Pnt, Pnt2, Size + 1))

CheckArgCheck ==
    <<Malloc>> \o ArgStrings("atoi") \o ArgStrings("atol") \o ArgBcmp \o ArgBcopy \o ArgBzero
      \o ArgStrings("index") \o ArgMemccpy \o ArgMemchr \o ArgMemcmp \o ArgMemcpy \o ArgMemmove
      \o ArgMemset \o ArgStrings("rindex") \o ArgPairs("strcasecmp", Lower, Upper) \o ArgStrcat
      \o ArgStrings("strchr") \o ArgPairs("strcmp", Lower, Lower) \o ArgStrcpy \o ArgStrcspn \o ArgStrdup
      \o ArgStrncasecmp \o ArgStrncat \o ArgStrncmp \o ArgStrncpy

---------------------------------------------------------------------------
Suites == [fc_t |-> TestFuncs, arg_check |-> <<CheckArgCheck>>]
Tests == Suites[suite]

NewBytes(g, old) == [x \in Addresses |-> IF x < 20 THEN g ELSE old[x]]
InitTests ==
    /\ suite \in DOMAIN Suites
    /\ mem = [x \in 0 .. TestTop |-> IF x < 20 THEN 0 ELSE Static[x - 19]]
    /\ checking = FALSE /\ errno \in {"none", "not_found"} /\ saved = Null /\ called = NothingCalled
    /\ test = 0 /\ step = 0 /\ prev = "none" /\ final = TRUE

\* do_tests sets check-funcs; each of its tests starts with no error, and
\* what there was before comes back behind it, if there was any.
\* check_arg_check puts back what it found.
StartTest ==
    /\ step = 0 /\ test < Len(Tests)
    /\ test' = test + 1 /\ step' = 1
    /\ prev' = errno /\ errno' = "none"
    /\ checking' = TRUE
    /\ UNCHANGED <<mem, saved, called, suite, final>>
EndTest ==
    /\ step > 0 /\ step > Len(Tests[test])
    /\ step' = 0
    /\ errno' = IF prev # "none" \/ suite = "arg_check" THEN prev ELSE errno
    /\ UNCHANGED <<mem, checking, saved, called, suite, test, prev, final>>

At_(s) == step > 0 /\ step <= Len(Tests[test]) /\ Tests[test][step].do = s
Now == Tests[test][step]
Stepped == step' = step + 1 /\ UNCHANGED <<suite, test, prev>>

CallStep == At_("call") /\ Do(Now.c) /\ Stepped /\ UNCHANGED final
PutStep ==
    /\ At_("put") /\ Stepped
    /\ mem' = [x \in Addresses |-> IF x \in Now.at .. (Now.at + Len(Now.bytes) - 1)
                                   THEN Now.bytes[x - Now.at + 1] ELSE mem[x]]
    /\ UNCHANGED <<checking, errno, saved, called, final>>
MallocStep ==
    /\ At_("malloc") /\ Stepped
    /\ \E g \in Garbage: mem' = NewBytes(g, mem)
    /\ UNCHANGED <<checking, errno, saved, called, final>>
ResetStep ==
    /\ At_("reset") /\ Stepped
    /\ errno' = "none"
    /\ UNCHANGED <<mem, checking, saved, called, final>>
\* check_ok and check_fail: a test of dmalloc_fc_t.c that fails is over.
ExpectStep ==
    /\ At_("expect")
    /\ final' = (final /\ errno = Now.error)
    /\ step' = IF errno = Now.error \/ suite = "arg_check" THEN step + 1 ELSE Len(Tests[test]) + 1
    /\ UNCHANGED <<mem, checking, errno, saved, called, suite, test, prev>>
\* Behind the last test the flags are what they were.
EndTests ==
    /\ step = 0 /\ test = Len(Tests) /\ checking
    /\ checking' = FALSE
    /\ UNCHANGED <<mem, errno, saved, called, suite, test, step, prev, final>>

NextTests ==
    \/ StartTest \/ CallStep \/ PutStep \/ MallocStep \/ ResetStep \/ ExpectStep \/ EndTest \/ EndTests
SpecTests == InitTests /\ [][NextTests]_testVars /\ WF_testVars(NextTests)

(* Both programs get to their end, and succeed: at every step in between   *)
(* the wrappers take the calls that fit and refuse those one byte too long,*)
(* whatever a new allocation holds and whatever the bytes that the refused *)
(* calls have written all the same did to what comes after.                *)
TestsSucceed == <>(test = Len(Tests) /\ step = 0 /\ ~checking /\ final)
=============================================================================
