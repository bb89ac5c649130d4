----------------------------- MODULE EnvOptions -----------------------------
(***************************************************************************)
(* env.c: the option string of the DMALLOC_OPTIONS environment variable,   *)
(* which the library reads when it starts and the dmalloc utility reads    *)
(* and writes.  A string is the sequence of the parts between its commas:  *)
(* a labelled part, or a debug token by its name.  A text is what the code *)
(* can tell apart in a piece of it: the letters it starts with, a leading  *)
(* 0x, the digits that follow, the letters after them and what stands      *)
(* behind a colon.                                                         *)
(***************************************************************************)
EXTENDS Integers, Sequences, SequencesExt, Folds

CONSTANTS Bits,        \* the bit positions of the debug flags, 0 .. n
          Tokens,      \* the names in the table of debug_tok.h
          TokenBits,   \* the bits of each name: none for a disabled one
          CommaPaths   \* log paths with a comma, with the two parts it makes

ASSUME TokensAssumption == TokenBits \in [Tokens -> SUBSET Bits]

NoText == [lead |-> "", x |-> FALSE, digits |-> <<>>, after |-> "", colon |-> <<>>]
NoPath == "no path"
HasColon(text) == text.colon # <<>>

\* The number a row of digits stands for, and the digits %lu and %lx print.
Number(digits, base) == FoldLeft(LAMBDA n, d: n * base + d, 0, digits)
Numeral(n, base) ==
    LET digits[k \in 0 .. n] == IF k < base THEN <<k>>
                                ELSE Append(digits[k \div base], k % base)
    IN digits[n]

\* atol and loc_atoul stop at the first letter, loc_atoul at a sign too;
\* hex_to_long skips a 0x.
Atol(text) ==
    CASE text.lead = "-" -> -Number(text.digits, 10)
      [] text.lead = "" /\ ~text.x -> Number(text.digits, 10)
      [] OTHER -> 0
LocAtoul(text) == IF text.lead = "-" THEN 0 ELSE Atol(text)
HexToLong(text) == IF text.lead # "" THEN 0 ELSE Number(text.digits, 16)

BitsOf(n) == {b \in Bits: (n \div 2 ^ b) % 2 = 1}
NumberOf(bits) == FoldSet(LAMBDA b, n: n + 2 ^ b, 0, bits)

DecText(n) == [NoText EXCEPT !.digits = Numeral(n, 10)]
HexText(n) == [NoText EXCEPT !.x = TRUE, !.digits = Numeral(n, 16)]

\* The settings the string stands for; address 0 and NoPath are NULL.
Cleared == [addr |-> 0, count |-> 0, debug |-> {}, inter |-> 0, lockon |-> 0,
            log |-> NoPath, file |-> NoPath, line |-> 0, iter |-> 0, size |-> 0,
            limit |-> 0]

Labelled(label, text) == [label |-> label, text |-> text, path |-> NoPath]
Path(label, path) == [label |-> label, text |-> NoText, path |-> path]
Token(name) == [label |-> "token", text |-> NoText, path |-> name]

\* A bug a mutant has: an address without a colon resets the count.
AddressBreakAlone(text, s) ==
    [s EXCEPT !.addr = HexToLong(text),
              !.count = IF HasColon(text) THEN Number(text.colon, 10) ELSE 0]

\* _dmalloc_address_break: the count is set only when there is a colon.
AddressBreak(text, s) ==
    [s EXCEPT !.addr = HexToLong(text),
              !.count = IF HasColon(text) THEN Number(text.colon, 10) ELSE @]

\* _dmalloc_start_break: file:line, s and a size, or a count with or
\* without a c; each clears the two others.
StartBreak(text, s) ==
    LET none == [s EXCEPT !.file = NoPath, !.line = 0, !.iter = 0, !.size = 0]
        digits == Number(text.digits, 10)
    IN CASE HasColon(text) -> [none EXCEPT !.file = text.lead, !.line = Number(text.colon, 10)]
         [] ~HasColon(text) /\ text.lead = "s" -> [none EXCEPT !.size = digits]
         [] ~HasColon(text) /\ text.lead = "c" -> [none EXCEPT !.iter = digits]
         [] ~HasColon(text) /\ text.lead \notin {"s", "c"} -> [none EXCEPT !.iter = LocAtoul(text)]

\* One part of the string; a label or a token nobody knows is skipped.
ProcessPart(read, part) ==
    LET s == read.set IN
    CASE part.label = "addr" -> [read EXCEPT !.set = AddressBreak(part.text, s)]
      [] part.label = "debug" -> [read EXCEPT !.set.debug = BitsOf(HexToLong(part.text))]
      [] part.label = "inter" -> [read EXCEPT !.set.inter = LocAtoul(part.text)]
      [] part.label = "lockon" -> [read EXCEPT !.set.lockon = Atol(part.text)]
      [] part.label = "log" -> [read EXCEPT !.set.log = part.path]
      [] part.label = "start" -> [read EXCEPT !.set = StartBreak(part.text, s)]
      [] part.label = "limit" -> [read EXCEPT !.set.limit = LocAtoul(part.text)]
      [] part.label = "token" -> [read EXCEPT !.flags = @ \union
                        (IF part.path \in Tokens THEN TokenBits[part.path] ELSE {})]
      [] OTHER -> read

\* _dmalloc_environ_process: every setting is cleared first, and the tokens
\* are added to the debug setting at the end.
EnvironProcess(string) ==
    LET read == FoldLeft(ProcessPart, [set |-> Cleared, flags |-> {}], string)
    IN [read.set EXCEPT !.debug = @ \union read.flags]

\* A path is written as it stands: a comma in it ends the part, and what
\* follows is read as a token.
LogParts(path) ==
    IF path \in DOMAIN CommaPaths
    THEN <<Path("log", CommaPaths[path][1]), Token(CommaPaths[path][2])>>
    ELSE <<Path("log", path)>>

DebugParts(s, longTokens) ==
    IF longTokens
    THEN SetToSeq({Token(t): t \in {t \in Tokens: s.debug \intersect TokenBits[t] # {}}})
    ELSE <<Labelled("debug", HexText(NumberOf(s.debug)))>>

AddressPart(s) ==
    Labelled("addr", IF s.count > 0 THEN [HexText(s.addr) EXCEPT !.colon = Numeral(s.count, 10)]
                     ELSE HexText(s.addr))

\* A file is written with its line, if that is not 0; the file goes before
\* a count, and a count before a size.
StartParts(s) ==
    LET start(text) == <<Labelled("start", text)>> IN
    CASE s.file # NoPath -> start([NoText EXCEPT !.lead = s.file,
                                    !.colon = IF s.line > 0 THEN Numeral(s.line, 10) ELSE <<>>])
      [] s.file = NoPath /\ s.iter > 0 -> start([DecText(s.iter) EXCEPT !.lead = "c"])
      [] s.file = NoPath /\ s.iter = 0 /\ s.size > 0 -> start([DecText(s.size) EXCEPT !.lead = "s"])
      [] s.file = NoPath /\ s.iter = 0 /\ s.size = 0 -> <<>>

\* _dmalloc_environ_set: a setting that is 0 or NULL is left out.
EnvironSet(s, longTokens) ==
    LET when(set, parts) == IF set THEN parts ELSE <<>> IN
    when(s.debug # {}, DebugParts(s, longTokens))
    \o when(s.addr # 0, <<AddressPart(s)>>)
    \o when(s.inter > 0, <<Labelled("inter", DecText(s.inter))>>)
    \o when(s.lockon > 0, <<Labelled("lockon", DecText(s.lockon))>>)
    \o when(s.log # NoPath, LogParts(s.log))
    \o StartParts(s)
    \o when(s.limit > 0, <<Labelled("limit", DecText(s.limit))>>)

=============================================================================
