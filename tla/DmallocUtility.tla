--------------------------- MODULE DmallocUtility ---------------------------
(***************************************************************************)
(* dmalloc.c: the dmalloc utility.  A user runs it over and over from a    *)
(* shell: each run parses its command line (ArgvParser), reads the option  *)
(* string from the environment (EnvOptions), changes what the options say  *)
(* and prints the command that gives the shell the new string.  The shell  *)
(* evaluates it, if it is in its syntax, so the next run, or the library,  *)
(* reads it back.                                                          *)
(***************************************************************************)
EXTENDS EnvOptions, FiniteSets, TLC

CONSTANTS Commands,    \* the command lines users type
          Strings,     \* the option strings the first run may find
          Files, Unreadable,
          LongBits,    \* the width of a long
          TagFlags,    \* the tags of the table of defaults, with their bits
          RcFiles,     \* the configuration files: tags with token names
          Missing,     \* a file that does not exist
          NoHome,      \* whether there is no HOME
          Shell,       \* the kind of shell SHELL names
          MaxRuns

VARIABLES argv, parse,
          env,     \* the option string of the shell
          output,  \* what the last run did
          runs

vars == <<argv, parse, env, output, runs>>

NoValue == [NoText EXCEPT !.after = "no value"]

Option(short, long, type, var) ==
    [kind |-> "option", short |-> short, long |-> long, type |-> type, var |-> var,
     array |-> FALSE, needed |-> FALSE]
Array(short, long, type, var) == [Option(short, long, type, var) EXCEPT !.array = TRUE]
OrEntry == [Option("", <<>>, "bool", "none") EXCEPT !.kind = "or"]
Maybe(type, var) == [Option("", <<>>, type, var) EXCEPT !.kind = "maybe"]

\* The table of options of the utility.
Args == <<
    Option("b", <<"bourne-shell">>, "bool", "bourne"), OrEntry,
    Option("C", <<"c-shell">>, "bool", "cshell"), OrEntry,
    Option("g", <<"gdb">>, "bool", "gdb"), OrEntry,
    Option("R", <<"rc-shell">>, "bool", "rcshell"),
    Option("a", <<"address">>, "char_p", "address"),
    Option("c", <<"clear">>, "bool", "clear"),
    Option("d", <<"debug", "-mask">>, "hex", "debug"),
    Option("D", <<"debug", "-tokens">>, "bool", "tokens"),
    Option("e", <<"errno">>, "int", "errno"),
    Option("f", <<"file">>, "char_p", "inpath"),
    Option("h", <<"help">>, "bool", "help"),
    Option("i", <<"interval">>, "u_long", "interval"),
    Option("k", <<"keep">>, "bool", "keep"),
    Option("l", <<"logfile">>, "char_p", "logpath"),
    Option("L", <<"long-tokens">>, "bool", "long"),
    Array("m", <<"minus">>, "char_p", "minus"),
    Option("M", <<"memory-limit">>, "u_size", "limit"),
    Option("n", <<"no-changes">>, "bool_neg", "changes"),
    Option("o", <<"lock-on">>, "int", "lockon"),
    Array("p", <<"plus">>, "char_p", "plus"),
    Option("r", <<"remove">>, "bool", "remove"),
    Option("s", <<"start", "-file">>, "char_p", "file"), OrEntry,
    Option("S", <<"start", "-iter">>, "u_long", "iter"), OrEntry,
    Option("", <<"start", "-size">>, "u_size", "size"),
    Option("t", <<"list-tags">>, "bool", "tags"),
    Option("u", <<"usage">>, "bool", "usage"),
    Option("v", <<"ver", "bose">>, "bool", "verbose"),
    Option("V", <<"very-verbose">>, "bool", "very"),
    Option("", <<"ver", "sion">>, "bool", "version"),
    Maybe("char_p", "tag")>>

\* What the variables of the table start with.
InitArgs ==
    LET flags == {"bourne", "cshell", "gdb", "rcshell", "clear", "tokens", "help", "keep", "long",
                  "remove", "tags", "usage", "verbose", "very", "version"}
    IN [f \in flags |-> FALSE] @@ [v \in {"address", "inpath", "logpath", "file", "tag"} |-> NoText]
       @@ [v \in {"debug", "errno", "interval", "limit", "lockon", "iter", "size"} |-> 0]
       @@ [v \in {"minus", "plus"} |-> <<>>] @@ [v \in {"changes"} |-> TRUE]

\* string_to_value: a boolean is true by its first letter, and a size is
\* multiplied for k, m or M, g or G, but not for K.
IsTrue(text) ==
    \/ text.lead \in {"t", "T", "y", "Y"}
    \/ text.lead = "" /\ ~text.x /\ text.digits # <<>> /\ Head(text.digits) = 1
Multiplier(after) ==
    CASE after = "k" -> 1024
      [] after \in {"m", "M"} -> 1024 * 1024
      [] after \in {"g", "G"} -> 1024 * 1024 * 1024
      [] OTHER -> 1
ReadText(type, text) ==
    CASE type = "bool" -> text = NoValue \/ IsTrue(text)
      [] type = "bool_neg" -> text # NoValue /\ IsTrue(text)
      [] type = "char_p" -> text
      [] type = "int" -> Atol(text)
      [] type = "u_long" -> Atol(text) % 2 ^ LongBits
      [] type = "hex" -> HexToLong(text)
      [] type = "u_size" -> (Atol(text) * Multiplier(text.after)) % 2 ^ LongBits

INSTANCE ArgvParser WITH Grid <- Args, InitValue <- InitArgs, NoClose <- NoValue, Read <- ReadText

Arg(var) == parse.value[var]
Given(var) == Arg(var) # NoText

\* read_rc_file and find_tag: the file named by -f, or the one in this
\* directory, or the one at home; then the table of defaults.
NoFlags == {-1}
TokenToValue(name) == IF name \in Tokens THEN TokenBits[name] ELSE {}
TokenSet(names) == UNION {TokenToValue(n): n \in names}
RcFile(path) == IF path \in DOMAIN RcFiles THEN RcFiles[path] ELSE Missing
HasTag(path, tag) == RcFile(path) # Missing /\ tag \in DOMAIN RcFile(path)
RcPath ==
    CASE Given("inpath") -> Arg("inpath").lead
      [] ~Given("inpath") /\ RcFile(".") # Missing -> "."
      [] ~Given("inpath") /\ RcFile(".") = Missing -> "~"
FindTag(tag) ==
    CASE RcPath = "~" /\ NoHome -> NoFlags
      [] Given("inpath") /\ RcFile(RcPath) = Missing -> NoFlags
      [] ~(RcPath = "~" /\ NoHome) /\ HasTag(RcPath, tag) -> TokenSet(RcFile(RcPath)[tag])
      [] OTHER -> IF tag \in DOMAIN TagFlags THEN TagFlags[tag] ELSE NoFlags

\* What main makes of the command line and the settings it found.
Tagged == Given("tag")
Clears ==
    \/ Arg("clear")
    \/ (Tagged \/ ArgvWasUsed("d")) /\ Arg("remove") /\ ~Arg("keep")
ListsFail == (RcPath = "~" /\ NoHome) \/ (Given("inpath") /\ RcFile(RcPath) = Missing)
Fails == (Tagged /\ FindTag(Arg("tag").lead) = NoFlags) \/ (Arg("tags") /\ ListsFail)

NewDebug(old) ==
    LET base == CASE Tagged -> FindTag(Arg("tag").lead)
                  [] ~Tagged /\ ArgvWasUsed("d") -> BitsOf(Arg("debug"))
                  [] ~Tagged /\ ~ArgvWasUsed("d") -> old.debug
        names(var) == {t.lead: t \in ToSet(Arg(var))}
    IN (base \union TokenSet(names("plus"))) \ TokenSet(names("minus"))

NewAddress(s) ==
    CASE Given("address") -> AddressBreak(Arg("address"), s)
      [] ~Given("address") /\ Clears -> [s EXCEPT !.addr = 0]
      [] ~Given("address") /\ ~Clears -> s

NewNumber(letter, var, old) ==
    CASE ArgvWasUsed(letter) -> Arg(var)
      [] ~ArgvWasUsed(letter) /\ Clears -> 0
      [] ~ArgvWasUsed(letter) /\ ~Clears -> old

NewLog(old) ==
    CASE Given("logpath") -> Arg("logpath").lead
      [] ~Given("logpath") /\ Clears -> NoPath
      [] ~Given("logpath") /\ ~Clears -> old

StartGiven == Given("file") \/ Arg("iter") > 0 \/ Arg("size") > 0
NewStart(s) ==
    LET none == [s EXCEPT !.file = NoPath, !.line = 0, !.iter = 0, !.size = 0] IN
    CASE Given("file") -> StartBreak(Arg("file"), s)
      [] ~Given("file") /\ Arg("iter") > 0 -> [none EXCEPT !.iter = Arg("iter")]
      [] ~Given("file") /\ Arg("iter") = 0 /\ Arg("size") > 0 -> [none EXCEPT !.size = Arg("size")]
      [] ~StartGiven -> IF Clears THEN none ELSE s

NewSettings(old) ==
    [NewStart(NewAddress(old)) EXCEPT
        !.debug = NewDebug(old),
        !.inter = NewNumber("i", "interval", @),
        !.lockon = NewNumber("o", "lockon", @),
        !.log = NewLog(@),
        !.limit = IF ArgvWasUsed("M") THEN Arg("limit") ELSE @]

Sets ==
    \/ Tagged \/ ArgvWasUsed("d") \/ Len(Arg("plus")) > 0 \/ Len(Arg("minus")) > 0
    \/ Given("address") \/ ArgvWasUsed("i") \/ ArgvWasUsed("o") \/ Given("logpath")
    \/ StartGiven \/ ArgvWasUsed("M")

NewString == EnvironSet(NewSettings(EnvironProcess(env)), Arg("long"))

\* choose_shell and set_variable: the syntax of the command.
Syntax ==
    CASE Arg("bourne") -> "bourne"
      [] ~Arg("bourne") /\ Arg("rcshell") -> "rc"
      [] ~Arg("bourne") /\ ~Arg("rcshell") /\ Arg("gdb") -> "gdb"
      [] ~Arg("bourne") /\ ~Arg("rcshell") /\ ~Arg("gdb") ->
           IF Arg("cshell") THEN "csh" ELSE Shell

\* A shell takes the commands of its own syntax, and an unset if it is a
\* Bourne shell: csh knows another one, rc and gdb have none.
Takes == IF NewString = <<>> THEN Shell = "bourne" ELSE Syntax = Shell

\* dump_current looks for the tag of the flags it shows.
Shows == Arg("errno") > 0 \/ Arg("tags") \/ Arg("tokens")
DumpFails == EnvironProcess(env).debug # {} /\ ListsFail

Informs == Arg("help") \/ Arg("usage") \/ Arg("version")

NoLine == [argv |-> <<>>, env |-> <<>>, globals |-> <<>>]

Init ==
    /\ env \in Strings /\ argv = <<>> /\ parse = [StartParse(NoLine) EXCEPT !.status = "done"]
    /\ output = "none" /\ runs = 0

\* The user types a command line.
Invoke ==
    /\ parse.status \in {"done", "help", "error"} /\ runs < MaxRuns
    /\ \E line \in Commands: argv' = line.argv /\ parse' = StartParse(line)
    /\ runs' = runs + 1
    /\ output' = "none" /\ UNCHANGED env

Parse == ArgvProcess /\ UNCHANGED <<env, output, runs>>

\* main, behind argv_process: --help and the like end the program, an
\* unknown tag too; else it prints the command or shows what is set.
Main ==
    /\ parse.status = "accepted"
    /\ parse' = [parse EXCEPT !.status = "done"]
    /\ \/ /\ Informs \/ Fails
          /\ output' = IF Informs THEN "help" ELSE "failed"
          /\ UNCHANGED env
       \/ /\ ~Informs /\ ~Fails /\ (Clears \/ Sets)
          /\ output' = IF NewString = <<>> THEN "unset" ELSE Syntax
          /\ env' = IF Arg("changes") /\ Takes THEN NewString ELSE env
       \/ /\ ~Informs /\ ~Fails /\ ~Clears /\ ~Sets
          /\ output' = CASE Shows -> "listed"
                         [] ~Shows /\ DumpFails -> "failed"
                         [] ~Shows /\ ~DumpFails -> "dump"
          /\ UNCHANGED env
    /\ UNCHANGED <<argv, runs>>

Next == Invoke \/ Parse \/ Main

Spec == Init /\ [][Next]_vars

-----------------------------------------------------------------------------
(* The words of the command line that are values, in their order, and the  *)
(* words not looked at yet; only where nothing is read from elsewhere.     *)

OnlyArgv ==
    /\ ~parse.split
    /\ \A k \in 1 .. Len(argv): argv[k].form = "long" => Head(argv[k].name) # "argv"
Unread == IF parse.lists = <<>> THEN 0 ELSE Len(FoldLeft(LAMBDA w, l: w \o l.words, <<>>, parse.lists))
Seen == SubSeq(argv, 1, Len(argv) - Unread)
Dashes(k) == Cardinality({j \in 1 .. k - 1: argv[j].form = "last"})
IsValue(k) ==
    \/ argv[k].form = "plain"
    \/ argv[k].form = "short" /\ argv[k].number
    \/ ~parse.globals.lasttog /\ Dashes(k) > 0
    \/ parse.globals.lasttog /\ Dashes(k) % 2 = 1 /\ argv[k].form # "last"
ValueTexts ==
    LET texts == FoldLeft(LAMBDA t, k: IF IsValue(k) THEN Append(t, argv[k].text) ELSE t,
                          <<>>, [k \in 1 .. Len(Seen) |-> k])
    IN texts
MaybeUsed == \E i \in parse.used: Args[i].kind = "maybe"

\* A command line that is still good has lost no word and read none twice:
\* the values read are those taken by options, in the order the options
\* came, and at most one more, the tag; and of the options that exclude
\* each other one is used (do_arg, do_list, check_or).
WordsAccounted ==
    (OnlyArgv /\ parse.okay /\ parse.status \in {"list", "accepted"}) =>
        /\ Len(ValueTexts) = parse.tail + (IF MaybeUsed THEN 1 ELSE 0)
        /\ \E t \in 0 .. Len(ValueTexts):
             LET taken == IF t = 0 THEN ValueTexts ELSE RemoveAt(ValueTexts, t) IN
             /\ MaybeUsed <=> t > 0
             /\ t > 0 => Arg("tag") = ValueTexts[t]
             /\ \A k \in 1 .. parse.tail:
                  LET i == parse.queue[k] IN
                  \/ Args[i].array \/ \E j \in k + 1 .. Len(parse.queue): parse.queue[j] = i
                  \/ \E j \in 1 .. Len(Seen): argv[j].form \in {"long", "short"} /\ argv[j].close # NoValue
                  \/ Arg(Args[i].var) = ReadText(Args[i].type, taken[k])
        /\ \A i \in parse.used: Args[i].kind = "option" => Linked(i) \intersect parse.used = {}
        /\ parse.status = "accepted" => parse.tail = Len(parse.queue)

\* The settings an option of the command line is about, and those a run
\* leaves alone: -c and -r are about all of them but the debug flags.
IsSet(field) ==
    CASE field = "debug" ->
           Tagged \/ ArgvWasUsed("d") \/ Arg("plus") # <<>> \/ Arg("minus") # <<>>
      [] field = "addr" -> Given("address")
      [] field = "count" -> Given("address") /\ HasColon(Arg("address"))
      [] field = "inter" -> ArgvWasUsed("i")
      [] field = "lockon" -> ArgvWasUsed("o")
      [] field = "log" -> Given("logpath")
      [] field \in {"file", "line", "iter", "size"} -> StartGiven
      [] field = "limit" -> ArgvWasUsed("M")
Untouched(field) == ~IsSet(field) /\ (field = "debug" \/ ~Clears)

\* What -c and -r leave in the string although no option is about it: the
\* debug flags, which are taken over without a tag or -d (dmalloc.c:918-932),
\* the memory limit, which has no branch for clear_b (dmalloc.c:1031-1034),
\* and the count of the old address when a new one is given without.
Spared(field) == field \in {"debug", "limit"} \/ (field = "count" /\ Given("address"))

\* What the string cannot say: a file without a line is read as a count, a
\* path is cut at its comma, a bit without a token has no long name, and a
\* count without an address or a negative lock-on is not written.
Unwritable(field, s) ==
    CASE field \in {"file", "line", "iter", "size"} -> s.file # NoPath /\ s.line = 0
      [] field = "log" -> s.log \in DOMAIN CommaPaths
      [] field = "debug" -> Arg("long") \/ s.log \in DOMAIN CommaPaths
      [] field = "count" -> s.addr = 0
      [] field = "lockon" -> s.lockon < 0
      [] OTHER -> FALSE

\* A run ends and has given the shell a new string.
NewlySet == parse.status = "accepted" /\ parse'.status = "done" /\ env' # env

\* After a run that gave the shell a new string, whoever reads it finds each
\* setting the run was not about as it was, and each other one as the run
\* decided (main, _dmalloc_environ_set, _dmalloc_environ_process).  After -c,
\* "clear all variables not set", and -r, "remove (unset) all settings when
\* using a tag", each setting that no option is about is as in an empty
\* string, but for those that main leaves alone (Spared).
SettingsKept ==
    [][NewlySet =>
         \A field \in DOMAIN Cleared:
           LET old == EnvironProcess(env)
               new == NewSettings(old)
               read == EnvironProcess(env')
           IN /\ ~Unwritable(field, new) => read[field] = new[field]
              /\ (Untouched(field) /\ ~Unwritable(field, new)) => read[field] = old[field]
              /\ (Clears /\ ~IsSet(field) /\ ~Spared(field)) => read[field] = Cleared[field]]_vars

=============================================================================
