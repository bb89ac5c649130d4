----------------------------- MODULE ArgvParser -----------------------------
(***************************************************************************)
(* dmalloc_argv.c: argv_process, the parser of command lines.  The program *)
(* gives it a table of options; it takes the words one after the other,    *)
(* from the command line, from the environment and from files named by     *)
(* --argv-file.  An option that takes a value waits for it in a queue.     *)
(* A word is how it starts and what it says: the name of a long option in  *)
(* its syllables, the letters of a cluster of short ones, what stands      *)
(* behind its = sign, and the text it is when it is taken for a value.     *)
(***************************************************************************)
EXTENDS Integers, Sequences, SequencesExt, FiniteSets, Folds

CONSTANTS Grid,        \* the table: a sequence of entries
          InitValue,   \* what the variables of its entries hold before
          Files,       \* the files of words, by the text that names them
          NoClose,     \* no value behind an = sign
          Unreadable,  \* a file that cannot be opened
          Read(_, _)   \* a text as a value of a type: atoi, atol, htoi, ...

VARIABLES argv,   \* the words behind the program's name
          parse   \* the state of argv_process_no_env

Entries == 1 .. Len(Grid)
Options == {i \in Entries: Grid[i].kind = "option"}
Separators == {i \in Entries: Grid[i].kind \in {"or", "xor"}}
HasArg(i) == Grid[i].type \notin {"bool", "bool_neg", "incr"}
Signed == {"int", "long"}

\* process_env: each setting of GLOBAL_ARGV changes one of the globals, and
\* a value nobody knows changes nothing.
Switch(value, old) ==
    value \in {"enable", "on", "yes", "1"} \/ (old /\ value \notin {"disable", "off", "no", "0"})
Apply(globals, s) ==
    CASE s.name = "close" -> [globals EXCEPT !.close = Switch(s.value, @)]
      [] s.name = "lasttog" -> [globals EXCEPT !.lasttog = Switch(s.value, @)]
      [] s.name = "multi" /\ s.value \in {"accept", "reject"} ->
           [globals EXCEPT !.multi = s.value = "accept"]
      [] s.name = "env" /\ s.value \in {"none", "before", "after"} ->
           [globals EXCEPT !.env = s.value]
      [] OTHER -> globals
ProcessEnv(settings) ==
    FoldLeft(Apply, [close |-> TRUE, lasttog |-> FALSE, multi |-> TRUE, env |-> "before"],
             settings)

\* preprocess_array: nothing follows an array that takes the rest, arrays
\* have values, and an [X]OR stands between two entries.
PreprocessArray ==
    /\ \A i, j \in Entries:
         (i < j /\ Grid[i].kind \in {"mand", "maybe"} /\ Grid[i].array)
           => Grid[j].kind \notin {"mand", "maybe"}
    /\ \A i, j \in Entries: (i < j /\ Grid[i].kind = "maybe") => Grid[j].kind # "mand"
    /\ \A i \in Entries: Grid[i].array => HasArg(i)
    /\ \A i \in Separators: i > 1 /\ i < Len(Grid) /\ i - 1 \notin Separators

\* do_list runs over a list of words; file_args calls it again on a file's.
List(from, words) == [from |-> from, words |-> words, last |-> FALSE]
Lists(globals, line) ==
    LET words == List("argv", line.argv)
        env == List("env", line.env)
    IN CASE globals.env = "none" -> <<words>>
         [] globals.env = "before" -> <<env, words>>
         [] globals.env = "after" -> <<words, env>>

\* A command line comes with the words of the program's environment variable
\* and the settings of GLOBAL_ARGV.
StartParse(line) ==
    [globals |-> ProcessEnv(line.globals), lists |-> Lists(ProcessEnv(line.globals), line),
     split |-> line.env # <<>>, used |-> {}, value |-> InitValue,
     queue |-> <<>>, tail |-> 0, okay |-> TRUE,
     status |-> IF PreprocessArray THEN "list" ELSE "error"]

\* string_to_value; an array gets one entry more.
StringToValue(p, i, text) ==
    LET v == Read(Grid[i].type, text)
        var == Grid[i].var
    IN [p EXCEPT !.value[var] = IF Grid[i].array THEN Append(@, v) ELSE v]

\* check_or: the entries linked to entry i by [X]ORs in between.
Linked(i) ==
    {j \in Options \ {i}:
       LET low == IF i < j THEN i ELSE j
           high == IF i < j THEN j ELSE i
       IN /\ (high - low) % 2 = 0
          /\ \A k \in low .. high: (k - low) % 2 = 1 => k \in Separators}
CheckOr(used, i) == Linked(i) \intersect used = {}

\* The queue has room for one entry per word of the command line; a write
\* past it is undefined, and the model stops there.
Enqueue(p, i) ==
    IF Len(p.queue) < Len(argv) + 1 THEN [p EXCEPT !.queue = Append(@, i)]
    ELSE [p EXCEPT !.status = "undefined"]

\* do_arg: the option is used, even when it is refused.
DoArg(p, i, close) ==
    LET again == ~p.globals.multi /\ i \in p.used /\ ~Grid[i].array /\ Grid[i].type # "incr"
        used == [p EXCEPT !.used = @ \union {i},
                          !.okay = @ /\ ~again /\ CheckOr(p.used, i)]
    IN CASE close # NoClose -> StringToValue(used, i, close)
         [] close = NoClose /\ ~HasArg(i) -> StringToValue(used, i, NoClose)
         [] close = NoClose /\ HasArg(i) -> Enqueue(used, i)

FileEntry == 0
FileArgs(p, text) ==
    IF text \notin DOMAIN Files \/ Files[text] = Unreadable
    THEN [p EXCEPT !.status = "error"]
    ELSE [p EXCEPT !.lists = <<List("file", Files[text])>> \o @]

\* The value of an = sign, unless GLOBAL_ARGV turned them off: then the
\* sign is part of the name, and no option has such a name.
Close(p, word) == IF p.globals.close THEN word.close ELSE NoClose
Unsplit(p, word) == ~p.globals.close /\ word.close # NoClose

Abbreviates(name, long) == long # <<>> /\ IsPrefix(name, long)
Matches(p, word) ==
    IF Unsplit(p, word) THEN {}
    ELSE {i \in Options: Abbreviates(word.name, Grid[i].long)}
HelpNames == {<<"usage">>, <<"help">>, <<"usage", "-short">>, <<"usage", "-long">>,
              <<"usage", "-all">>, <<"version">>, <<"argv", "-display">>}

\* A long option: a prefix of one name only, else one of the parser's own.
LongOption(p, word) ==
    LET found == Matches(p, word)
        special(names) == ~Unsplit(p, word) /\ \E n \in names: Abbreviates(word.name, n)
    IN CASE word.name = <<>> -> [p EXCEPT !.okay = FALSE]
         [] word.name # <<>> /\ Cardinality(found) > 1 -> [p EXCEPT !.okay = FALSE]
         [] word.name # <<>> /\ Cardinality(found) = 1 ->
              DoArg(p, CHOOSE i \in found: TRUE, Close(p, word))
         [] word.name # <<>> /\ found = {} ->
              CASE special({<<"argv", "-file">>}) ->
                     IF Close(p, word) # NoClose THEN FileArgs(p, word.close)
                     ELSE Enqueue(p, FileEntry)
                [] ~special({<<"argv", "-file">>}) /\ special(HelpNames) ->
                     [p EXCEPT !.status = "help"]
                [] ~special({<<"argv", "-file">>} \union HelpNames) -> [p EXCEPT !.okay = FALSE]

Short(letter) == {i \in Options: Grid[i].short = letter}
Pending(p) == p.tail < Len(p.queue)
\* A bug a mutant has: the option seen last takes the value.
NewestFirst(p) == p.queue[Len(p.queue)]
Oldest(p) == p.queue[p.tail + 1]

\* One letter of a cluster of short options.
Letter(p, letter, close) ==
    CASE p.status # "list" -> p
      [] p.status = "list" /\ Short(letter) # {} -> DoArg(p, CHOOSE i \in Short(letter): TRUE, close)
      [] p.status = "list" /\ Short(letter) = {} ->
           IF letter = "?" THEN [p EXCEPT !.status = "help"] ELSE [p EXCEPT !.okay = FALSE]

\* A cluster of digits is the value of a signed option that waits for one.
IsNegative(p, word) == word.number /\ Short(word.letters[1]) = {} /\ Pending(p)
ShortOptions(p, word) ==
    CASE word.letters = <<>> -> [p EXCEPT !.okay = FALSE]
      [] word.letters # <<>> /\ IsNegative(p, word) /\ Oldest(p) = FileEntry ->
           [p EXCEPT !.status = "undefined"]
      [] /\ word.letters # <<>> /\ IsNegative(p, word)
         /\ Oldest(p) # FileEntry /\ Grid[Oldest(p)].type \in Signed ->
           StringToValue([p EXCEPT !.tail = @ + 1], Oldest(p), word.text)
      [] OTHER -> FoldLeft(LAMBDA q, l: Letter(q, l, Close(p, word)), p, word.letters)

\* The oldest option that waits takes the word.
TakeValue(p, word) ==
    LET taken == [p EXCEPT !.tail = @ + 1]
    IN IF Oldest(p) = FileEntry THEN FileArgs(taken, word.text)
       ELSE StringToValue(taken, Oldest(p), word.text)

\* The first entry of a kind that can take one word more.
Open(p, kind) == {i \in Entries: Grid[i].kind = kind /\ (i \notin p.used \/ Grid[i].array)}
TakePlace(p, word) ==
    LET open == IF Open(p, "mand") # {} THEN Open(p, "mand") ELSE Open(p, "maybe")
        first == CHOOSE i \in open: \A j \in open: i <= j
    IN IF open = {} THEN [p EXCEPT !.okay = FALSE]
       ELSE StringToValue([p EXCEPT !.used = @ \union {first}], first, word.text)

Plain(p, word) == IF Pending(p) THEN TakeValue(p, word) ELSE TakePlace(p, word)

\* The next word, and the parse when do_list has gone past it.
Word == Head(Head(parse.lists).words)
PastDashes == Head(parse.lists).last
Past == [parse EXCEPT !.lists[1].words = Tail(@)]
Listing == parse.status = "list" /\ parse.lists # <<>>
Reading(form) == Listing /\ Head(parse.lists).words # <<>> /\ Word.form = form

Toggles == ~PastDashes \/ parse.globals.lasttog
LastArg ==
    /\ Reading("last") /\ Toggles
    /\ parse' = [Past EXCEPT !.lists[1].last = ~@]
    /\ UNCHANGED argv
Long ==
    /\ Reading("long") /\ ~PastDashes
    /\ parse' = LongOption(Past, Word)
    /\ UNCHANGED argv
Cluster ==
    /\ Reading("short") /\ ~PastDashes
    /\ parse' = ShortOptions(Past, Word)
    /\ UNCHANGED argv
Value ==
    /\ \/ Reading("plain")
       \/ (Reading("long") \/ Reading("short")) /\ PastDashes
       \/ Reading("last") /\ ~Toggles
    /\ parse' = Plain(Past, Word)
    /\ UNCHANGED argv

\* The end of a list.  do_env_args frees pointers into the string it split,
\* which malloc did not return: what the program does then is undefined.
EndList ==
    /\ Listing /\ Head(parse.lists).words = <<>>
    /\ \/ parse' = [parse EXCEPT !.lists = Tail(@)]
       \/ /\ Head(parse.lists).from = "env" /\ parse.split
          /\ parse' = [parse EXCEPT !.status = "undefined"]
    /\ UNCHANGED argv

CheckMand(p) ==
    \A i \in Entries: (Grid[i].kind = "mand" \/ Grid[i].needed) => i \in p.used
CheckOpt(p) == ~Pending(p)
CheckXor(p) ==
    \A i \in Entries: Grid[i].kind = "xor" => ({i - 1} \union Linked(i - 1)) \intersect p.used # {}

\* After the last word; a refused command line ends the program.
Finish ==
    /\ parse.status = "list" /\ parse.lists = <<>>
    /\ parse' = [parse EXCEPT !.status =
                   IF parse.okay /\ CheckMand(parse) /\ CheckOpt(parse) /\ CheckXor(parse)
                   THEN "accepted" ELSE "error"]
    /\ UNCHANGED argv

ArgvProcess == LastArg \/ Long \/ Cluster \/ Value \/ EndList \/ Finish

ArgvWasUsed(letter) == Short(letter) \intersect parse.used # {}

=============================================================================
