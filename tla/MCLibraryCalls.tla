--------------------------- MODULE MCLibraryCalls ---------------------------
(* Instances of LibraryCalls: programs that log from a process and its     *)
(* child, that look for leaks, that have the heap checked on a schedule,   *)
(* and one that looks for an address.                                      *)
EXTENDS LibraryCalls

Set(path, flags, interval, start) ==
  [logpath |-> path, flags |-> flags, interval |-> interval, start |-> start,
   addr |-> NULL, seen |-> 0]
After(n) == [NoStart EXCEPT !.iter = n]
AtFile(line) == [NoStart EXCEPT !.file = "main.c", !.line = line]
Main(line) == [file |-> "main.c", line |-> line]

Program(env, calls, options, sizes, places, limit) ==
  [env |-> env, calls |-> calls, options |-> options, sizes |-> sizes,
   places |-> places, steps |-> limit, flagsets |-> {{}, {"check-heap"}}]

MCPrograms ==
  {Program(Set("log.%p", {"log-nonfree"}, 0, NoStart),
           {"message", "fork", "setup", "exit", "mark"},
           {Set("log.%p", {"log-stats"}, 0, NoStart), Set("log.%d", {}, 0, NoStart),
            Set("nodir/log", {}, 0, NoStart)}, {}, {}, 7),
   Program(Set("log", {"log-stats"}, 0, NoStart),
           {"message", "fork", "setup", "exit", "log stats"},
           {Set("log.%p", {}, 0, NoStart), Set("log", {}, 0, NoStart),
            Set(NoPath, {}, 0, NoStart)}, {}, {}, 7),
   Program(Set(NoPath, {"log-nonfree", "log-trans"}, 0, NoStart),
           {"malloc", "realloc", "free", "mark", "count", "log unfreed", "log changed"},
           {}, {1, 2}, {NoPlace}, 6),
   Program(Set(NoPath, {"check-heap", "check-funcs"}, 2, After(2)),
           {"free", "strndup", "verify heap", "examine", "debug", "setup"},
           {Set(NoPath, {"check-heap"}, 3, NoStart), Set(NoPath, {}, 0, After(3))},
           {1}, {NoPlace}, 6),
   Program(Set(NoPath, {"check-heap"}, 0, AtFile(1)),
           {"free", "verify", "debug", "setup", "log stats"},
           {Set(NoPath, {}, 0, AtFile(0)), Set(NoPath, {"check-heap"}, 0, NoStart)},
           {1}, {NoPlace, Main(1), Main(2)}, 5),
   Program([Set("log.%p", {"error-abort"}, 0, NoStart) EXCEPT !.addr = "p", !.seen = 2],
           {"malloc", "memalign", "realloc", "free", "fork", "exit"}, {}, {1}, {NoPlace}, 5)}
=============================================================================
