----------------------------- MODULE LibraryCalls -----------------------------
(***************************************************************************)
(* The calls of the program into the library (malloc.c), from a process    *)
(* that may fork: the way into a call with its schedule of heap checks,    *)
(* the calls themselves, the messages they log, and the process's end.     *)
(* The threads and signals of one process are ThreadGate's, and the chunk  *)
(* layer is ChunkHeap's: here it hands out pointers nobody has, or fails.  *)
(***************************************************************************)
EXTENDS LogFile, FiniteSets, Functions

CONSTANTS
  Pids,          \* processes; the first one is running, the others fork off
  FirstPid,
  Programs,      \* what may run: its DMALLOC_OPTIONS (env), the
                 \* calls it makes, option strings for dmalloc_debug_setup
                 \* (options), flags for dmalloc_debug (flagsets), positive
                 \* sizes it asks for (sizes), files and lines it calls from
                 \* (places), a bound on the calls of its processes (steps)
  Pointers,      \* of the heap
  NULL,
  FREED_POINTER_DELAY

NoFile == "nofile"
NoPlace == [file |-> NoFile, line |-> 0]
NoStart == [file |-> NoFile, line |-> 0, iter |-> 0, size |-> 0]

(* _dmalloc_start_break reads one kind of start and clears the others.     *)
StartRead(start) ==
  /\ start = [file |-> start.file, line |-> start.line, iter |-> start.iter, size |-> start.size]
  /\ start.line \in Nat /\ start.iter \in Nat /\ start.size \in Nat
  /\ start.file = NoFile => start.line = 0
  /\ start.file # NoFile => start.iter = 0 /\ start.size = 0
  /\ start.iter = 0 \/ start.size = 0

ASSUME CallAssumption ==
  /\ FirstPid \in Pids /\ Pids \subseteq Nat \ {NoPid}
  /\ NULL \notin Pointers /\ IsFiniteSet(Pointers)
  /\ \A prog \in Programs : \A set \in prog.options \cup {prog.env} :
       set.interval \in Nat /\ StartRead(set.start)
  /\ \A prog \in Programs : prog.sizes \subseteq Nat \ {0} /\ prog.steps \in Nat

VARIABLES program, \* the one of Programs that runs
          lib,     \* what each process remembers
          opens,   \* the open files of the system: a name and an offset
          files,   \* the lines of each log file
          steps    \* bound: the calls so far

vars == <<program, lib, opens, files, steps>>

Unused == [state |-> "none", size |-> 0, iter |-> 0]
NoCall == [may |-> FALSE, checked |-> FALSE, since |-> "none", told |-> 0]

(* The last five are history: what the process said since the log was last *)
(* set up, the open file it was born with, what it asked for, how the last *)
(* call went, and what it owns.                                            *)
Process(env) ==
  [logpath |-> LogStart.logpath, fd |-> LogStart.fd, current |-> LogStart.current,
   alive |-> TRUE, up |-> FALSE, flags |-> {}, interval |-> 0,
   iter |-> 0, start |-> NoStart, addr |-> NULL, seen |-> 0, addr_c |-> 0,
   warned |-> FALSE, slots |-> [p \in Pointers |-> Unused], total |-> 0,
   mark |-> 0,
   sent |-> <<>>, inherited |-> Closed,
   asked |-> [set |-> env, flags |-> {}, first |-> TRUE, calls |-> 0,
              reached |-> FALSE, touched |-> FALSE],
   last |-> NoCall,
   mine |-> [p \in Pointers |-> [size |-> 0, new |-> FALSE]]]

Init ==
  /\ program \in Programs
  /\ lib = [p \in Pids |-> [Process(program.env) EXCEPT !.alive = p = FirstPid]]
  /\ opens = <<>>
  /\ files = [f \in Files(Pids) |-> <<>>]
  /\ steps = 0

View(p) == [pid |-> p, me |-> lib[p], opens |-> opens, files |-> files]

-----------------------------------------------------------------------------
(* Messages and errors. *)

Sent(v, kind) ==
  IF v.me.logpath = NoPath THEN v
  ELSE [v EXCEPT !.me.sent = Append(@, [by |-> v.pid, kind |-> kind])]
Speak(v, kind) == Sent(Vmessage(v, kind), kind)

Die(v) == [v EXCEPT !.me.alive = FALSE, !.me.fd = Closed]

Abort(v) == IF "error-abort" \in v.me.flags THEN Die(v) ELSE v
DmallocError(v) == Abort(Speak(v, "error"))

Trans(v) == IF "log-trans" \in v.me.flags THEN Speak(v, "trans") ELSE v

SeenOften(v) ==
  IF v.me.seen > 0 /\ v.me.addr_c >= v.me.seen THEN DmallocError(v) ELSE v
CheckPnt(v, pnt) ==
  IF v.me.addr = NULL \/ pnt # v.me.addr THEN v
  ELSE SeenOften(Speak([v EXCEPT !.me.addr_c = @ + 1], "found"))

-----------------------------------------------------------------------------
(* Settings and startup. *)

ProcessEnviron(v, set, first) ==
  LET later == set.start.iter > 0 \/ set.start.size > 0
      me == [v.me EXCEPT
               !.flags = IF later THEN set.flags \ {"check-heap"} ELSE set.flags,
               !.logpath = set.logpath, !.interval = set.interval,
               !.start = set.start, !.addr = set.addr, !.seen = set.seen]
      reset == [set |-> set, flags |-> set.flags, first |-> first, calls |-> 0,
                reached |-> FALSE, touched |-> FALSE]
  IN [ReopenLog([v EXCEPT !.me = me]) EXCEPT
        !.me.sent = <<>>, !.me.asked = reset, !.me.last = NoCall]

DmallocStartup(v, set) ==
  LET waits == set.start # NoStart \/ set.interval > 0
  IN IF v.me.up THEN v
     ELSE [ProcessEnviron(v, set, TRUE) EXCEPT
             !.me.up = TRUE,
             !.me.flags = IF waits THEN @ \ {"check-heap"} ELSE @]

AtStart(start, place) ==
  /\ start.file # NoFile
  /\ place.file = start.file
  /\ place.line # 0
  /\ start.line \in {0, place.line}

Begin(me) == [me EXCEPT !.start = NoStart, !.flags = @ \cup {"check-heap"}]

CountDown(me) ==
  IF me.start.iter = 1 THEN Begin(me) ELSE [me EXCEPT !.start.iter = @ - 1]

\* Mutant: the flag is not taken away again between two checks.
EveryNthStays(me) ==
  [me EXCEPT !.flags = IF me.iter % me.interval = 0 THEN @ \cup {"check-heap"} ELSE @]

EveryNth(me) ==
  [me EXCEPT !.flags = IF me.iter % me.interval = 0 THEN @ \cup {"check-heap"}
                       ELSE @ \ {"check-heap"}]

(* The chain of dmalloc_in that turns check-heap on and off.  The start    *)
(* size is compared the way the code does it: with one above what has been *)
(* allocated so far the checks begin at once.                              *)
Schedule(me, place) ==
  IF "check-heap" \notin me.flags /\ AtStart(me.start, place) THEN Begin(me)
  ELSE IF me.start.iter > 0 THEN CountDown(me)
  ELSE IF me.start.size > 0 /\ me.start.size >= me.total THEN Begin(me)
  ELSE IF me.interval > 0 THEN EveryNth(me)
  ELSE me

Entered(me, place, may) ==
  [me EXCEPT !.last = [NoCall EXCEPT !.may = may,
                                     !.checked = may /\ "check-heap" \in me.flags],
             !.asked.calls = @ + 1,
             !.asked.reached = @ \/ AtStart(me.asked.set.start, place)]
DmallocIn(v, place, may) ==
  LET up == DmallocStartup(v, program.env)
      me == Schedule([up.me EXCEPT !.iter = @ + 1], place)
  IN [up EXCEPT !.me = Entered(me, place, may)]

-----------------------------------------------------------------------------
(* The chunk layer: which pointer it hands out, and what a call leaves.    *)

Fresh(me, pnt) ==
  /\ pnt # NULL
  /\ \/ me.slots[pnt].state = "none"
     \/ /\ me.slots[pnt].state = "freed"
        /\ me.slots[pnt].iter + FREED_POINTER_DELAY <= me.iter
Used(me, pnt) == pnt # NULL /\ me.slots[pnt].state = "used"

(* A malloc that fails has logged an error. *)
ChunkMalloc(v, size, new) ==
  IF new = NULL THEN DmallocError(v)
  ELSE Trans([v EXCEPT
         !.me.slots[new] = [state |-> "used", size |-> size, iter |-> v.me.iter],
         !.me.total = @ + size])

ChunkFree(v, pnt) ==
  IF pnt = NULL THEN Speak(v, "free(0)")
  ELSE IF ~Used(v.me, pnt) THEN DmallocError(v)
  ELSE Trans([v EXCEPT !.me.slots[pnt].state = "freed",
                       !.me.slots[pnt].iter = v.me.iter])

(* In place, or to another chunk; a failed malloc leaves the old chunk. *)
ChunkRealloc(v, pnt, size, new) ==
  IF ~Used(v.me, pnt) THEN DmallocError(v)
  ELSE IF new = pnt
       THEN Trans([v EXCEPT !.me.slots[pnt].size = size,
                            !.me.slots[pnt].iter = v.me.iter,
                            !.me.total = @ + size])
  ELSE IF new = NULL THEN ChunkMalloc(v, size, NULL)
  ELSE Trans(ChunkFree(ChunkMalloc(v, size, new), pnt))

-----------------------------------------------------------------------------
(* History: what the program owns, going by the answers it got. *)

Owns(v, pnt, size) ==
  IF pnt = NULL THEN v ELSE [v EXCEPT !.me.mine[pnt] = [size |-> size, new |-> TRUE]]
Gives(v, pnt) ==
  IF pnt = NULL THEN v ELSE [v EXCEPT !.me.mine[pnt] = [size |-> 0, new |-> FALSE]]

-----------------------------------------------------------------------------
(* The calls.  A call of a dead process does nothing; of a call the        *)
(* library stops the process in, the rest does not happen.                 *)

Then(v, Rest(_)) == IF v.me.alive THEN Rest(v) ELSE v

(* The functions that print an error and exit when memory runs out. *)
Xalloc(v, xalloc, new) == IF xalloc /\ new = NULL THEN Die(v) ELSE v

WarnMemalign(v, alignment) ==
  IF alignment \in {"none", "block"} \/ v.me.warned THEN v
  ELSE [Speak(v, "warning") EXCEPT !.me.warned = TRUE]

Allocate(in, size, xalloc, choice) ==
  LET new == IF Fresh(in.me, choice) THEN choice ELSE NULL
      Check(w) == CheckPnt(w, new)
      Back(w) == Xalloc(Owns(w, new, size), xalloc, new)
  IN Then(Then(ChunkMalloc(in, size, new), Check), Back)
DmallocMalloc(v, place, size, alignment, xalloc, choice) ==
  Allocate(WarnMemalign(DmallocIn(v, place, TRUE), alignment), size, xalloc, choice)

Release(in, pnt) ==
  LET Free(w) == ChunkFree(w, pnt)
      Back(w) == IF Used(in.me, pnt) THEN Gives(w, pnt) ELSE w
  IN Then(Then(CheckPnt(in, pnt), Free), Back)
DmallocFree(v, place, pnt) == Release(DmallocIn(v, place, TRUE), pnt)

(* The pointer a realloc comes back with. *)
Resized(me, old, size, choice) ==
  IF \/ old = NULL /\ Fresh(me, choice)
     \/ size > 0 /\ Used(me, old) /\ (choice = old \/ Fresh(me, choice))
  THEN choice ELSE NULL

Resize(in, old, size, xalloc, choice) ==
  LET new == Resized(in.me, old, size, choice)
      Work(w) == IF old = NULL THEN ChunkMalloc(w, size, new)
                 ELSE IF size = 0 THEN ChunkFree(w, old)
                 ELSE ChunkRealloc(w, old, size, new)
      Check(w) == IF new # NULL THEN CheckPnt(w, new) ELSE w
      given == Used(in.me, old) /\ (new # NULL \/ size = 0)
      Back(w) == Xalloc(Owns(IF given THEN Gives(w, old) ELSE w, new, size), xalloc, new)
  IN Then(Then(Then(CheckPnt(in, old), Work), Check), Back)
DmallocRealloc(v, place, old, size, xalloc, choice) ==
  Resize(DmallocIn(v, place, TRUE), old, size, xalloc, choice)

(* With check-funcs the string is looked at in a call of its own, which    *)
(* counts but does not check the heap; the string is a good one.           *)
DmallocStrndup(v, place, size, xalloc, choice) ==
  LET looked == IF "check-funcs" \in v.me.flags THEN Trans(DmallocIn(v, place, FALSE)) ELSE v
  IN DmallocMalloc(looked, place, size, "none", xalloc, choice)

(* Mutant: a pointer handed out in the very call of the mark is counted. *)
ChangedFrom(me, mark) ==
  {p \in Pointers : Used(me, p) /\ me.slots[p].iter >= mark}

(* What _dmalloc_chunk_count_changed and _dmalloc_chunk_log_changed find   *)
(* when asked for the pointers that are not freed.                         *)
Changed(me, mark) ==
  {p \in Pointers : Used(me, p) /\ me.slots[p].iter > mark}

Told(me, mark) ==
  SumFunctionOnSet([p \in Pointers |-> me.slots[p].size], Changed(me, mark))

SayTelling(v) == IF "log-trans" \in v.me.flags THEN v ELSE Speak(v, "telling")
Tell(v, since, mark) ==
  [SayTelling(DmallocIn(v, NoPlace, TRUE)) EXCEPT
     !.me.last.since = since, !.me.last.told = Told(v.me, mark)]

(* A line for each pointer that is listed. *)
DumpChanged(v, mark) ==
  LET lines == Cardinality(Changed(v.me, mark))
      said[n \in 0 .. lines] ==
        IF n = 0 THEN Speak(v, "dump") ELSE Speak(said[n - 1], "listed")
  IN said[lines]

(* dmalloc_verify, dmalloc_verify_pnt and the pointer of dmalloc_examine:  *)
(* a pointer that must be the start of a block, and one that need not be.  *)
Judge(v, pnt, exact) == IF Used(v.me, pnt) \/ ~exact THEN v ELSE DmallocError(v)
Look(v, place, pnt, may, exact) == Judge(Trans(DmallocIn(v, place, may)), pnt, exact)

DmallocDebugSetup(v, set) ==
  IF ~v.me.up THEN DmallocStartup(v, set)
  ELSE ProcessEnviron(DmallocIn(v, NoPlace, FALSE), set, FALSE)

DmallocDebug(v, flags) ==
  [DmallocStartup(v, program.env) EXCEPT
     !.me.flags = flags, !.me.last = NoCall,
     !.me.asked.flags = flags, !.me.asked.touched = TRUE]

DmallocMark(v) ==
  LET up == DmallocStartup(v, program.env)
  IN [up EXCEPT !.me.mark = up.me.iter, !.me.last = NoCall,
                !.me.mine = [p \in Pointers |-> [up.me.mine[p] EXCEPT !.new = FALSE]]]

(* dmalloc_shutdown opens the log before anything is said. *)
DmallocShutdown(v) ==
  LET open == OpenLog(v)
      Stats(w) == IF "log-stats" \in w.me.flags THEN Speak(w, "stats") ELSE w
      Unfreed(w) == IF "log-nonfree" \in w.me.flags THEN DumpChanged(w, 0) ELSE w
  IN Speak(Unfreed(Stats(open)), "ending")

-----------------------------------------------------------------------------
(* The steps: a call by a process that is running. *)

Step(p, v) ==
  /\ lib' = [lib EXCEPT ![p] = v.me]
  /\ opens' = v.opens
  /\ files' = v.files
  /\ steps' = steps + 1
  /\ UNCHANGED program

Calls(p, call) == lib[p].alive /\ steps < program.steps /\ call \in program.calls

Malloc(p) == Calls(p, "malloc") /\
  \E place \in program.places, size \in program.sizes, xalloc \in BOOLEAN,
     choice \in Pointers \cup {NULL} :
       Step(p, DmallocMalloc(View(p), place, size, "none", xalloc, choice))
Memalign(p) == Calls(p, "memalign") /\
  \E size \in program.sizes, align \in {"block", "odd"}, choice \in Pointers \cup {NULL} :
    Step(p, DmallocMalloc(View(p), NoPlace, size, align, FALSE, choice))
Realloc(p) == Calls(p, "realloc") /\
  \E place \in program.places, old \in Pointers \cup {NULL},
     size \in program.sizes \cup {0}, xalloc \in BOOLEAN,
     choice \in Pointers \cup {NULL} :
       Step(p, DmallocRealloc(View(p), place, old, size, xalloc, choice))
Free(p) == Calls(p, "free") /\
  \E place \in program.places, pnt \in Pointers \cup {NULL} :
    Step(p, DmallocFree(View(p), place, pnt))
Strndup(p) == Calls(p, "strndup") /\
  \E size \in program.sizes, choice \in Pointers \cup {NULL} :
    Step(p, DmallocStrndup(View(p), NoPlace, size, FALSE, choice))
VerifyHeap(p) == Calls(p, "verify heap") /\ Step(p, DmallocIn(View(p), NoPlace, FALSE))
VerifyPnt(p) == Calls(p, "verify") /\ \E place \in program.places, pnt \in Pointers, exact \in BOOLEAN :
  Step(p, Look(View(p), place, pnt, FALSE, exact))
Examine(p) == Calls(p, "examine") /\ \E pnt \in Pointers :
  Step(p, Look(View(p), NoPlace, pnt, TRUE, TRUE))
CountChanged(p) == Calls(p, "count") /\ Step(p, Tell(View(p), "mark", lib[p].mark))
LogUnfreed(p) == Calls(p, "log unfreed") /\
  Step(p, DumpChanged(Tell(View(p), "start", 0), 0))
LogChanged(p) == Calls(p, "log changed") /\
  Step(p, DumpChanged(DmallocIn(View(p), NoPlace, TRUE), lib[p].mark))
LogStats(p) == Calls(p, "log stats") /\ Step(p, Speak(DmallocIn(View(p), NoPlace, TRUE), "stats"))
Debug(p) == Calls(p, "debug") /\ \E flags \in program.flagsets : Step(p, DmallocDebug(View(p), flags))
DebugSetup(p) == Calls(p, "setup") /\ \E set \in program.options : Step(p, DmallocDebugSetup(View(p), set))
(* Also dmalloc_debug_current, dmalloc_memory_allocated, dmalloc_page_size. *)
Mark(p) == Calls(p, "mark") /\ Step(p, DmallocMark(View(p)))
Message(p) == Calls(p, "message") /\ Step(p, Speak(View(p), "user"))

(* atexit() has dmalloc_shutdown run for a process that has started up. *)
Exit(p) == Calls(p, "exit") /\
  Step(p, Die(IF lib[p].up THEN DmallocShutdown(View(p)) ELSE View(p)))

(* fork(): the child has what the parent has, open files included. *)
Fork(p) == Calls(p, "fork") /\ \E child \in Pids :
  /\ lib[child] = [Process(program.env) EXCEPT !.alive = FALSE]
  /\ Step(child, [View(p) EXCEPT !.me.sent = <<>>, !.me.inherited = lib[p].fd])

Next == \E p \in Pids :
  \/ Malloc(p) \/ Memalign(p) \/ Realloc(p) \/ Free(p) \/ Strndup(p)
  \/ VerifyHeap(p) \/ VerifyPnt(p) \/ Examine(p)
  \/ CountChanged(p) \/ LogUnfreed(p) \/ LogChanged(p) \/ LogStats(p)
  \/ Debug(p) \/ DebugSetup(p) \/ Mark(p) \/ Message(p)
  \/ Exit(p) \/ Fork(p)

Spec == Init /\ [][Next]_vars

-----------------------------------------------------------------------------
(* Properties. *)

(* Whether the file of p is what was asked for: its messages, in order,    *)
(* behind a header.                                                        *)
OwnLog(p) ==
  LET text == files[FileOf(lib[p].logpath, p)]
  IN lib[p].sent # <<>> => text[1].kind = "header" /\ Said(text) = lib[p].sent

(* The process has opened its file again since a child of it got hold of   *)
(* it: what the child writes last is put over what the process wrote.      *)
OpenedSince(p) ==
  LET file == FileOf(lib[p].logpath, p)
  IN \E q \in Pids :
       LET held == lib[q].inherited
       IN /\ held # Closed
          /\ opens[held].file = file
          /\ \E d \in held + 1 .. Len(opens) : opens[d].file = file

(* The log of error.c: with a %p in the path, the file named after a       *)
(* process holds what that process said since the log was last set up, in  *)
(* order and behind a header, and nothing another process said, forked     *)
(* children and set-ups in between notwithstanding; unless the process     *)
(* opened it again while a child of it still had it.                       *)
LogTrue ==
  \A p \in Pids : lib[p].logpath \in PidPaths /\ ~OpenedSince(p) => OwnLog(p)

(* settings.dist:250 of LOG_REOPEN: "you want the separate forked programs *)
(* to have separate logs.  NOTE: This only works if the %p string is in    *)
(* the logfile name otherwise the log might reopen and clobber the         *)
(* existing log".                                                          *)
LogsSeparate ==
  \A p \in Pids : lib[p].logpath \in PidPaths => OwnLog(p)

(* What the settings ask for, counted from when they were made. *)
Due(me) ==
  LET a == me.asked
      start == a.set.start
      started == IF start.iter > 0 THEN a.calls >= start.iter
                 ELSE start.file # NoFile => a.reached
  IN IF a.set.interval > 0
     THEN started /\ \/ me.iter % a.set.interval = 0
                     \/ (start.iter > 0 /\ a.calls = start.iter)
     ELSE started /\ (start = NoStart => "check-heap" \in a.flags)

(* Settings for which the code does what the manual says: no start size;   *)
(* no interval with a start file; no check-heap with a start file in       *)
(* dmalloc_debug_setup; and no dmalloc_debug in between when there is a    *)
(* start.                                                                  *)
Sound(a) ==
  /\ a.set.start.size = 0
  /\ a.set.start.file # NoFile =>
       a.set.interval = 0 /\ (a.first \/ "check-heap" \notin a.set.flags)
  /\ a.set.start # NoStart => ~a.touched

(* The schedule of dmalloc_in: a call that may check the heap checks it    *)
(* when the settings ask for it and only then: from the start on, at the   *)
(* multiples of the interval.                                              *)
ChecksAsAsked ==
  \A p \in Pids : lib[p].last.may /\ Sound(lib[p].asked) =>
                    (lib[p].last.checked <=> Due(lib[p]))

(* dmalloc_count_changed and dmalloc_log_unfreed: what is told to be       *)
(* unfreed since a mark is what the program got since then and still has,  *)
(* going by the answers of the calls it made.                              *)
LeaksTold ==
  \A p \in Pids :
    LET last == lib[p].last
        Counts(q) == last.since = "start" \/ lib[p].mine[q].new
        owned == {q \in Pointers : Counts(q)}
    IN last.since # "none" =>
         last.told = SumFunctionOnSet([q \in Pointers |-> lib[p].mine[q].size], owned)
=============================================================================
