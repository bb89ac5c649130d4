# A TLA+ verification of dmalloc

dmalloc replaces the allocation calls of a C program by ones that check their
arguments, surround memory with fence posts, delay the reuse of freed memory
and report what was not freed.  This directory holds TLA+ models of the library
and of its command line utility, TLC configurations that check them on small
instances, and proofs that TLAPS checks for every size.

## 1. The system

The program calls `dmalloc_malloc`, `dmalloc_free`, ... (`malloc.c`).  Each
call passes the entry gate (`dmalloc_in`), which may have the heap checked,
works on the heap through the chunk layer (`chunk.c`), and leaves
(`dmalloc_out`).  The chunk layer takes blocks from the system through
`heap.c`, keeps the memory table (`dmalloc_tab.c`) up to date, and reports
through `error.c` into a log that a forked child shares with its parent.  The
macros of `dmalloc.h` also send string functions through `arg_check.c`.
Option strings (`env.c`) set the flags, the schedule and the lock-on count at
startup or in `dmalloc_debug_setup`; the `dmalloc` utility (`dmalloc.c`, on the
parser `dmalloc_argv.c`) writes these strings into the shell's environment.

| Component | State | Operations | What makes it correct | Here |
|---|---|---|---|---|
| Chunk layer, `chunk.c` | address skip list, size skip list, wait list, free slots per height, counters, the flags of each slot | malloc, realloc, free, heap and pointer check, count changed, log changed | each chunk on one list, no overlap, delayed reuse, true counters, no false alarm, no missed damage | `ChunkHeap`, `Allocator`, `ChunkHeapRefinement`, `SkipList`, `AddressLists`, `ChunkStore` |
| Entry gate, `malloc.c` 187-722, 1660-1700 | `enabled_b`, `some_up_b`, `thread_lock_c`, the mutex, `in_alloc_b`, `do_shutdown_b` | startup, in, out, lock, unlock, signal handler, shutdown, debug setup | one thread inside, mutex made before use, truthful flag, nothing forgotten | `ThreadGate` |
| User calls, `malloc.c` 480-566, 750-2156 | schedule of heap checks, call counter, marks | malloc to strndup, free, verify, examine, mark, debug, setup, messages, log calls, exit | heap checked as often as asked, leaks told, calls returned | `LibraryCalls` |
| Memory table, `dmalloc_tab.c` | entries, insert counter, other pointers | insert, delete, log info (sort, print, unsort) | each location has one entry, found by its probe, that tells the truth | `MemTable` |
| Heap extension, `heap.c` | low and high ends of the heap | extend with realignment | blocks aligned, apart and in bounds | `HeapExtend` |
| Option strings, `env.c`, `debug_tok.h` | none of its own | read, write | what is written is read back | `EnvOptions` |
| Log file, `error.c` | descriptor, pid, path | message, open, reopen after fork, error, die | no message lost or put elsewhere | `LogFile` |
| Argument checks, `arg_check.c` | place of `strtok` | one wrapper per libc function | no byte touched that was not asked for | `ArgCheck`, `LibcCalls` |
| Utility, `dmalloc.c` | the shell's environment, `.dmallocrc` | one run per command line | settings a run is not about survive it | `DmallocUtility` |
| Argument parser, `dmalloc_argv.c` | queue of options that wait for a value | parse a command line | each word used once, errors told | `ArgvParser` |
| Tests, `dmalloc_t.c`, `dmalloc_fc_t.c` | - | the tests of the wrappers | they succeed | `LibcTests` |
| Random levels, `dmalloc_rand.c` | seed | next | any level | a choice in `SkipList` |
| Portability, `compat.c` | - | string functions | as libc's | in `ArgCheck`, `EnvOptions` |
| `protect.c`, `dmallocc.cc`, `return.h` | - | - | - | not modelled |

The behaviours that are hard: one malloc is a sequence of loops (drain the wait
list, look for a free chunk, extend the heap, cut a block, insert each piece)
each of which may run out of memory and leave what went before; a cut may need
a block for its own slots in the middle; freed memory travels through two lists
by a clock of library calls; settings change between (and, since
`dmalloc_debug` takes no lock, within) calls; others move the system's break
between two extensions; the startup runs before there is a mutex, which is
itself created by a countdown of calls; signals may arrive between any two
accesses to the gate's flags; the table is put out of order for a report and
restored; a fork gives two processes one file offset; four ways of scheduling
heap checks share one flag; and an option string is read and written anew by
each run of the utility.

## 2. The modules

| Module | What it is | Extends or composes |
|---|---|---|
| `ChunkHeap` | `chunk.c` with the calls that reach it | - |
| `Allocator` | the promise: owned ranges are apart, freed ones rest | - |
| `ChunkHeapRefinement` | the mapping from one to the other | `ChunkHeap`, instance of `Allocator` |
| `SkipList` | the lists of `chunk.c`, pointer by pointer | - |
| `HeapExtend` | `heap.c` over a break that others move | - |
| `AddressLists` | skip lists on top of the heap | `SkipList`, `HeapExtend`, instance of `ChunkStore` |
| `ChunkStore` | the store of chunks `ChunkHeap` takes the lists for | - |
| `ThreadGate` | the gate of `malloc.c`, one shared access per step | - |
| `MemTable` | `dmalloc_tab.c` | - |
| `LogFile` | `error.c` | - |
| `LibraryCalls` | the calls of `malloc.c` from a process and its child | `LogFile` |
| `ArgCheck` | `arg_check.c` and what the libc functions touch | - |
| `LibcCalls`, `LibcTests` | arbitrary callers; the repository's tests | `ArgCheck` |
| `EnvOptions` | `env.c` | - |
| `ArgvParser` | `argv_process` | - |
| `DmallocUtility` | `dmalloc.c` run from a shell | `EnvOptions`, instance of `ArgvParser` |
| `*_proofs` | the theorems | the module they name |
| `SumTheorems` | lemmas about sums over finite sets, for the proofs about counters | - |
| `MC*` | small values for the constants | the module they name |

Definitions that comments name as mutants are the deliberately wrong variants
of `mutants` in `PROJECT.json`; each makes the property it is paired with fail.

### ChunkHeap: `chunk.c` behind the calls of `malloc.c`

A slot (`skip_alloc_t`) is named by its `sa_mem`, since a chunk is cut once and
keeps address and total size.  `slot[a]` has `sa_flags`, `sa_total_size`,
`sa_user_size`, `sa_use_iter` and `sa_seen_c`; `used` is the address list,
`free_list[n]` the chunks of size n in the order of the size list, `wait_list`
the delay queue, `entry_free` the unused slots per height.

A malloc runs through `pc`: `reuse` (drain, take a free chunk, or grow the
heap), `carve` (cut the block piece by piece), `retake` (the second search), or
`insert` (a run of whole blocks), and `replace` (a copying realloc frees the old
pointer).  `AllocFails` is the exit at any point where the system refuses
memory or the heap is at `HeapEnd`.  The operations are `MallocCall`,
`FreeCall`, `ReallocCall`, `VerifyHeap`, `VerifyPointer`, `DebugCall`, and
`CountChanged` as an operator.  `damage` says which bytes the library has
written were overwritten by the program (`Scribble`).  `DebugCall` may come in
the middle of a call; all others wait for the gate.

### SkipList, HeapExtend, AddressLists: the lists and the heap below

`ChunkHeap` takes the lists to be sets and sequences.  `SkipList` has them as
they are: slots with `sa_next_p` arrays of their own height, two list heads,
the update array a search fills and insert and remove use, and one field,
`sa_next_p[0]`, that the address list, the size list, the wait list and the free
slots all link through.  `HeapExtend` is `_dmalloc_heap_alloc` in its steps: one
extension, the look at where it landed, a second one for the difference; the
system may refuse, and others may take memory between the two.  `AddressLists`
runs requests over both: from the size list, else a block that is cut, else a
block for slots and then the block; frees put chunks on the wait list and
drains put them on the size list.  It is shown to implement `ChunkStore`, whose
three variables are `used`, `wait_list` and `free_list` of `ChunkHeap`.

### ThreadGate: the gate of `malloc.c`

A step is one access to shared variables, by a frame: a thread's own code or
the signal handler on top of it.  `at` is the place in `dmalloc_startup`,
`lock_thread`, `dmalloc_in`, the body, `dmalloc_out`, `unlock_thread` and
`dmalloc_shutdown`; `kind` the sort of call (`peek` stands for the calls that
only run the startup, as `dmalloc_mark`).  `pthread_mutex_lock` is external: a
plain mutex that its own holder waits for as well.  `thread_lock_c--` is one
step; the program is assumed to start its second thread (`Alone`) as the
documentation asks, after the lock-on calls.  The startup is not under the lock:
`Enter`, `Startup`, `SomeUp` and `Claim` read and write its two flags one by one,
and a shutdown, which may be the first call of all, does not run it.

### LibraryCalls and LogFile: calls, schedule, log, fork

`lib[p]` is what process `p` remembers: flags, the four settings of the check
schedule with `_dmalloc_iter_c` and the interval counter, log path and
descriptor, the pid it last looked at, and the pointers it has with the call
they were made at.  Every call goes in through `DmallocIn`: the startup, the
schedule, the heap check.  One step is one call, since the log and the schedule
are only touched inside the lock.  `opens`
has the open files of the system, each with one offset, shared after a fork;
`files` the lines of each file, where an open empties and a write at an offset
overwrites.  The chunk layer is abstract: it hands out a pointer nobody has, or
fails.  Left out: the copy `print-messages` sends to stderr, the forked core
dump of `error-dump`, the tracking callback, `dmalloc_get_stats` and
`dmalloc_strerror` (they change nothing), the length of lines (each has
length 1), and a process id that comes around again.

### MemTable: `dmalloc_tab.c`

`tab` holds the entries and, behind them, `mt_other_pointers`; `Insert` and
`Delete` are the two functions on it; `LogInfo` sorts (any permutation into
descending order, which leaves ties open as quicksort does) and adds up the
`Total of` line; `Advance`, `Swap` and `LogDone` are the loop that unsorts.  The
calls are as `chunk.c` makes them: malloc inserts, an in-place realloc deletes
and inserts, free deletes.  `made` is the history the entries are compared with.

### ArgCheck, LibcCalls, LibcTests: the wrappers

Memory is a function from addresses to bytes: blocks with user space, fence
posts and blanked bytes, and strings above the heap.  Each wrapper has its
checks in the order of the code (which pointer, how many bytes, exact or up to
the end of a string), `CheckUsedSlot` is the part of `chunk.c` that judges
them, and each wrapped function has the addresses it reads, which often end
before those the wrapper asks for, and the bytes it writes (of `compat.c`, else
of the C standard).  `LibcCalls` makes any call with any arguments; `LibcTests`
replays `dmalloc_fc_t.c` and `check_arg_check`
of `dmalloc_t.c` statement by statement, blocks of 5 and 10 bytes standing for
what these allocate, new memory holding anything.

### EnvOptions, ArgvParser, DmallocUtility: the utility

A string is the sequence of its parts between commas; a text is what the code
tells apart in it (leading letters, `0x`, digits, what follows, what stands
behind a colon), and conversions between numbers and text are modelled with
their widths.  A word of a command line is how it starts and what it says, and
the parser's state is the queue of options that wait for a value, with words
that come from the command line, from the environment variable of the parser
and from `--argv-file`.  `DmallocUtility` types a command line (`Invoke`), has it
parsed (`Parse`) and runs the rest of `main` (`Main`): the string is read, changed
as the options say, written and given to the shell, which takes it if it is in
its syntax (the runs have a Bourne shell; what csh makes of an `unset` is not
its concern).  What is printed for people is left out.

## 3. Model checking

The distinct states are those of a complete search.

| Run | Shows | States |
|---|---|---|
| `HeapLists` | lists, flags, free space and counters agree after each step of each call, the invariant of calls `CInv` (with the inductive `IInv` in it) holds, freed memory rests `FREED_POINTER_DELAY` calls, `count_changed` counts every list, calls return | 210,628 |
| `HeapDamage` | fence posts and valloc, blanking and never-reuse switched at any moment, freed memory written over, resizing in place: an intact chunk passes every check, damage is wiped out by nothing but a realloc in place, and a heap check fails exactly when a chunk within its reach was written over | 920,096 |
| `HeapLimits` | a memory limit and fence posts switched at any moment: given memory stays less than a block over the limit, pointers fit by the slot's own flags, a double free is told as such, and the abstract allocator is implemented | 132,668 |
| `AddressLists` | a heap that grows up or down from an unaligned break while others move it: each slot on one list, levels agree, searches find what is there, blocks apart, aligned and in bounds, slots with memory of their own in them, and the store of chunks is implemented | 93,083 |
| `GateLocks` | three threads, lock-on 3, shutdowns: who is past the lock holds the mutex, it is made in time but for a shutdown before the startup, threads that meet in the startup lose one call each at most, the mutex always becomes free | 122,186 |
| `GateSignals` | unthreaded library, signals at every point, a heap that may fail: true flag, a shutdown that was asked for is reported, setup options are in force on return | 7,379 |
| `TableTrue` | inserts, deletes, overflow, reports with ties: the table stays probeable and true, the total is complete, the unsort loop ends | 312,391 |
| `Calls` | six programs from a process and its child: a log named by the pid holds what its process said and nothing else (section 5 has the exception), the heap is checked by the calls the settings ask for, the leaks told are those there are | 471,991 |
| `LibcCalls` | any two calls of the wrappers: a call that reaches outside of a block or into a damaged one is reported, but for three the property names, and none is blamed that was given room to the last byte it could come to | 102,839 |
| `LibcTests` | the two test programs run to their end and succeed, whatever new memory holds | 1,816 |
| `Utility` | no word of a command line is lost or read twice; settings a run is not about survive the writing and reading of the string | 404,567 |
| `LogClobbered` | the log a parent opened again is overwritten by its child (section 5) | - |

Bounds, and why they are enough.

- `HeapLists`, `HeapDamage`, `HeapLimits`: blocks of 4 bytes, pieces of 1 or 2;
  larger requests take one or two blocks, so all three kinds of chunk occur, and
  an admin block has three slots, so a run of pieces needs a new one in the
  middle of a cut.  `HeapEnd` leaves four or five blocks, which makes each
  allocation of a block fail somewhere.  `MaxIter` 5 to 6 calls with a delay of 2
  lets a chunk be allocated, freed, rest, be reused and freed again.
  `MaxScribbles` is 1: checks look at one chunk at a time.
- `AddressLists`: addresses 1 to 20, a break at 4 or 18 moving either way, others
  taking 3 bytes (up) or 2 (down) between any two extensions; slots of two
  heights under a head of four levels, 4 per admin block and 8 in all.
- `GateLocks`: `Alone` is lock-on, so that the second and third thread come right
  after the countdown, when no call has enabled the library yet and all three may
  meet in `dmalloc_startup`.  `GateSignals`: `MaxSignals` 2 allows a signal
  during a shutdown that a signal caused.
- `TableTrue`: 4 entries for 4 locations, of which three hash to the last entry
  (collision and wrap-around) and the fourth distinct one overflows; 5 calls fill
  it, overflow, and leave one for a report or a delete.
- `Calls`: two processes; 7 calls for the two programs about logs (messages on
  both sides of a fork, a setup, an exit), 6 for leaks, 5 for the address, 6 and
  5 for the schedule, which is more than twice the interval and past each start.
- `LibcCalls`: a fenced and an unfenced block with a byte to spare, strings that
  end inside, at the last byte or not at all, digits and letters of both cases
  (functions that stop early do and do not), lengths from 0 to past the block; the
  second call sees the damage of the first.
- `Utility`: all lines of two words and the interesting ones of three, four
  strings to start from, three flag bits, 16-bit longs, one run: the string it
  prints is read back, so that longer sessions add strings and not cases.

`CHECK_DEADLOCK` is off where the program of the model stops: after `MaxCalls`,
at the end of memory, or at its exit (`TableTrue`, `AddressLists`, `Utility`,
`LibcCalls`, `LibcTests`, `Calls`, `LogClobbered`).

Fairness.  `ChunkHeap` and `MemTable` ask weak fairness only of the steps of a
call that has started: it is straight code with no wait.  `ThreadGate` asks it
of each frame inside the library, which is a running thread; no call and no
signal is ever forced to come, and a frame that waits for the mutex is not
enabled and gains nothing from it.  `LibcTests` asks it of the next statement of
a sequential program.

## 4. Proofs

Eight modules hold theorems and lemmas; every one is checked to its last step.

| Module | Theorems | About |
|---|---|---|
| `ChunkHeap_proofs` | `Invariance`, `Safety`, `ReuseDelay`, `CallInvariance`, `RoomForUser`, `LimitKept`, `IntactAccepted`, `EvidenceKept` | lists and disjointness of the chunk layer, and what its calls keep of each chunk |
| `ChunkHeapLists_proofs` | `NothingIsLost`, `ChangesCounted`, `UsedOnce`, `VerifyReports`, `SecondFreeTold`, `CountersTrue` | its lists over sequences of calls, and its counters |
| `ChunkHeapRefinement_proofs` | `Implements` | it refines `Allocator` |
| `ThreadGate_proofs` | `GateInvariance`, `Exclusion`, `FlagTrue`, `MutexMade`, `LittleLost`, `SignalsNest`, `SetupInForce` | the gate, with locks and without |
| `AddressLists_proofs` | `Invariance`, `SlotsOnOneList`, `LevelsAgree`, `SearchesFind`, `MemoryOnce`, `HeapInvariance`, `Alignment`, `ListsAreStore` | the linked lists, the memory from the system below them, and that they refine `ChunkStore` |
| `MemTable_proofs` | `TableTypes`, `PlacesKept`, `EntriesFound`, `EntriesShow`, `TotalTold` | the memory table |
| `LibraryCalls_proofs` | `CallInvariance`, `HeapCheckedAsAsked`, `LeaksAreTold` | the schedule of heap checks and the leaks told |
| `SumTheorems` | (lemmas) | sums over finite sets |

### Chunk layer

For every heap size, geometry, delay, limit and choice of settings, from
`GeometryAssumption` (each divided request has a piece size, block and fences
positive) and `ParameterAssumption`, which TLC evaluates in each run.

- `Invariance`: `Spec => []IInv`.  `ListsAgree` is not inductive by itself: a cut in
  progress must know that its remainder is apart from every chunk and within the
  heap (`CutApart`, `CallOK`); `FreeRested` ties the free list to the clock;
  `OldHeld` keeps the old chunk of a copying realloc alive until `Replace`.  One
  lemma per action.  `Safety` (`ListsAgree /\ NoOverlap`) and `ReuseDelay`
  (`ReuseDelayed`, from `FreeRested`) follow.
- `CallInvariance`: `Spec => []CInv`, which `HeapLists` checks.  It adds to `IInv`
  what a call in progress knows of its request (`CallFits`: room for the user's
  bytes and both fence posts, the limit of `get_memory`), that blocks lie on
  block boundaries (`OnBlocks`), that the marks of use keep within the clock
  (`SeenInTime`: each call marks a chunk at most twice), that damage is to bytes
  the library looks at (`DamageWatched`), and `UserFits`.  `UserFits` needs all of
  them: the flags a chunk was handed out with stay in its slot while the settings
  change, and an in-place realloc keeps the offset it finds there.  `RoomForUser`
  and `LimitKept` are read off it.
- `IntactAccepted`: `NoFalseAlarm`, under `SizesAllowed` (no request above
  `LARGEST_ALLOCATION`, or every realloc copies), since an in-place realloc does
  not look at the limit (section 5): each test of `check_used_slot` is answered
  by a part of `CInv`.
- `EvidenceKept`: `DamageKept`, for all settings: a free that meets damage is
  refused (`DamagedFails`), and a chunk whose evidence is gone has the number of
  the very realloc that resized it in place (`Resized`), which `SeenInTime` tells
  from any earlier call.
- `NothingIsLost`, `ChangesCounted`, `UsedOnce`, `VerifyReports`,
  `SecondFreeTold`: `NothingLost`, `FreedCounted`, `NeverReuse`, `VerifyTrue`
  and `DoubleFreeReported`.  They come from `ListInv`, inductive with `CInv`:
  while NEVER_REUSE is never set every free chunk is listed or waits; after the
  drain of a malloc nothing falls due until it comes back, so a piece that was
  cut is still there for the second look (`PieceReady`); a chunk that waits was
  in use and, but for valloc, has kept its pointer (`WaitingMarked`); where
  NEVER_REUSE is always set only fresh chunks are on the free list
  (`FreshListed`).  Hypotheses: `ChangesCounted` has no setting with NEVER_REUSE,
  `UsedOnce` has it in every setting, `VerifyReports` has `SizesAllowed`,
  `SecondFreeTold` has no valloc; without them the properties fail, as section 5
  tells.  `VerifyReports` is an equivalence: a chunk that was written over is
  met, whichever list it is on, and fails (`DamagedFails`,
  `FreePasses`), and what was left alone passes (`IntactPasses`, and `AdminPlain`
  for the library's own blocks).  Its condition that something is on the size
  lists is the code's, and the second divergence of section 5.
- `CountersTrue`: `Spec => []Counters`.  The counters are equal to sums over the
  chunks on the lists (`Accounting`); to bound them by the blocks, the bytes
  given, free and still being cut together fit the user's blocks
  (`SpaceWithin`), each block is the user's or an admin block (`BlocksCounted`),
  and the maxima dominate current values and one another (`MaximaReached`).
- `Implements`: `Spec => ImplementsAllocator`.  `Init` maps to the abstract
  `Init`; each step maps to an abstract one or to a stutter: the loops of a
  malloc stutter, its last step allocates, `Replace` frees.  It takes `CInv` and
  `ListInv`, the size a call was made with (`SizeAsked`), and the bound on the
  addresses (`HeapWithin`).

`SumTheorems` is what makes the counters provable.  A sum over a set is a
recursive function over its subsets, chosen arbitrarily; `AddsExists` and
`AddsAgree` show that it exists and does not depend on the choice, by the
smallest subset that would be a counterexample (`SmallestSubset`), and the rest
follows: sums gain, lose and change by an element, are monotonic, split over a
union and are carried over by a bijection.

### Gate

For any number of threads.  With locks, under `LockOnObserved`: a locking build,
lock-on calls over before the second thread starts (`LockOn <= Alone`), and no
setup call that sets lock-on again.

- `GateInvariance`: `Spec => []GInv`.  The argument: until `enabled_b` is set
  and the count is zero only Main is there (`MainAlone`, `CountsDown`,
  `StartsOnce`, `HandlerLate`); from then on whoever is past the lock holds the
  mutex, alone (`LockHeld`).
- `Exclusion`, `FlagTrue`: one frame inside at a time and `ERROR_IN_TWICE`
  unreachable; `InAllocTrue`.
- `MutexMade`: `MadeInTime`, with lock-on above `THREAD_INIT_LOCK` and no setup
  calls: once lock-on is read, more calls than that are still to come or the
  mutex is made (`ToBeMade`).  A shutdown before the startup is excepted, since
  it does lock a mutex that was not made (section 5).
- `LittleLost`: `OneCallLost`, without that hypothesis, for every lock-on and any
  moment threads are started at.  A thread is sent back only by a library that is
  enabled, which it never finds disabled again; and the thread that enabled it
  was not sent back before (`LostInv`).

Without locks, for any number of signals at any point:

- `SignalsNest`: `InAllocTrue`, one frame inside, `ERROR_IN_TWICE` unreachable.
  There is no mutex to argue from; instead a handler runs to its end before the
  code it interrupted goes on, and the flag it reads is that code's own
  (`HandlerNests`).  `StartsAlone` and `OptionsTaken` follow the startup.
- `SetupInForce`: `SetupTakes`, the options given are in force on return.

### Lists and heap

For every number of slots, levels, heights, block size, request, end of memory and
interference, from `SkipListAssumption`, `HeapExtendAssumption` and
`SizesAssumption` (a request is for part of a block, up to half, or for whole ones).

- `HeapInvariance`: `HeapSpec => []HInv`: the blocks handed out are apart and
  within `_dmalloc_heap_low` and `_dmalloc_heap_high`, which never lose a block.
  What an extension in progress holds is apart from all blocks and on the
  system's side of the break; that is the strengthening.
- `Alignment`: `Spec => []BlocksAligned`: where the break moves up, every block starts on a boundary
  (`BlocksAligned`).  For one that moves down they may not (section 5).
- `Invariance`: `Spec => []RInv`, one lemma per action.  The properties speak of
  the sequences one meets along a level, which no step can be argued about; the
  invariant gives each slot of a list a rank (the address, a place in the order of
  sizes, a place in the queue) and says of each link that it leads to the slot of
  the next higher rank that is tall enough, or ends (`Follows`, `Skip`, `Queue`).
  A search is a loop that ends because each step raises the rank or lowers the
  level (`SearchGoes`); it turns at each level at the last slot before what it
  looks for (`SearchTurns`), which is where `insert_slot` and `remove_slot` change
  links (`SkipInserted`, `SkipRemoved`).  The four kinds of list share the field
  `sa_next_p[0]` but no slot, so that a step on one leaves the links of the others
  (`SkipFramed`, `QueueFramed`).  For memory the invariant says that each slot and
  each piece still to be inserted lies in a block and apart from the others
  (`Housed`, `Pieced`), and that a block that came for slots in the middle of a cut
  is apart from all of these (`Spare`).
- `SlotsOnOneList`, `LevelsAgree`, `SearchesFind`, `MemoryOnce`: `OneListEach`,
  `ListsLevelled`, `SearchesTrue`, `BlocksSound`, read off the invariant: the walk
  along a level from its head is the row of its slots by rank (`WalkIsRow`).
  That the walk of as many steps as there are slots reaches the end is a count
  (`BegunEnds`).
- `ListsAreStore`: `Spec => ImplementsStore`, which is what lets `ChunkHeap` take
  the lists to be a set, a sequence and stacks by size.  The invariant only says that
  there are ranks; which ones they were before the step is what the refinement needs.
  A list has one sequence only, whatever the ranks (`ListedIsOne`), so the sequence
  before and the one after are compared by what the step does to the order: an
  insertion into the size list comes before all slots of its size and leaves the
  order of the others (`FreePushed`), a removal takes the first of its size
  (`FreePopped`), a free comes behind all that wait (`WaitingAppended`), and every
  other list is framed.  The slots of one size stand together (`AlikeTogether`).
  `DrainWaiting` is `Rest`, `Reuse` is `Reuse`, `FreePointer` is `Release`, an
  insertion is `Cut` or `Use` of memory apart from all that is stored (`NewChunk`,
  which adds to `RInv` that blocks end where the system's memory does:
  `WithinSystem`); all other steps, those of the heap, of others and of a failure in
  the middle among them, are stuttering steps.

### Memory table

For every size of the table, every hash and any set of places and pointers, from
`TableAssumption`.

- `TableTypes`: `Spec => []TypeOK`.
- `EntriesFound`: `Spec => []ProbeIntact`.  The invariant `PlacesKept` says that no
  two entries have a place or a home in common and that, on the probe from its
  hash to the home of an entry, every earlier step is the home of an entry too
  (`OnProbe`).  It speaks of homes and not of positions, so it survives the sort
  and each exchange of the unsort loop, which only permute the entries
  (`Reordered`); before the cursor each entry is at home again, and a full round
  of the cursor gives `Find` back.  The insert counter bounds the entries that
  are filled.
- `EntriesShow`, `TotalTold`: `EntriesTrue` and `TotalComplete`, under
  `PlacesKnown` (every caller has a file, and a line that fits an unsigned
  short), as in the run; section 5 says what happens otherwise.  The invariant
  `ShowInv` gives each place to the entry that speaks for it, or to the other
  pointers, and says that nothing was made at a place without an entry while
  there was room (`UnmadeUnlessFull`): an insert then starts an entry with
  nothing to catch up on, a delete finds enough to take off, and the total is
  complete although it leaves the other pointers out below
  `MEMORY_TABLE_SIZE` inserts.

### Calls of the program

For any set of programs, settings, pointers and processes, from `CallAssumption`
(intervals and starts are what `env.c` can read: a place, a count of calls or a
size, one of them; pointers are finitely many).

- `CallInvariance`: `Spec => []CallInv`.  The properties speak of the last call
  only; the invariant says what the calls before it have left.  `Scheduled`
  relates the static variables of `dmalloc_in` to the settings: until the start
  check-heap is off and the start that remains is the one set less the calls made
  since, from then on it is on, or the interval counter says when.  `Owned`
  relates each slot to what the program noted of the answers it got, and its call
  number to the mark, which is never above the count of calls; so what is new by
  the program's account is what `dmalloc_log_changed` counts from the mark.
- The messages, the log and the errors are between any two of these steps.  They
  leave both alone (`Spoke`, `Erred`): one lemma per function of `error.c`, the
  lines of a dump by induction over their number.
- `HeapCheckedAsAsked`: `ChecksAsAsked`.  `LeaksAreTold`: `LeaksTold`.

### Only model-checked

Liveness (`CallsReturn`, `LockReleased`, `ShutdownReports`, `LogReturns`,
`TestsSucceed`): the prover does not reach it.  `LogTrue`, which compares
selections from sequences, and `ArgCheck`, `EnvOptions`, `ArgvParser` and
`DmallocUtility`, which fold over sequences.

## 5. Where code and documentation differ

`LogClobbered` shows the deepest of these.  Forked programs are said to have
separate logs when the path has a `%p`, but a child that finds its pid changed
first writes a closing line to the descriptor it has from its parent.  When the
parent has opened its log again by then through `dmalloc_debug_setup`, which
empties the file, that line lands at the child's old offset, over what the parent
wrote (`error.c:356`, against `settings.dist:250-254`).  `LogTrue` holds where
this has not happened.

Six more contradict what a document promises.  The models have them, and the
property named with each says what holds instead.

- `dmalloc_verify(NULL)` is said to check the entire heap, and memory blanked at
  its free to be watched.  The pass over the heap goes from the used list to the
  size lists and ends when these are empty, before it comes to the wait list
  (`chunk.c:2176`, against `dmalloc.texi:1146-1147` and 1815-1819, and
  `chunk.c:2061`): what was freed last is not checked at all.  `VerifyTrue` says
  what a check does find.
- A pointer that is freed or reallocated and not the start of an allocation is
  said to be ERROR_NOT_START_BLOCK.  A realloc finds its chunk by a loose search
  and, when the new size fits, resizes it without looking at the pointer again
  (`chunk.c:2776`, against `dmalloc.texi:1705-1706`); it rewrites damaged fence
  posts unseen on the way.  `DamageKept` excepts this realloc.
- Lock-on is said to keep the library from locking its mutex until a number of
  calls has been made, and the mutex is to be initialised beforehand.
  `dmalloc_shutdown` runs no startup, so as the first call of a program it finds
  `thread_lock_c` 0 and locks a mutex that nobody made (`malloc.c:624`, against
  `dmalloc.texi:2937-2939` and `malloc.c:138-140`).  `MadeInTime` has this one
  exception.
- `-c` is said to clear all variables that are not set, and `-r` to remove all
  settings when a tag is used.  `main` has a branch that clears each setting but
  the memory limit, which goes from the old string into the new one
  (`dmalloc.c:1031`, against `dmalloc.c:160` and `dmalloc.texi:2951`, 3063-3065).
  `SettingsKept` asks that every other setting is cleared (`Spared`).
- The wrappers are said to verify that the buffers would not be overwritten by
  the function (`dmalloc.texi:1692-1694`).  That of `strncpy` asks for as many
  bytes as the source has up to its 0 (`arg_check.c:573`), and `strncpy` pads to
  its length: over the fence post of its block, unseen.  `ReportsTrue` excepts it
  (`unasked`).
- The error is "use of pointer would exceed allocation" (`error_val.h:102`).  A
  wrapper asks for all a function may come to, a string to its end or the length;
  `strncmp`, `memcmp`, `strchr`, `strcmp`, `atoi`, `memchr` and others stop at the
  first byte that decides, so a call that stays inside its allocation is blamed.
  `ReportsTrue` says that nothing beyond this is (`span`).

Others were met while modelling.  They are part of the models; the properties
name the case, or a run leaves its trigger out.

Chunk layer and heap:

- `dmalloc_count_changed` and `dmalloc_log_changed` end at an empty free list too,
  and never visit the wait list (`chunk.c:3187`).
- An in-place realloc takes sizes past `LARGEST_ALLOCATION` and the memory limit
  (`chunk.c:2822`).
- Never-reuse switched on late does not stop the reuse of chunks already freed
  (`chunk.c:1404`); `NeverReuse` is proved where the flag is set throughout.
- After a free the slot keeps FENCE but not VALLOC (`chunk.c:2633`): a second free
  of a fence-posted valloc pointer is "not found".
- A copying realloc whose free fails returns an error and keeps the new chunk.
- `random_level` may return the two largest levels (once in about 2^31 calls); a
  slot of the largest makes `remove_slot` read past the update array.
  `SkipListAssumption` excludes them.
- Where the heap grows down, a block that was realigned is off the boundary
  unless the remainder was half a block (`heap.c:205-220`).  `AddressLists` keeps
  the downward break on multiples of half a block, and `BlocksAligned` speaks of a
  break that moves up.

Gate and calls:

- `dmalloc_debug_setup` with `lockon=3` inside the lock makes `unlock_thread` count
  and not unlock (`malloc.c:289`).
- With lock-on 2 or less the mutex is never initialised (`malloc.c:212`).
- A signal between the lock and `in_alloc_b = 1` makes the handler lock the mutex
  of its own thread (`malloc.c:318`).  The locking run sends no signals.
- `dmalloc_shutdown` that meets another thread inside returns without its report
  (`malloc.c:619`).
- A call of a thread that finds the library disabled in `dmalloc_in` and enabled in
  `dmalloc_startup` is sent back undone (`malloc.c:339`), also in a program that
  observes lock-on; `OneCallLost` bounds the loss.
- A heap or chunk layer that does not come up leaves `some_up_b` set, and the next
  call enables the library all the same (`malloc.c:393`).  Both startups are
  `return 1` now (`heap.c:163`, `chunk.c:1902`); `GateSignals` lets them fail.
- `dmalloc_debug_setup` after a first call, while lock-on calls are counted,
  drops its options (`malloc.c:1673`).
- `ChecksAsAsked` leaves four kinds of settings out (`Sound`): the comparison with
  the start size is the wrong way around (`malloc.c:545`); interval checks begin before the start's file and line are reached; a start
  file given by `dmalloc_debug_setup` does not clear check-heap; and `dmalloc_debug`
  before a start is reached overrides it.  Calls that never check the heap use up
  multiples of the interval all the same.
- `cfree` is tracked as FREE, `addr_c` is not reset when another address is set,
  the known/unknown summary of log_changed is never printed, and a free that
  failed is still reported to the tracking function.

Table and log:

- The counter that closes the memory table counts inserts and not entries
  (`dmalloc_tab.c:662`), so locations that come back crowd it.
- A line above 65535 is cut to an unsigned short in the slot, so a delete misses
  the entry; an allocation without file is counted in a blank entry that the next
  location inherits (`dmalloc_tab.c:660`); and the report prints `log_n - 1` rows
  (`dmalloc_tab.c:768`, rows are not modelled).
- A path with `%d` is not opened again after a fork; the header is written twice
  when a process first looks at its pid in its shutdown; the borrow in
  `_dmalloc_ptimeval` is wrong.

Wrappers and their tests:

- `strncat` does not ask for the 0 its source ends with (`arg_check.c:498`), and
  nobody for the string `strtok(0L, ...)` goes on in; `strndup` of length 0
  demands a whole string.  `ReportsTrue` names the first two.
- The `strndup` part of `dmalloc_t.c` (1713-1765) is never compiled, and tests of
  `dmalloc_fc_t.c` overrun their block when check-fence is on.

Utility (`SettingsKept` and `WordsAccounted` name what they exclude):

- A start file with line 0 is read back as a number of calls; a comma in a log
  path splits the string; bits of a debug value that no token names are lost; a
  count needs an address; a negative lock-on is not written; `10K` is not scaled
  as `10k` is; an address without a count takes over the old one, with
  `-c` too (`Spared`).
- `argv_process` sizes its queue by the number of words, although a cluster of
  short options queues several; `do_env_args` frees the string its values point
  into; a negative number while `--argv-file` waits follows a null pointer; an
  `ARGV_BOOL_NEG` of a char is written as an int.

## 6. Not modelled

- `protect.c`: called from nowhere.  `dmallocc.cc`: `new` and `delete` forward to
  calls that are modelled.  `return.h`: assembler.
- The text of messages and reports (`display_pnt`, `log_error_info`,
  `expand_chars`, usage output, `value_to_string`) and `argv_cleanup`.
- The tracking callback, `dmalloc_get_stats`, `dmalloc_strerror`.
- The arithmetic of `dmalloc_rand.c` (any level may come), `vsnprintf`, `strsep`.
- `check_special`, the random and the interactive test of `dmalloc_t.c`: the first
  tests the chunk layer with what `ChunkHeap` allows in any order, the others make
  calls at random or by hand.
- The contents of user memory other than the bytes the library checks or the
  wrapped functions touch.
