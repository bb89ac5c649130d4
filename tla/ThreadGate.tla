------------------------------ MODULE ThreadGate ------------------------------
(***************************************************************************)
(* The gate in front of the library (malloc.c): dmalloc_startup,           *)
(* dmalloc_in, dmalloc_out, dmalloc_shutdown, dmalloc_debug_setup and the  *)
(* signal handler, run by the threads of the program.                      *)
(*                                                                         *)
(* One step is one access to the variables the threads share.  A frame is  *)
(* a thread at work in the library; the signal handler is a frame of its   *)
(* own, on top of whatever its thread was doing.                           *)
(***************************************************************************)
EXTENDS Integers

CONSTANTS
  Threads, Main,       \* Main is the thread that runs main()
  LOCK_THREADS,        \* built as libdmallocth
  THREAD_INIT_LOCK,    \* calls before the first lock when the mutex is made
  LockOn,              \* lock-on of DMALLOC_OPTIONS, 0 when it is not given
  SetupLockOns,        \* lock-on values the program gives dmalloc_debug_setup
  CatchSignals,        \* the catch-signals token is enabled
  Alone,               \* calls Main completes before it starts a thread
  Kinds,               \* calls the program makes
  HeapMayFail,         \* the system may refuse memory at startup
  MaxSignals           \* bound on the signals sent

ASSUME GateAssumption ==
  /\ Main \in Threads
  /\ LOCK_THREADS \in BOOLEAN /\ CatchSignals \in BOOLEAN /\ HeapMayFail \in BOOLEAN
  /\ THREAD_INIT_LOCK \in Nat /\ LockOn \in Nat /\ SetupLockOns \subseteq Nat
  /\ Alone \in Nat \ {0}
  /\ Kinds \subseteq {"call", "peek", "setup", "shutdown"}
  /\ MaxSignals \in Nat
  /\ ~LOCK_THREADS => Threads = {Main} /\ LockOn = 0 /\ SetupLockOns \subseteq {0}

VARIABLES
  enabled_b, some_up_b,
  started,             \* the heap and the chunk layer are up
  options,             \* the option string in force
  thread_lock_c,
  mutex,               \* dmalloc_mutex: the thread that holds it, if any
  ready,               \* pthread_mutex_init has been called
  in_alloc_b, do_shutdown_b,
  aborting_b,          \* _dmalloc_aborting_b: the program has ended
  at, kind,            \* where each frame is, and in which call
  done,                \* calls Main has completed, counted up to Alone
  signals,             \* signals sent
  reported,            \* a shutdown has written its report
  turned_away          \* history: calls of a thread a startup sent back, up to 2

vars == <<enabled_b, some_up_b, started, options, thread_lock_c, mutex, ready, in_alloc_b,
          do_shutdown_b, aborting_b, at, kind, done, signals, reported, turned_away>>
up == <<enabled_b, some_up_b, started, options>>
lock == <<thread_lock_c, mutex, ready>>
flags == <<in_alloc_b, do_shutdown_b, aborting_b>>
history == <<done, signals, reported, turned_away>>

Frames == Threads \X {"main", "handler"}
MainFrame == <<Main, "main">>
Starting == {"startup", "some_up", "claim", "environ", "heap", "enable"}
Labels == Starting \cup {"idle", "enter", "lock", "acquire", "test", "set", "inside", "out",
                         "unlock", "count", "after", "caught", "quit"}

-----------------------------------------------------------------------------
Init ==
  /\ enabled_b = FALSE /\ some_up_b = FALSE /\ started = FALSE /\ options = "none"
  /\ thread_lock_c = 0 /\ mutex = {} /\ ready = FALSE
  /\ in_alloc_b = FALSE /\ do_shutdown_b = FALSE /\ aborting_b = FALSE
  /\ at = [f \in Frames |-> "idle"] /\ kind = [f \in Frames |-> "call"]
  /\ done = 0 /\ signals = 0 /\ reported = FALSE /\ turned_away = [t \in Threads |-> 0]

(* A thread whose handler runs is stopped below it. *)
Runs(f) == ~aborting_b /\ (f[2] = "main" => at[<<f[1], "handler">>] = "idle")
At(f, label) == Runs(f) /\ at[f] = label
Goto(f, label) == at' = [at EXCEPT ![f] = label]

(* The program calls the library: an allocation call, one that only looks   *)
(* at a variable (dmalloc_mark and its like), dmalloc_debug_setup, or       *)
(* dmalloc_shutdown, which starts nothing up and which exit() and           *)
(* __fini_dmalloc call too, whether the library was used or not.            *)
Begin(t, k) ==
  LET f == <<t, "main">> IN
  /\ At(f, "idle")
  /\ t # Main => done = Alone
  /\ kind' = [kind EXCEPT ![f] = k]
  /\ Goto(f, IF k = "shutdown" THEN "quit" ELSE "enter")
  /\ UNCHANGED <<up, lock, flags, history>>

(* dmalloc_in goes on to the lock; the calls that only look are done, and   *)
(* so is dmalloc_debug_setup after a startup.                               *)
GoesOn(f) == Goto(f, IF kind[f] = "call" THEN "lock" ELSE "idle")

Enter(f) ==
  /\ At(f, "enter")
  /\ IF enabled_b THEN Goto(f, IF kind[f] = "peek" THEN "idle" ELSE "lock")
                  ELSE Goto(f, "startup")
  /\ UNCHANGED <<up, lock, flags, kind, history>>

-----------------------------------------------------------------------------
(* dmalloc_startup, which nothing locks. *)

(* "if (enabled_b) return 0": the caller's own call goes back undone. *)
TurnAway(f) ==
  /\ Goto(f, "idle")
  /\ turned_away' = IF kind[f] = "call" /\ turned_away[f[1]] < 2
                    THEN [turned_away EXCEPT ![f[1]] = @ + 1] ELSE turned_away

(* Mutant: some_up_b is taken for enabled_b. *)
StartupOnce(f) ==
  /\ At(f, "startup")
  /\ IF some_up_b THEN TurnAway(f) ELSE Goto(f, "some_up") /\ UNCHANGED turned_away
  /\ UNCHANGED <<up, lock, flags, kind, done, signals, reported>>

Startup(f) ==
  /\ At(f, "startup")
  /\ IF enabled_b THEN TurnAway(f) ELSE Goto(f, "some_up") /\ UNCHANGED turned_away
  /\ UNCHANGED <<up, lock, flags, kind, done, signals, reported>>

SomeUp(f) ==
  /\ At(f, "some_up")
  /\ Goto(f, IF some_up_b THEN "enable" ELSE "claim")
  /\ UNCHANGED <<up, lock, flags, kind, history>>

Claim(f) ==
  /\ At(f, "claim")
  /\ some_up_b' = TRUE
  /\ Goto(f, "environ")
  /\ UNCHANGED <<enabled_b, started, options, lock, flags, kind, history>>

(* process_environ *)
Environ(f) ==
  /\ At(f, "environ")
  /\ IF kind[f] = "setup" THEN /\ options' = "setup"
                               /\ thread_lock_c' \in SetupLockOns
                          ELSE /\ options' = "environment"
                               /\ thread_lock_c' = LockOn
  /\ Goto(f, "heap")
  /\ UNCHANGED <<enabled_b, some_up_b, started, mutex, ready, flags, kind, history>>

HeapStartup(f) ==
  /\ At(f, "heap")
  /\ \/ started' = TRUE /\ Goto(f, "enable")
     \/ HeapMayFail /\ Goto(f, "idle") /\ UNCHANGED started
  /\ UNCHANGED <<enabled_b, some_up_b, options, lock, flags, kind, history>>

Enable(f) ==
  /\ At(f, "enable")
  /\ enabled_b' = (enabled_b \/ ~(LOCK_THREADS /\ thread_lock_c > 0))
  /\ GoesOn(f)
  /\ UNCHANGED <<some_up_b, started, options, lock, flags, kind, history>>

-----------------------------------------------------------------------------
(* lock_thread *)

Lock(f) ==
  /\ At(f, "lock")
  /\ Goto(f, IF LOCK_THREADS /\ thread_lock_c = 0 THEN "acquire" ELSE "test")
  /\ UNCHANGED <<up, lock, flags, kind, history>>

(* Mutant: the mutex is tried and not waited for, nor in_alloc_b looked at. *)
AcquireBlind(f) ==
  /\ At(f, "acquire")
  /\ mutex' = {f[1]}
  /\ Goto(f, "set")
  /\ UNCHANGED <<up, thread_lock_c, ready, flags, kind, history>>

(* pthread_mutex_lock waits, for the thread that holds it too.  A mutex     *)
(* that was never made is taken like a free one.                            *)
Acquire(f) ==
  /\ At(f, "acquire")
  /\ mutex = {}
  /\ mutex' = {f[1]}
  /\ Goto(f, "test")
  /\ UNCHANGED <<up, thread_lock_c, ready, flags, kind, history>>

(* Already inside is ERROR_IN_TWICE, and the end, for dmalloc_in;           *)
(* dmalloc_shutdown just leaves.                                            *)
Test(f) ==
  /\ At(f, "test")
  /\ \/ ~in_alloc_b /\ Goto(f, "set") /\ UNCHANGED aborting_b
     \/ in_alloc_b /\ kind[f] = "shutdown" /\ Goto(f, "unlock") /\ UNCHANGED aborting_b
     \/ in_alloc_b /\ kind[f] # "shutdown" /\ aborting_b' = TRUE /\ UNCHANGED at
  /\ UNCHANGED <<up, lock, in_alloc_b, do_shutdown_b, kind, history>>

Set(f) ==
  /\ At(f, "set")
  /\ in_alloc_b' = TRUE
  /\ Goto(f, "inside")
  /\ UNCHANGED <<up, lock, do_shutdown_b, aborting_b, kind, history>>

(* Mutant: a shutdown waits, with the mutex, until the other threads are out. *)
InsideWaits(f) ==
  /\ At(f, "inside")
  /\ options' = IF kind[f] = "setup" THEN "setup" ELSE options
  /\ IF kind[f] = "shutdown" /\ \E g \in Frames \ {f} : at[g] # "idle"
     THEN UNCHANGED <<at, reported>>
     ELSE Goto(f, "out") /\ reported' = (reported \/ kind[f] = "shutdown")
  /\ UNCHANGED <<enabled_b, some_up_b, started, lock, flags, kind, done, signals, turned_away>>

(* Mutant: the options are only read at the startup. *)
InsideKeeps(f) ==
  /\ At(f, "inside")
  /\ reported' = (reported \/ kind[f] = "shutdown")
  /\ Goto(f, "out")
  /\ UNCHANGED <<up, lock, flags, kind, done, signals, turned_away>>

(* The call itself: the work of the chunk layer, process_environ again, or  *)
(* the final report.                                                        *)
Inside(f) ==
  /\ At(f, "inside")
  /\ IF kind[f] = "setup" THEN options' = "setup" /\ thread_lock_c' \in SetupLockOns
                          ELSE UNCHANGED <<options, thread_lock_c>>
  /\ reported' = (reported \/ kind[f] = "shutdown")
  /\ Goto(f, "out")
  /\ UNCHANGED <<enabled_b, some_up_b, started, mutex, ready, flags, kind, done, signals,
                 turned_away>>

-----------------------------------------------------------------------------
(* dmalloc_out and unlock_thread *)

(* Mutant: dmalloc_shutdown leaves the flag set. *)
OutForgets(f) ==
  /\ At(f, "out")
  /\ in_alloc_b' = (kind[f] = "shutdown")
  /\ Goto(f, "unlock")
  /\ UNCHANGED <<up, lock, do_shutdown_b, aborting_b, kind, history>>

Out(f) ==
  /\ At(f, "out")
  /\ in_alloc_b' = FALSE
  /\ Goto(f, "unlock")
  /\ UNCHANGED <<up, lock, do_shutdown_b, aborting_b, kind, history>>

Unlock(f) ==
  /\ At(f, "unlock")
  /\ Goto(f, IF LOCK_THREADS /\ thread_lock_c > 0 THEN "count" ELSE "after")
  /\ mutex' = IF LOCK_THREADS /\ thread_lock_c = 0 THEN {} ELSE mutex
  /\ UNCHANGED <<up, thread_lock_c, ready, flags, kind, history>>

(* Mutant: the mutex is to be made one call earlier. *)
CountEarly(f) ==
  /\ At(f, "count")
  /\ thread_lock_c' = thread_lock_c - 1
  /\ IF thread_lock_c' = THREAD_INIT_LOCK + 1 THEN mutex' = {} /\ ready' = TRUE
                                              ELSE UNCHANGED <<mutex, ready>>
  /\ Goto(f, "after")
  /\ UNCHANGED <<up, flags, kind, history>>

Count(f) ==
  /\ At(f, "count")
  /\ thread_lock_c' = thread_lock_c - 1
  /\ IF thread_lock_c' = THREAD_INIT_LOCK THEN mutex' = {} /\ ready' = TRUE
                                          ELSE UNCHANGED <<mutex, ready>>
  /\ Goto(f, "after")
  /\ UNCHANGED <<up, flags, kind, history>>

(* Mutant: a shutdown that is due is not looked for. *)
AfterForgets(f) ==
  /\ At(f, "after")
  /\ done' = IF f = MainFrame /\ kind[f] = "call" /\ done < Alone THEN done + 1 ELSE done
  /\ Goto(f, "idle")
  /\ UNCHANGED <<up, lock, flags, kind, signals, reported, turned_away>>

(* do_shutdown_b is never taken back: from then on every call ends so. *)
After(f) ==
  /\ At(f, "after")
  /\ done' = IF f = MainFrame /\ kind[f] = "call" /\ done < Alone THEN done + 1 ELSE done
  /\ IF do_shutdown_b /\ kind[f] # "shutdown"
     THEN Goto(f, "quit") /\ kind' = [kind EXCEPT ![f] = "shutdown"]
     ELSE Goto(f, "idle") /\ UNCHANGED kind
  /\ UNCHANGED <<up, lock, flags, signals, reported, turned_away>>

(* The first half of dmalloc_shutdown. *)
Quit(f) ==
  /\ At(f, "quit")
  /\ Goto(f, IF in_alloc_b THEN "idle" ELSE "lock")
  /\ UNCHANGED <<up, lock, flags, kind, history>>

-----------------------------------------------------------------------------
(* Signals. *)

Signal(t) ==
  LET f == <<t, "handler">> IN
  /\ CatchSignals /\ enabled_b
  /\ signals < MaxSignals
  /\ t # Main => done = Alone
  /\ At(f, "idle")
  /\ Goto(f, "caught")
  /\ kind' = [kind EXCEPT ![f] = "shutdown"]
  /\ signals' = signals + 1
  /\ UNCHANGED <<up, lock, flags, done, reported, turned_away>>

(* signal_handler *)
Caught(f) ==
  /\ At(f, "caught")
  /\ do_shutdown_b' = (do_shutdown_b \/ in_alloc_b)
  /\ Goto(f, IF in_alloc_b THEN "idle" ELSE "quit")
  /\ UNCHANGED <<up, lock, in_alloc_b, aborting_b, kind, history>>

-----------------------------------------------------------------------------
Work(f) ==
  \/ Enter(f) \/ Startup(f) \/ SomeUp(f) \/ Claim(f) \/ Environ(f) \/ HeapStartup(f)
  \/ Enable(f)
  \/ Lock(f) \/ Acquire(f) \/ Test(f) \/ Set(f) \/ Inside(f)
  \/ Out(f) \/ Unlock(f) \/ Count(f) \/ After(f) \/ Quit(f) \/ Caught(f)

Next == \/ \E f \in Frames : Work(f)
        \/ \E t \in Threads, k \in Kinds : Begin(t, k)
        \/ \E t \in Threads : Signal(t)

Spec == Init /\ [][Next]_vars

(* Every thread keeps running while it is in the library; none has to call, *)
(* no signal has to come.                                                   *)
FairSpec == Spec /\ \A f \in Frames : WF_vars(Work(f))

-----------------------------------------------------------------------------
TypeOK ==
  /\ enabled_b \in BOOLEAN /\ some_up_b \in BOOLEAN /\ started \in BOOLEAN
  /\ options \in {"none", "environment", "setup"}
  /\ thread_lock_c \in Int /\ mutex \in SUBSET Threads /\ ready \in BOOLEAN
  /\ in_alloc_b \in BOOLEAN /\ do_shutdown_b \in BOOLEAN /\ aborting_b \in BOOLEAN
  /\ at \in [Frames -> Labels]
  /\ kind \in [Frames -> {"call", "peek", "setup", "shutdown"}]
  /\ done \in 0 .. Alone /\ signals \in 0 .. MaxSignals
  /\ reported \in BOOLEAN /\ turned_away \in [Threads -> 0 .. 2]

(* in_alloc_b, "can't be here twice": one frame at a time is inside.        *)
Busy == {f \in Frames : at[f] \in {"inside", "out"}}
MutualExclusion == \A f, g \in Busy : f = g

(* ERROR_IN_TWICE never ends a program that waited for its lock-on calls    *)
(* before it started a thread.                                              *)
NeverTwice == ~aborting_b

(* The flag the signal handler and dmalloc_shutdown go by says what it      *)
(* means, in whatever order threads and signals come.                       *)
InAllocTrue == in_alloc_b <=> Busy # {}

(* The inductive invariant behind the three above: Main is alone while the  *)
(* lock-on calls are counted down, and from then on who is past the lock    *)
(* holds the mutex.                                                         *)
Locked == {"test", "set", "inside", "out", "unlock"}
MainAlone == done < Alone => \A f \in Frames : f[1] # Main => at[f] = "idle"
HandlerLate == \A f \in Frames : f[2] = "handler" /\ at[f] # "idle" => enabled_b
StartsOnce ==
  /\ ~some_up_b => /\ done = 0 /\ thread_lock_c = 0
                   /\ \A f \in Frames : \/ at[f] \in {"idle", "enter", "startup", "some_up", "claim"}
                                        \/ kind[f] = "shutdown"
  /\ enabled_b => some_up_b /\ thread_lock_c = 0
  /\ \A f \in Frames : at[f] \in Starting \cup {"enter"} => kind[f] # "shutdown"
  /\ \A f \in Frames : at[f] = "claim" => ~some_up_b
  /\ \A f \in Frames : at[f] \in {"environ", "heap"} =>
       f = MainFrame /\ done = 0 /\ ~enabled_b
  /\ \A f \in Frames : at[f] = "environ" => thread_lock_c = 0
  /\ \A f \in Frames : kind[f] = "setup" /\ at[f] \in {"caught", "quit", "lock", "acquire"} \cup Locked =>
       enabled_b
CountsDown ==
  /\ thread_lock_c >= 0
  /\ thread_lock_c > 0 => /\ thread_lock_c + done <= LockOn
                          /\ at[MainFrame] = "after" => thread_lock_c + done < LockOn
  /\ \A f \in Frames : at[f] = "count" => thread_lock_c > 0
LockHeld ==
  /\ \A f, g \in Frames : at[f] \in Locked /\ at[g] \in Locked => f = g
  /\ thread_lock_c = 0 => \A f \in Frames : at[f] \in Locked => mutex = {f[1]}
GInv == /\ TypeOK /\ MainAlone /\ HandlerLate /\ StartsOnce /\ CountsDown /\ LockHeld
        /\ InAllocTrue /\ NeverTwice

(* "we want to force the initialization to happen beforehand": the          *)
(* countdown of lock-on makes the mutex before anybody locks it.  The one   *)
(* exception of the code is a shutdown that comes before the library was    *)
(* started, when nothing was counted yet: it locks a mutex that             *)
(* pthread_mutex_init has not seen.                                         *)
MadeInTime ==
  \A f \in Frames : at[f] = "acquire" => ready \/ (kind[f] = "shutdown" /\ ~some_up_b)

(* Threads that are in dmalloc_startup together when lock-on has run out    *)
(* may have a call sent back undone (malloc(3) gives NULL), but each thread *)
(* loses one at most, and never all of them do.                             *)
OneCallLost ==
  /\ \A t \in Threads : turned_away[t] <= 1
  /\ \E t \in Threads : turned_away[t] = 0

(* What dmalloc_debug_setup was given is in force when it comes back, after *)
(* a startup of its own or of an earlier call.  (A library whose heap could *)
(* not be started takes no options any more.)                               *)
SetupTakes ==
  [][\A f \in Frames : kind[f] = "setup" /\ at[f] # "idle" /\ at'[f] = "idle"
                       => options' = "setup" \/ ~started]_vars

(* The mutex is not kept: whoever holds it, it becomes free. *)
LockReleased == (mutex # {}) ~> (mutex = {})

(* A shutdown that was asked for writes its report, also when a signal asks *)
(* for it at a bad moment.                                                  *)
ShutdownReports == (\E f \in Frames : kind[f] = "shutdown" /\ at[f] # "idle") ~> reported
=============================================================================
