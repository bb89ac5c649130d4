--------------------------- MODULE ThreadGate_proofs ---------------------------
(***************************************************************************)
(* Proof that the gate keeps its promise for every number of threads and   *)
(* every lock-on, provided the program stays single-threaded for lock-on   *)
(* calls.                                                                  *)
(***************************************************************************)
EXTENDS ThreadGate, TLAPS

(* The build has locks, lock-on has run out before a thread is started, and *)
(* dmalloc_debug_setup does not set it again.                               *)
LockOnObserved == LOCK_THREADS /\ LockOn <= Alone /\ SetupLockOns \subseteq {0}

(* As long as Main is alone and signals are not caught yet, only Main's own *)
(* frame is anywhere.                                                       *)
LEMMA MainOnly ==
  ASSUME GInv, done < Alone, ~enabled_b, NEW f \in Frames, at[f] # "idle"
  PROVE  f = MainFrame
<1>1. f[1] = Main
  BY DEF GInv, MainAlone
<1>2. f[2] = "main"
  BY DEF GInv, HandlerLate, Frames
<1> QED BY <1>1, <1>2 DEF Frames, MainFrame

(* While lock-on is counted down, Main is alone. *)
LEMMA CountingAlone ==
  ASSUME LockOnObserved, GInv, thread_lock_c > 0
  PROVE  ~enabled_b /\ done < Alone /\ \A f \in Frames : at[f] # "idle" => f = MainFrame
<1>1. ~enabled_b
  BY DEF GInv, StartsOnce
<1>2. done < Alone
  BY GateAssumption DEF LockOnObserved, GInv, TypeOK, CountsDown
<1> QED BY <1>1, <1>2, MainOnly

(* Before the library is up, and while it is started, Main is alone too. *)
LEMMA StartingAlone ==
  ASSUME GInv,
         ~some_up_b \/ \E g \in Frames : at[g] \in {"environ", "heap"}
  PROVE  ~enabled_b /\ done = 0 /\ \A f \in Frames : at[f] # "idle" => f = MainFrame
<1>1. ~enabled_b /\ done = 0
  BY DEF GInv, StartsOnce
<1>2. done < Alone
  BY <1>1, GateAssumption
<1> QED BY <1>1, <1>2, MainOnly

LEMMA MainFrameIsFrame == MainFrame \in Frames
BY GateAssumption DEF MainFrame, Frames

LEMMA GateTypes == TypeOK /\ [Next]_vars => TypeOK'
<1> SUFFICES ASSUME TypeOK, [Next]_vars PROVE TypeOK'
  OBVIOUS
<1>0. LockOn \in Int /\ \A c \in SetupLockOns : c \in Int
  BY GateAssumption
<1> USE GateAssumption DEF TypeOK, up, lock, flags, history, Labels, Starting, At, Goto
<1>1. ASSUME NEW f \in Frames, Work(f) PROVE TypeOK'
  <2>1. CASE Enter(f)
    BY <2>1 DEF Enter
  <2>2. CASE Startup(f)
    <3>1. turned_away' \in [Threads -> 0 .. 2]
      <4>1. f[1] \in Threads /\ turned_away[f[1]] \in 0 .. 2
        BY DEF Frames
      <4>2. \/ turned_away' = turned_away
            \/ turned_away[f[1]] < 2 /\ turned_away' = [turned_away EXCEPT ![f[1]] = @ + 1]
        BY <2>2 DEF Startup, TurnAway
      <4> QED BY <4>1, <4>2
    <3>2. at' \in [Frames -> Labels]
      BY <2>2 DEF Startup, TurnAway
    <3> QED BY <2>2, <3>1, <3>2 DEF Startup
  <2>17. CASE SomeUp(f)
    BY <2>17 DEF SomeUp
  <2>18. CASE Claim(f)
    BY <2>18 DEF Claim
  <2>3. CASE Environ(f)
    <3>1. thread_lock_c' \in Int /\ options' \in {"setup", "environment"}
      BY <2>3, <1>0 DEF Environ
    <3> QED BY <2>3, <3>1 DEF Environ
  <2>4. CASE HeapStartup(f)
    BY <2>4 DEF HeapStartup
  <2>5. CASE Enable(f)
    BY <2>5 DEF Enable, GoesOn
  <2>6. CASE Lock(f)
    BY <2>6 DEF Lock
  <2>7. CASE Acquire(f)
    BY <2>7 DEF Acquire, Frames
  <2>8. CASE Test(f)
    BY <2>8 DEF Test
  <2>9. CASE Set(f)
    BY <2>9 DEF Set
  <2>10. CASE Inside(f)
    <3>1. thread_lock_c' \in Int /\ options' \in {options, "setup"}
      BY <2>10, <1>0 DEF Inside
    <3> QED BY <2>10, <3>1 DEF Inside
  <2>11. CASE Out(f)
    BY <2>11 DEF Out
  <2>12. CASE Unlock(f)
    BY <2>12 DEF Unlock
  <2>13. CASE Count(f)
    <3>1. thread_lock_c' \in Int
      BY <2>13 DEF Count
    <3>2. mutex' \in {mutex, {}} /\ ready' \in {ready, TRUE}
      BY <2>13 DEF Count
    <3>3. at' \in [Frames -> Labels]
      BY <2>13 DEF Count
    <3>4. mutex' \in SUBSET Threads /\ ready' \in BOOLEAN
      BY <3>2
    <3>5. UNCHANGED <<up, flags, kind, history>>
      BY <2>13 DEF Count
    <3> QED BY <3>1, <3>3, <3>4, <3>5
  <2>14. CASE After(f)
    BY <2>14 DEF After
  <2>15. CASE Quit(f)
    BY <2>15 DEF Quit
  <2>16. CASE Caught(f)
    BY <2>16 DEF Caught
  <2> QED BY <1>1, <2>1, <2>2, <2>3, <2>4, <2>5, <2>6, <2>7, <2>8, <2>9, <2>10, <2>11,
             <2>12, <2>13, <2>14, <2>15, <2>16, <2>17, <2>18 DEF Work
<1>2. ASSUME NEW t \in Threads, NEW k \in Kinds, Begin(t, k) PROVE TypeOK'
  <2>1. <<t, "main">> \in Frames
    BY DEF Frames
  <2> QED BY <1>2, <2>1 DEF Begin
<1>3. ASSUME NEW t \in Threads, Signal(t) PROVE TypeOK'
  <2>1. <<t, "handler">> \in Frames
    BY DEF Frames
  <2> QED BY <1>3, <2>1 DEF Signal
<1>4. CASE UNCHANGED vars
  BY <1>4 DEF vars
<1> QED BY <1>1, <1>2, <1>3, <1>4 DEF Next

LEMMA GateInit == Init => GInv
<1> SUFFICES ASSUME Init PROVE GInv
  OBVIOUS
<1>1. \A f \in Frames : at[f] = "idle"
  BY DEF Init
<1>2. TypeOK
  <2>1. at \in [Frames -> Labels]
    BY DEF Init, Labels
  <2>2. kind \in [Frames -> {"call", "peek", "setup", "shutdown"}]
    BY DEF Init
  <2>3. turned_away \in [Threads -> 0 .. 2]
    BY DEF Init
  <2>4. done \in 0 .. Alone /\ signals \in 0 .. MaxSignals /\ thread_lock_c \in Int
    BY GateAssumption DEF Init
  <2> QED BY <2>1, <2>2, <2>3, <2>4 DEF Init, TypeOK
<1> QED BY <1>1, <1>2, GateAssumption, MainFrameIsFrame
     DEF Init, GInv, MainAlone, HandlerLate, StartsOnce, CountsDown, LockHeld, InAllocTrue,
         NeverTwice, Busy, Locked, Starting

(* Every step keeps the invariant. *)
LEMMA GateStep ==
  ASSUME LockOnObserved, GInv, [Next]_vars
  PROVE  GInv'
<1>t. TypeOK'
  BY GateTypes DEF GInv
<1> USE GateAssumption, MainFrameIsFrame
<1> DEFINE Rest == /\ MainAlone /\ HandlerLate /\ StartsOnce /\ CountsDown /\ LockHeld
                   /\ InAllocTrue /\ NeverTwice
<1>r. SUFFICES Rest'
  BY <1>t DEF GInv
<1>i. TypeOK /\ Rest
  BY DEF GInv
<1>1. ASSUME NEW f \in Frames, Work(f) PROVE Rest'
  <2>1. CASE Environ(f)
    <3>1. /\ f = MainFrame /\ ~enabled_b /\ done = 0 /\ thread_lock_c = 0
          /\ \A g \in Frames : at[g] # "idle" => g = f
      BY <2>1, <1>i, StartingAlone DEF Environ, At, StartsOnce
    <3>2. /\ at' = [at EXCEPT ![f] = "heap"]
          /\ UNCHANGED <<enabled_b, some_up_b, in_alloc_b, aborting_b, mutex, done, kind>>
      BY <2>1 DEF Environ, Goto, flags, history
    <3>3. thread_lock_c' = LockOn \/ thread_lock_c' = 0
      <4>1. \A c \in SetupLockOns : c = 0
        BY DEF LockOnObserved
      <4>2. thread_lock_c' = LockOn \/ thread_lock_c' \in SetupLockOns
        BY <2>1 DEF Environ
      <4> QED BY <4>1, <4>2, Zenon
    <3>4. some_up_b
      BY <2>1, <1>i DEF Environ, At, StartsOnce, Starting
    <3>5. \A g \in Frames : at'[g] = (IF g = f THEN "heap" ELSE "idle")
      BY <3>1, <3>2, <1>i DEF TypeOK
    <3>6. Busy = {} /\ Busy' = {}
      BY <3>1, <3>5, <2>1 DEF Busy, Environ, At
    <3>7. InAllocTrue' /\ NeverTwice'
      BY <1>i, <3>2, <3>6 DEF InAllocTrue, NeverTwice
    <3>8. MainAlone' /\ HandlerLate' /\ LockHeld'
      BY <3>1, <3>5, MainFrameIsFrame
         DEF MainAlone, HandlerLate, LockHeld, Locked, Frames, MainFrame
    <3>9. StartsOnce'
      <4>1. kind[f] # "shutdown"
        BY <2>1, <1>i DEF Environ, At, StartsOnce, Starting
      <4> QED BY <3>1, <3>2, <3>4, <3>5, <4>1 DEF StartsOnce, Locked, Starting
    <3>10. CountsDown'
      <4>1. at'[MainFrame] = "heap" /\ done' = 0
        BY <3>1, <3>2, <3>5
      <4>2. \A g \in Frames : at'[g] # "count"
        BY <3>5
      <4>3. LockOn >= 0 /\ LockOn + 0 <= LockOn
        OBVIOUS
      <4>4. thread_lock_c' >= 0 /\ (thread_lock_c' > 0 => thread_lock_c' + done' <= LockOn)
        BY <4>1, <4>3, <3>3
      <4> QED BY <4>1, <4>2, <4>4 DEF CountsDown
    <3> QED BY <3>7, <3>8, <3>9, <3>10
  <2>2. CASE Acquire(f)
    <3>1. /\ at[f] = "acquire" /\ mutex = {}
          /\ at' = [at EXCEPT ![f] = "test"] /\ mutex' = {f[1]}
          /\ UNCHANGED <<enabled_b, some_up_b, in_alloc_b, aborting_b, thread_lock_c, done, kind>>
      BY <2>2 DEF Acquire, At, Goto, up, flags, history
    <3>2. \A g \in Frames : at[g] \notin Locked
      <4>1. CASE thread_lock_c = 0
        BY <4>1, <3>1, <1>i DEF LockHeld
      <4>2. CASE thread_lock_c > 0
        BY <4>2, <3>1, CountingAlone DEF Locked
      <4> QED BY <4>1, <4>2, <1>i DEF TypeOK, CountsDown
    <3> QED BY <1>i, <3>1, <3>2
         DEF TypeOK, MainAlone, HandlerLate, StartsOnce, CountsDown, LockHeld,
             InAllocTrue, NeverTwice, Busy, Locked, Starting
  <2>3. CASE Inside(f)
    <3>1. /\ at[f] = "inside" /\ at' = [at EXCEPT ![f] = "out"]
          /\ UNCHANGED <<enabled_b, some_up_b, in_alloc_b, aborting_b, mutex, done, kind>>
      BY <2>3 DEF Inside, At, Goto, flags, lock
    <3>2. UNCHANGED thread_lock_c
      <4>1. CASE kind[f] = "setup"
        BY <4>1, <3>1, <2>3, <1>i DEF Inside, LockOnObserved, StartsOnce, Locked
      <4> QED BY <4>1, <2>3 DEF Inside
    <3> QED BY <1>i, <3>1, <3>2
         DEF TypeOK, MainAlone, HandlerLate, StartsOnce, CountsDown, LockHeld,
             InAllocTrue, NeverTwice, Busy, Locked, Starting
  <2>4. CASE Quit(f)
    <3>1. /\ at[f] = "quit" /\ at' \in {[at EXCEPT ![f] = "idle"], [at EXCEPT ![f] = "lock"]}
          /\ UNCHANGED <<enabled_b, some_up_b, in_alloc_b, aborting_b, mutex, thread_lock_c, done,
                        kind>>
      BY <2>4 DEF Quit, At, Goto, up, lock, flags, history
    <3>2. kind[f] = "setup" => enabled_b
      BY <3>1, <1>i DEF StartsOnce
    <3> QED BY <1>i, <3>1, <3>2
         DEF TypeOK, MainAlone, HandlerLate, StartsOnce, CountsDown, LockHeld,
             InAllocTrue, NeverTwice, Busy, Locked, Starting
  <2> USE LockOnObserved
      DEF TypeOK, MainAlone, HandlerLate, StartsOnce, CountsDown, LockHeld,
          InAllocTrue, NeverTwice, Busy, Locked, Starting,
          Frames, At, Goto, Runs, up, lock, flags, history, LockOnObserved
  <2>5. CASE Enter(f)
    BY <2>5, <1>i, <1>t DEF Enter
  <2>6. CASE Startup(f)
    BY <2>6, <1>i, <1>t DEF Startup, TurnAway
  <2>17. CASE SomeUp(f)
    BY <2>17, <1>i, <1>t DEF SomeUp
  <2>18. CASE Claim(f)
    BY <2>18, <1>i, <1>t, StartingAlone DEF Claim
  <2>7. CASE HeapStartup(f)
    BY <2>7, <1>i, <1>t, StartingAlone DEF HeapStartup
  <2>8. CASE Enable(f)
    <3>1. some_up_b /\ kind[f] # "shutdown" /\ at[f] = "enable"
      BY <2>8, <1>i DEF Enable
    <3>2. /\ enabled_b' = (enabled_b \/ ~(thread_lock_c > 0))
          /\ at' = [at EXCEPT ![f] = IF kind[f] = "call" THEN "lock" ELSE "idle"]
          /\ UNCHANGED <<some_up_b, thread_lock_c, mutex, in_alloc_b, aborting_b, kind, done>>
      BY <2>8 DEF Enable, GoesOn
    <3>3. thread_lock_c \in Int /\ thread_lock_c >= 0
      BY <1>i
    <3>4. \A g \in Frames : at[g] \notin {"environ", "heap"} \/ enabled_b' = enabled_b
      BY <3>1, <1>i, StartingAlone
    <3> QED BY <3>1, <3>2, <3>3, <3>4, <1>i, <1>t
  <2>9. CASE Lock(f)
    BY <2>9, <1>i, <1>t, CountingAlone DEF Lock
  <2>10. CASE Test(f)
    BY <2>10, <1>i, <1>t DEF Test
  <2>11. CASE Set(f)
    BY <2>11, <1>i, <1>t DEF Set
  <2>12. CASE Out(f)
    BY <2>12, <1>i, <1>t DEF Out
  <2>13. CASE Unlock(f)
    BY <2>13, <1>i, <1>t, CountingAlone DEF Unlock
  <2>14. CASE Count(f)
    BY <2>14, <1>i, <1>t, CountingAlone DEF Count
  <2>15. CASE After(f)
    BY <2>15, <1>i, <1>t DEF After
  <2>16. CASE Caught(f)
    BY <2>16, <1>i, <1>t DEF Caught
  <2> QED BY <1>1, <2>1, <2>2, <2>3, <2>4, <2>5, <2>6, <2>7, <2>8, <2>9, <2>10, <2>11,
             <2>12, <2>13, <2>14, <2>15, <2>16, <2>17, <2>18 DEF Work
<1>2. ASSUME NEW t \in Threads, NEW k \in Kinds, Begin(t, k) PROVE Rest'
  <2>1. <<t, "main">> \in Frames
    BY DEF Frames
  <2> QED BY <1>2, <2>1, <1>i
       DEF Begin, At, Goto, up, lock, flags, history, Frames, MainFrame,
           TypeOK, MainAlone, HandlerLate, StartsOnce, CountsDown, LockHeld,
           InAllocTrue, NeverTwice, Busy, Locked, Starting
<1>3. ASSUME NEW t \in Threads, Signal(t) PROVE Rest'
  <2>1. <<t, "handler">> \in Frames
    BY DEF Frames
  <2> QED BY <1>3, <2>1, <1>i
       DEF Signal, At, Goto, up, lock, flags, history, Frames, MainFrame,
           TypeOK, MainAlone, HandlerLate, StartsOnce, CountsDown, LockHeld,
           InAllocTrue, NeverTwice, Busy, Locked, Starting
<1>4. CASE UNCHANGED vars
  BY <1>4, <1>i DEF vars, MainAlone, HandlerLate, StartsOnce, CountsDown, LockHeld,
     InAllocTrue, NeverTwice, Busy, Locked, Starting
<1> QED BY <1>1, <1>2, <1>3, <1>4 DEF Next

(* The invariant of the gate, for any number of threads, calls and signals. *)
THEOREM GateInvariance ==
  ASSUME LockOnObserved
  PROVE  Spec => []GInv
<1>1. GInv /\ [Next]_vars => GInv'
  BY GateStep
<1> QED BY <1>1, GateInit, PTL DEF Spec

(* One frame at a time is between dmalloc_in and dmalloc_out, and no call   *)
(* ends the program with ERROR_IN_TWICE, if the program starts its threads  *)
(* only after lock-on calls: malloc.c, lock_thread, unlock_thread.          *)
THEOREM Exclusion ==
  ASSUME LockOnObserved
  PROVE  Spec => [](MutualExclusion /\ NeverTwice)
<1>1. GInv => MutualExclusion /\ NeverTwice
  BY DEF GInv, LockHeld, MutualExclusion, Busy, Locked
<1> QED BY <1>1, GateInvariance, PTL

(* The flag the signal handler and dmalloc_shutdown decide by is true       *)
(* exactly while a frame is inside: malloc.c, signal_handler.               *)
THEOREM FlagTrue ==
  ASSUME LockOnObserved
  PROVE  Spec => []InAllocTrue
<1>1. GInv => InAllocTrue
  BY DEF GInv
<1> QED BY <1>1, GateInvariance, PTL

(* Behind MadeInTime: once lock-on is read, either more calls are still to  *)
(* come than THREAD_INIT_LOCK, or the mutex has been made.                  *)
ToBeMade == some_up_b /\ (\A f \in Frames : at[f] # "environ")
              => thread_lock_c > THREAD_INIT_LOCK \/ ready

LEMMA MadeInTimeStep ==
  ASSUME LockOnObserved, LockOn > THREAD_INIT_LOCK, SetupLockOns = {},
         GInv, ToBeMade, MadeInTime, [Next]_vars
  PROVE  ToBeMade' /\ MadeInTime'
<1>i. TypeOK /\ StartsOnce /\ CountsDown
  BY DEF GInv
<1>1. ASSUME NEW f \in Frames, Work(f) PROVE ToBeMade' /\ MadeInTime'
  <2> DEFINE Same == UNCHANGED <<some_up_b, thread_lock_c, ready>>
  <2>k. \A g \in Frames : g # f => kind'[g] = kind[g]
    BY <1>1, <1>i DEF TypeOK, Work, Enter, Startup, SomeUp, Claim, Environ, HeapStartup, Enable,
       Lock, Acquire, Test, Set, Inside, Out, Unlock, Count, After, Quit, Caught
  <2>a. ASSUME Same, at' \in {[at EXCEPT ![f] = l] : l \in Labels \ {"environ", "acquire"}},
               at[f] # "environ"
        PROVE  ToBeMade' /\ MadeInTime'
    BY <2>a, <2>k, <1>i DEF TypeOK, ToBeMade, MadeInTime
  <2>1. CASE Startup(f) \/ SomeUp(f)
    BY <2>1, <2>a DEF Startup, TurnAway, SomeUp, At, Goto, up, lock, Labels, Starting
  <2>2. CASE Claim(f)
    <3>1. \A g \in Frames : at[g] # "idle" => g = f
      BY <2>2, <1>i, StartingAlone DEF Claim, At, StartsOnce
    <3>2. at' = [at EXCEPT ![f] = "environ"]
      BY <2>2 DEF Claim, Goto
    <3>3. \A g \in Frames : at'[g] # "acquire"
      BY <3>1, <3>2, <1>i DEF TypeOK
    <3> QED BY <3>2, <3>3, <1>i DEF TypeOK, ToBeMade, MadeInTime
  <2>3. CASE Environ(f)
    <3>1. /\ thread_lock_c' = LockOn /\ ready' = ready /\ some_up_b' = some_up_b /\ kind' = kind
          /\ at' = [at EXCEPT ![f] = "heap"]
      BY <2>3 DEF Environ, Goto
    <3> QED BY <3>1, <1>i DEF TypeOK, ToBeMade, MadeInTime
  <2>4. CASE Lock(f)
    <3>1. /\ at[f] = "lock" /\ Same /\ kind' = kind
          /\ at' = [at EXCEPT ![f] = IF thread_lock_c = 0 THEN "acquire" ELSE "test"]
      BY <2>4 DEF Lock, At, Goto, up, lock, LockOnObserved
    <3>2. \A g \in Frames : at[g] # "environ"
      BY <3>1, <1>i, StartingAlone DEF StartsOnce
    <3>3. some_up_b => thread_lock_c > THREAD_INIT_LOCK \/ ready
      BY <3>2 DEF ToBeMade
    <3>4. thread_lock_c = 0 => ready \/ (kind[f] = "shutdown" /\ ~some_up_b)
      BY <3>1, <3>3, <1>i, GateAssumption DEF StartsOnce
    <3> QED BY <3>1, <3>2, <3>3, <3>4, <1>i DEF TypeOK, ToBeMade, MadeInTime
  <2>5. CASE Inside(f)
    <3>1. /\ at[f] = "inside" /\ at' = [at EXCEPT ![f] = "out"]
          /\ UNCHANGED <<some_up_b, thread_lock_c, ready>>
      BY <2>5 DEF Inside, At, Goto
    <3> QED BY <3>1, <2>a DEF Labels
  <2>6. CASE Count(f)
    <3>1. /\ at[f] = "count" /\ at' = [at EXCEPT ![f] = "after"]
          /\ some_up_b' = some_up_b /\ kind' = kind
          /\ thread_lock_c' = thread_lock_c - 1
          /\ ready' = (ready \/ thread_lock_c - 1 = THREAD_INIT_LOCK)
      BY <2>6, <1>i DEF Count, At, Goto, up, TypeOK
    <3>2. some_up_b /\ \A g \in Frames : at[g] # "environ"
      BY <3>1, <1>i, StartingAlone DEF StartsOnce, CountsDown
    <3>3. thread_lock_c > THREAD_INIT_LOCK \/ ready
      BY <3>2 DEF ToBeMade
    <3>4. thread_lock_c - 1 > THREAD_INIT_LOCK \/ ready'
      BY <3>1, <3>3, <1>i, GateAssumption DEF TypeOK
    <3> QED BY <3>1, <3>4, <1>i DEF TypeOK, ToBeMade, MadeInTime
  <2>7. CASE Enter(f)
    BY <2>7, <2>a DEF Enter, At, Goto, up, lock, Labels, Starting
  <2>8. CASE HeapStartup(f)
    BY <2>8, <2>a DEF HeapStartup, At, Goto, lock, Labels, Starting
  <2>9. CASE Enable(f)
    BY <2>9, <2>a DEF Enable, GoesOn, At, Goto, lock, Labels
  <2>10. CASE Acquire(f)
    BY <2>10, <2>a DEF Acquire, At, Goto, up, Labels
  <2>11. CASE Test(f)
    BY <2>11, <2>a, <1>i DEF Test, At, Goto, up, lock, Labels, TypeOK, ToBeMade, MadeInTime
  <2>12. CASE Set(f) \/ Out(f)
    BY <2>12, <2>a DEF Set, Out, At, Goto, up, lock, Labels
  <2>13. CASE Unlock(f)
    BY <2>13, <2>a DEF Unlock, At, Goto, up, Labels
  <2>14. CASE After(f) \/ Quit(f) \/ Caught(f)
    BY <2>14, <2>a DEF After, Quit, Caught, At, Goto, up, lock, Labels
  <2> QED BY <1>1, <2>1, <2>2, <2>3, <2>4, <2>5, <2>6, <2>7, <2>8, <2>9, <2>10, <2>11, <2>12,
             <2>13, <2>14 DEF Work
<1>2. ASSUME NEW t \in Threads, NEW k \in Kinds, Begin(t, k)
      PROVE  ToBeMade' /\ MadeInTime'
  BY <1>2, <1>i DEF Begin, At, Goto, up, lock, Frames, TypeOK, ToBeMade, MadeInTime
<1>3. ASSUME NEW t \in Threads, Signal(t) PROVE ToBeMade' /\ MadeInTime'
  BY <1>3, <1>i DEF Signal, At, Goto, up, lock, Frames, TypeOK, ToBeMade, MadeInTime
<1>4. CASE UNCHANGED vars
  BY <1>4 DEF vars, ToBeMade, MadeInTime
<1> QED BY <1>1, <1>2, <1>3, <1>4 DEF Next

(* Nobody locks a mutex that pthread_mutex_init has not seen, except for a  *)
(* shutdown that comes before the library is started, when lock-on is       *)
(* larger than THREAD_INIT_LOCK: malloc.c, lock_thread, unlock_thread.      *)
THEOREM MutexMade ==
  ASSUME LockOnObserved, LockOn > THREAD_INIT_LOCK, SetupLockOns = {}
  PROVE  Spec => []MadeInTime
<1>1. Init => ToBeMade /\ MadeInTime
  BY DEF Init, ToBeMade, MadeInTime
<1>2. GInv /\ (ToBeMade /\ MadeInTime) /\ [Next]_vars => (ToBeMade /\ MadeInTime)'
  BY MadeInTimeStep
<1> QED BY <1>1, <1>2, GateInvariance, PTL DEF Spec

-----------------------------------------------------------------------------
(* Behind OneCallLost: a call is only sent back by a library that is        *)
(* enabled, which no call of its thread finds disabled again; and the       *)
(* thread that enabled the library was never sent back.                     *)
LostInv ==
  /\ \A f \in Frames : at[f] \in Starting \cup {"enter"} => f[2] = "main"
  /\ \A t \in Threads : turned_away[t] <= 1
  /\ \A t \in Threads : turned_away[t] > 0 => enabled_b /\ at[<<t, "main">>] # "startup"
  /\ enabled_b => \E t \in Threads : turned_away[t] = 0 /\ at[<<t, "main">>] # "startup"

LEMMA LostStep ==
  ASSUME TypeOK, LostInv, [Next]_vars
  PROVE  LostInv'
<1> USE DEF LostInv
<1>f. \A t \in Threads : <<t, "main">> \in Frames /\ <<t, "handler">> \in Frames
  BY DEF Frames
<1>1. ASSUME NEW f \in Frames, Work(f) PROVE LostInv'
  <2>f. f[1] \in Threads /\ f = <<f[1], f[2]>>
    BY DEF Frames
  (* A step that sends nobody back nor to the startup. *)
  <2>a. ASSUME UNCHANGED <<enabled_b, turned_away>>, NEW l \in Labels \ {"startup", "enter"},
               at' = [at EXCEPT ![f] = l], l \in Starting => at[f] \in Starting
        PROVE  LostInv'
    BY <2>a, <1>f DEF TypeOK
  <2>1. CASE Enter(f)
    <3>1. at[f] = "enter" /\ UNCHANGED <<enabled_b, turned_away>>
      BY <2>1 DEF Enter, At, up, history
    <3>2. CASE enabled_b
      <4>1. \E l \in {"idle", "lock"} : at' = [at EXCEPT ![f] = l]
        BY <2>1, <3>2 DEF Enter, Goto
      <4> QED BY <3>1, <4>1, <2>a DEF Labels, Starting
    <3>3. CASE ~enabled_b
      <4>1. at' = [at EXCEPT ![f] = "startup"]
        BY <2>1, <3>3 DEF Enter, Goto
      <4> QED BY <3>1, <3>3, <4>1, <1>f DEF TypeOK
    <3> QED BY <3>2, <3>3
  <2>2. CASE Startup(f)
    <3>1. at[f] = "startup" /\ UNCHANGED enabled_b
      BY <2>2 DEF Startup, At, up
    <3>2. CASE enabled_b
      <4>1. f = <<f[1], "main">> /\ turned_away[f[1]] = 0
        BY <3>1, <2>f DEF TypeOK, Starting
      <4>2. /\ at' = [at EXCEPT ![f] = "idle"]
            /\ turned_away' \in {turned_away, [turned_away EXCEPT ![f[1]] = 1]}
        BY <2>2, <3>2, <4>1 DEF Startup, TurnAway, Goto, TypeOK
      <4>3. PICK w \in Threads : turned_away[w] = 0 /\ at[<<w, "main">>] # "startup"
        BY <3>2
      <4>4. w # f[1]
        BY <3>1, <4>1, <4>3
      <4>5. turned_away'[w] = 0 /\ at'[<<w, "main">>] # "startup"
        BY <4>2, <4>3, <4>4, <1>f DEF TypeOK
      <4>6. ASSUME NEW t \in Threads
            PROVE  /\ turned_away'[t] <= 1
                   /\ turned_away'[t] > 0 => at'[<<t, "main">>] # "startup"
        <5>1. CASE t = f[1]
          BY <4>1, <4>2, <5>1, <1>f, <2>f DEF TypeOK
        <5>2. CASE t # f[1]
          <6>1. turned_away'[t] = turned_away[t] /\ at'[<<t, "main">>] = at[<<t, "main">>]
            BY <4>1, <4>2, <5>2, <1>f DEF TypeOK
          <6> QED BY <6>1
        <5> QED BY <5>1, <5>2
      <4>7. \A g \in Frames : at'[g] \in Starting \cup {"enter"} => g[2] = "main"
        BY <4>2 DEF TypeOK, Starting
      <4> QED BY <3>1, <3>2, <4>3, <4>5, <4>6, <4>7
    <3>3. CASE ~enabled_b
      <4>1. at' = [at EXCEPT ![f] = "some_up"] /\ UNCHANGED <<enabled_b, turned_away>>
        BY <2>2, <3>3 DEF Startup, Goto, up
      <4> QED BY <3>1, <4>1, <2>a DEF Labels, Starting
    <3> QED BY <3>2, <3>3
  <2>3. CASE Enable(f)
    <3>1. at[f] = "enable" /\ UNCHANGED turned_away
      BY <2>3 DEF Enable, At, history
    <3>2. f = <<f[1], "main">>
      BY <3>1, <2>f DEF Starting
    <3>3. \E l \in {"idle", "lock"} : at' = [at EXCEPT ![f] = l]
      BY <2>3 DEF Enable, GoesOn, Goto
    <3>4. CASE enabled_b' = enabled_b
      BY <3>1, <3>3, <3>4, <2>a DEF Labels, Starting
    <3>5. CASE enabled_b' # enabled_b
      <4>1. ~enabled_b /\ enabled_b'
        BY <2>3, <3>5 DEF Enable, TypeOK
      <4>2. ASSUME NEW t \in Threads PROVE turned_away'[t] = 0
        <5>1. turned_away[t] \in 0 .. 2 /\ ~(turned_away[t] > 0)
          BY <4>1 DEF TypeOK
        <5> QED BY <3>1, <5>1
      <4>3. at'[<<f[1], "main">>] # "startup"
        BY <3>2, <3>3, <2>f DEF TypeOK
      <4>4. \A g \in Frames : at'[g] \in Starting \cup {"enter"} => g[2] = "main"
        BY <3>3 DEF TypeOK, Starting
      <4> QED BY <4>1, <4>2, <4>3, <4>4, <2>f
    <3> QED BY <3>4, <3>5
  <2>4. CASE SomeUp(f) \/ Claim(f) \/ Environ(f)
    <3>1. /\ at[f] \in Starting /\ UNCHANGED <<enabled_b, turned_away>>
          /\ \E l \in {"enable", "claim", "environ", "heap"} : at' = [at EXCEPT ![f] = l]
      BY <2>4 DEF SomeUp, Claim, Environ, At, Goto, up, history, Starting
    <3> QED BY <3>1, <2>a DEF Labels, Starting
  <2>5. CASE HeapStartup(f)
    <3>1. /\ at[f] \in Starting /\ UNCHANGED <<enabled_b, turned_away>>
          /\ \E l \in {"enable", "idle"} : at' = [at EXCEPT ![f] = l]
      BY <2>5 DEF HeapStartup, At, Goto, history, Starting
    <3> QED BY <3>1, <2>a DEF Labels, Starting
  <2>6. CASE \/ Lock(f) \/ Acquire(f) \/ Set(f) \/ Inside(f) \/ Out(f) \/ Unlock(f)
             \/ Count(f) \/ After(f) \/ Quit(f) \/ Caught(f)
    <3>1. /\ UNCHANGED <<enabled_b, turned_away>>
          /\ \E l \in Labels \ (Starting \cup {"enter"}) : at' = [at EXCEPT ![f] = l]
      BY <2>6 DEF Lock, Acquire, Set, Inside, Out, Unlock, Count, After, Quit, Caught,
         Goto, up, history, Labels, Starting
    <3> QED BY <3>1, <2>a DEF Starting
  <2>7. CASE Test(f)
    <3>1. /\ UNCHANGED <<enabled_b, turned_away>>
          /\ at' = at \/ \E l \in {"set", "unlock"} : at' = [at EXCEPT ![f] = l]
      BY <2>7 DEF Test, Goto, up, history
    <3> QED BY <3>1, <2>a DEF Labels, Starting
  <2> QED BY <1>1, <2>1, <2>2, <2>3, <2>4, <2>5, <2>6, <2>7 DEF Work
<1>2. ASSUME NEW t \in Threads, NEW k \in Kinds, Begin(t, k) PROVE LostInv'
  <2>1. /\ UNCHANGED <<enabled_b, turned_away>>
        /\ \E l \in {"quit", "enter"} : at' = [at EXCEPT ![<<t, "main">>] = l]
    BY <1>2 DEF Begin, Goto, up, history
  <2>2. \A u \in Threads : at'[<<u, "main">>] = "startup" => at[<<u, "main">>] = "startup"
    BY <2>1, <1>f DEF TypeOK
  <2>3. \A g \in Frames : at'[g] \in Starting \cup {"enter"} => g[2] = "main"
    BY <2>1, <1>f DEF TypeOK, Starting
  <2> QED BY <2>1, <2>2, <2>3
<1>3. ASSUME NEW t \in Threads, Signal(t) PROVE LostInv'
  <2>1. /\ UNCHANGED <<enabled_b, turned_away>>
        /\ at' = [at EXCEPT ![<<t, "handler">>] = "caught"]
    BY <1>3 DEF Signal, Goto, up
  <2> QED BY <2>1, <1>f DEF TypeOK, Starting
<1>4. CASE UNCHANGED vars
  BY <1>4 DEF vars
<1> QED BY <1>1, <1>2, <1>3, <1>4 DEF Next

(* Whatever lock-on is and whenever threads are started, the unlocked test  *)
(* of enabled_b in dmalloc_startup sends back one call of a thread at most, *)
(* and not of every thread: malloc.c, dmalloc_in, dmalloc_startup.          *)
THEOREM LittleLost == Spec => []OneCallLost
<1>1. Init => TypeOK /\ LostInv
  <2>1. Threads # {}
    BY GateAssumption
  <2>2. Init => TypeOK
    BY GateInit DEF GInv
  <2>3. Init => LostInv
    BY <2>1 DEF Init, LostInv, Starting
  <2> QED BY <2>2, <2>3
<1>2. (TypeOK /\ LostInv) /\ [Next]_vars => (TypeOK /\ LostInv)'
  BY GateTypes, LostStep
<1>3. TypeOK /\ LostInv => OneCallLost
  <2> SUFFICES ASSUME TypeOK, LostInv PROVE \E t \in Threads : turned_away[t] = 0
    BY DEF LostInv, OneCallLost
  <2>1. CASE enabled_b
    BY <2>1 DEF LostInv
  <2>2. CASE ~enabled_b
    <3>1. turned_away[Main] \in 0 .. 2 /\ ~(turned_away[Main] > 0) /\ Main \in Threads
      BY <2>2, GateAssumption DEF LostInv, TypeOK
    <3> QED BY <3>1
  <2> QED BY <2>1, <2>2
<1> QED BY <1>1, <1>2, <1>3, PTL DEF Spec

-----------------------------------------------------------------------------
(* The build without locks, where only a signal handler comes between.      *)

(* The handler runs to its end while Main's frame stands still, so that the *)
(* two are never inside together and the handler leaves the flag as it      *)
(* found it; only Main's own frame starts the library up.                   *)
Handler == <<Main, "handler">>
Inner == {"lock", "test", "set", "inside", "out", "unlock", "after"}
HandlerNests ==
  /\ at[Handler] \in Inner \cup {"idle", "caught", "quit"}
  /\ at[Handler] # "idle" => kind[Handler] = "shutdown" /\ enabled_b
  /\ at[Handler] \in Inner => MainFrame \notin Busy
StartsAlone ==
  /\ thread_lock_c = 0
  /\ at[MainFrame] \notin {"acquire", "count", "caught"}
  /\ at[MainFrame] \in Starting => ~enabled_b
  /\ started => enabled_b \/ at[MainFrame] = "enable"
OptionsTaken ==
  kind[MainFrame] = "setup" =>
    /\ at[MainFrame] \in {"heap", "out", "unlock", "after"} => options = "setup"
    /\ at[MainFrame] = "enable" => options = "setup" \/ ~started
    /\ at[MainFrame] # "quit"
SignalInv ==
  /\ TypeOK /\ HandlerNests /\ StartsAlone /\ OptionsTaken /\ InAllocTrue /\ NeverTwice

LEMMA TwoFrames ==
  ASSUME ~LOCK_THREADS
  PROVE  /\ Frames = {MainFrame, Handler} /\ MainFrame # Handler
         /\ MainFrame[1] = Main /\ MainFrame[2] = "main"
         /\ Handler[1] = Main /\ Handler[2] = "handler"
         /\ Threads = {Main} /\ LockOn = 0 /\ \A c \in SetupLockOns : c = 0
<1>1. Threads = {Main} /\ LockOn = 0 /\ \A c \in SetupLockOns : c = 0
  BY GateAssumption
<1>2. Frames = {MainFrame, Handler}
  BY <1>1 DEF Frames, MainFrame, Handler
<1> QED BY <1>1, <1>2 DEF MainFrame, Handler

LEMMA SignalStep ==
  ASSUME ~LOCK_THREADS, SignalInv, [Next]_vars
  PROVE  SignalInv'
<1>t. TypeOK'
  BY GateTypes DEF SignalInv
<1> DEFINE Rest == HandlerNests /\ StartsAlone /\ OptionsTaken /\ InAllocTrue /\ NeverTwice
<1>r. SUFFICES Rest'
  BY <1>t DEF SignalInv
<1>i. TypeOK /\ Rest
  BY DEF SignalInv
<1>1. ASSUME NEW f \in Frames, Work(f) PROVE Rest'
  <2>r. Runs(f) /\ f \in {MainFrame, Handler} /\ (f = MainFrame => at[Handler] = "idle")
    <3>1. Runs(f)
      BY <1>1 DEF Work, Enter, Startup, SomeUp, Claim, Environ, HeapStartup, Enable, Lock, Acquire, Test, Set,
                  Inside, Out, Unlock, Count, After, Quit, Caught, At
    <3> QED BY <3>1, TwoFrames DEF Runs, Handler
  <2> USE TwoFrames
      DEF TypeOK, HandlerNests, StartsAlone, OptionsTaken, InAllocTrue, NeverTwice, Busy, Inner,
          Starting, At, Goto, up, lock, flags, history
  <2>1. CASE Enter(f)
    BY <2>1, <2>r, <1>i, <1>t DEF Enter
  <2>2. CASE Startup(f)
    BY <2>2, <2>r, <1>i, <1>t DEF Startup, TurnAway
  <2>17. CASE SomeUp(f)
    BY <2>17, <2>r, <1>i, <1>t DEF SomeUp
  <2>18. CASE Claim(f)
    BY <2>18, <2>r, <1>i, <1>t DEF Claim
  <2>3. CASE Environ(f)
    BY <2>3, <2>r, <1>i, <1>t DEF Environ
  <2>4. CASE HeapStartup(f)
    BY <2>4, <2>r, <1>i, <1>t DEF HeapStartup
  <2>5. CASE Enable(f)
    BY <2>5, <2>r, <1>i, <1>t DEF Enable, GoesOn
  <2>6. CASE Lock(f)
    BY <2>6, <2>r, <1>i, <1>t DEF Lock
  <2>7. CASE Acquire(f)
    BY <2>7, <2>r, <1>i, <1>t DEF Acquire
  <2>8. CASE Test(f)
    BY <2>8, <2>r, <1>i, <1>t DEF Test
  <2>9. CASE Set(f)
    BY <2>9, <2>r, <1>i, <1>t DEF Set
  <2>10. CASE Inside(f)
    BY <2>10, <2>r, <1>i, <1>t DEF Inside
  <2>11. CASE Out(f)
    BY <2>11, <2>r, <1>i, <1>t DEF Out
  <2>12. CASE Unlock(f)
    BY <2>12, <2>r, <1>i, <1>t DEF Unlock
  <2>13. CASE Count(f)
    BY <2>13, <2>r, <1>i, <1>t DEF Count
  <2>14. CASE After(f)
    BY <2>14, <2>r, <1>i, <1>t DEF After
  <2>15. CASE Quit(f)
    BY <2>15, <2>r, <1>i, <1>t DEF Quit
  <2>16. CASE Caught(f)
    BY <2>16, <2>r, <1>i, <1>t DEF Caught
  <2> QED BY <1>1, <2>1, <2>2, <2>3, <2>4, <2>5, <2>6, <2>7, <2>8, <2>9, <2>10, <2>11,
             <2>12, <2>13, <2>14, <2>15, <2>16, <2>17, <2>18 DEF Work
<1> USE TwoFrames
    DEF TypeOK, HandlerNests, StartsAlone, OptionsTaken, InAllocTrue, NeverTwice, Busy, Inner, Starting
<1>2. ASSUME NEW t \in Threads, NEW k \in Kinds, Begin(t, k) PROVE Rest'
  <2>1. <<t, "main">> = MainFrame
    BY DEF MainFrame
  <2>2. /\ at[MainFrame] = "idle" /\ at[Handler] = "idle"
        /\ at' = [at EXCEPT ![MainFrame] = IF k = "shutdown" THEN "quit" ELSE "enter"]
        /\ kind' = [kind EXCEPT ![MainFrame] = k]
        /\ UNCHANGED <<up, lock, flags, history>>
    BY <1>2, <2>1 DEF Begin, At, Goto, Runs, Handler
  <2> QED BY <2>2, <1>i DEF up, lock, flags
<1>3. ASSUME NEW t \in Threads, Signal(t) PROVE Rest'
  <2>1. <<t, "handler">> = Handler
    BY DEF Handler
  <2>2. /\ at[Handler] = "idle" /\ enabled_b
        /\ at' = [at EXCEPT ![Handler] = "caught"]
        /\ kind' = [kind EXCEPT ![Handler] = "shutdown"]
        /\ UNCHANGED <<up, lock, flags>>
    BY <1>3, <2>1 DEF Signal, At, Goto
  <2> QED BY <2>2, <1>i DEF up, lock, flags
<1>4. CASE UNCHANGED vars
  BY <1>4, <1>i DEF vars
<1> QED BY <1>1, <1>2, <1>3, <1>4 DEF Next

(* In the build without locks, whatever a signal handler interrupts: one    *)
(* frame at a time is inside, the flag says so, and no call ends the        *)
(* program with ERROR_IN_TWICE: malloc.c, dmalloc_in, signal_handler.       *)
THEOREM SignalsNest ==
  ASSUME ~LOCK_THREADS
  PROVE  Spec => [](InAllocTrue /\ MutualExclusion /\ NeverTwice)
<1>1. Init => SignalInv
  <2>1. Init => TypeOK
    BY GateInit DEF GInv
  <2> QED BY <2>1, TwoFrames DEF Init, SignalInv, HandlerNests, StartsAlone, OptionsTaken,
                                 InAllocTrue, NeverTwice, Busy, Inner, Starting
<1>2. SignalInv /\ [Next]_vars => SignalInv'
  BY SignalStep
<1>3. SignalInv => InAllocTrue /\ MutualExclusion /\ NeverTwice
  BY TwoFrames DEF SignalInv, HandlerNests, MutualExclusion, Busy, Inner
<1> QED BY <1>1, <1>2, <1>3, PTL DEF Spec

(* In that build the options dmalloc_debug_setup was given are in force     *)
(* when it comes back, whatever signal comes in between: malloc.c,          *)
(* dmalloc_debug_setup, dmalloc_startup.                                    *)
THEOREM SetupInForce ==
  ASSUME ~LOCK_THREADS
  PROVE  Spec => SetupTakes
<1> DEFINE Back(f) == kind[f] = "setup" /\ at[f] # "idle" /\ at'[f] = "idle"
                      => options' = "setup" \/ ~started
<1>1. Init => SignalInv
  <2>1. Init => TypeOK
    BY GateInit DEF GInv
  <2> QED BY <2>1, TwoFrames DEF Init, SignalInv, HandlerNests, StartsAlone, OptionsTaken,
                                 InAllocTrue, NeverTwice, Busy, Inner, Starting
<1>2. SignalInv /\ [Next]_vars => SignalInv'
  BY SignalStep
<1>3. SignalInv /\ [Next]_vars => [\A f \in Frames : Back(f)]_vars
  <2> SUFFICES ASSUME SignalInv, Next, NEW g \in Frames, kind[g] = "setup", at[g] # "idle",
                      at'[g] = "idle"
               PROVE  options' = "setup" \/ ~started
    OBVIOUS
  <2>i. TypeOK /\ HandlerNests /\ StartsAlone /\ OptionsTaken
    BY DEF SignalInv
  <2>g. g = MainFrame
    BY <2>i, TwoFrames DEF HandlerNests
  <2>1. PICK f \in Frames : Work(f)
    <3>1. ASSUME NEW t \in Threads, NEW k \in Kinds, Begin(t, k) PROVE FALSE
      BY <3>1, <2>i, <2>g, TwoFrames DEF Begin, At, Goto, MainFrame, TypeOK
    <3>2. ASSUME NEW t \in Threads, Signal(t) PROVE FALSE
      BY <3>2, <2>i, <2>g, TwoFrames DEF Signal, At, Goto, Handler, TypeOK
    <3> QED BY <3>1, <3>2 DEF Next
  <2>2. f = MainFrame
    <3>1. ASSUME f # g PROVE at'[g] = at[g]
      <4>1. (\E l : at' = [at EXCEPT ![f] = l]) \/ at' = at
        BY <2>1 DEF Work, Enter, Startup, SomeUp, Claim, Environ, HeapStartup, Enable, GoesOn, Lock, Acquire, Test,
                    Set, Inside, Out, Unlock, Count, After, Quit, Caught, TurnAway, Goto
      <4> QED BY <3>1, <4>1, <2>i DEF TypeOK
    <3> QED BY <3>1, <2>g
  <2>3. at[MainFrame] \in {"heap", "enable", "after"}
    BY <2>1, <2>2, <2>i, <2>g, TwoFrames
       DEF Work, Enter, Startup, SomeUp, Claim, Environ, HeapStartup, Enable, Lock, Acquire, Test, Set,
           Inside, Out, Unlock, Count, After, Quit, Caught, TurnAway, At, Goto, TypeOK,
           StartsAlone, Starting, OptionsTaken
  <2>4. options' = options
    BY <2>1, <2>2, <2>3
       DEF Work, Enter, Startup, SomeUp, Claim, Environ, HeapStartup, Enable, Lock, Acquire, Test, Set,
           Inside, Out, Unlock, Count, After, Quit, Caught, At, up
  <2> QED BY <2>3, <2>4, <2>i, <2>g DEF OptionsTaken
<1> QED BY <1>1, <1>2, <1>3, PTL DEF Spec, SetupTakes
=============================================================================
