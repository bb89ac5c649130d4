-------------------------- MODULE LibraryCalls_proofs --------------------------
(***************************************************************************)
(* Proofs about the calls of a process: that the heap is checked when the  *)
(* settings ask for it, and that the leaks told are those there are.       *)
(***************************************************************************)
EXTENDS LibraryCalls, SumTheorems

(* What a process remembers, what of it the log and the messages touch,    *)
(* and what the schedule of heap checks goes by.                           *)
Fields == {"logpath", "fd", "current", "alive", "up", "flags", "interval", "iter",
           "start", "addr", "seen", "addr_c", "warned", "slots", "total", "mark",
           "sent", "inherited", "asked", "last", "mine"}
Noise == {"logpath", "fd", "current", "alive", "sent", "addr_c", "warned", "inherited"}
Clock == {"up", "flags", "interval", "iter", "start", "asked", "last"}

Shape(v) == DOMAIN v = {"pid", "me", "opens", "files"} /\ DOMAIN v.me = Fields
Alike(me, you, fields) == \A f \in fields : you[f] = me[f]
Quiet(v, w) == Shape(w) /\ w.pid = v.pid /\ Alike(v.me, w.me, Fields \ Noise)

-----------------------------------------------------------------------------
(* The schedule. *)
Checks(me) == "check-heap" \in me.flags

AskedShape(a) ==
  /\ DOMAIN a = {"set", "flags", "first", "calls", "reached", "touched"}
  /\ a.calls \in Nat /\ a.set.interval \in Nat /\ StartRead(a.set.start)
  /\ a.reached \in BOOLEAN /\ a.first \in BOOLEAN /\ a.touched \in BOOLEAN

(* Where the schedule is, for settings the manual covers: before the start *)
(* check-heap is off, and what is left of the start is what the calls so   *)
(* far have not used up; from the start on it is on, or follows the        *)
(* interval.                                                               *)
CountsCalls(me) ==
  LET a == me.asked start == a.set.start IN
  IF a.calls < start.iter
  THEN me.start = [start EXCEPT !.iter = start.iter - a.calls] /\ ~Checks(me)
  ELSE me.start = NoStart /\ (a.set.interval = 0 => Checks(me))
AwaitsPlace(me) ==
  LET a == me.asked IN
  IF a.reached THEN me.start = NoStart /\ Checks(me)
               ELSE me.start = a.set.start /\ ~Checks(me)
FromTheFirst(me) ==
  me.start = NoStart /\ (me.asked.set.interval = 0 => (Checks(me) <=> "check-heap" \in me.asked.flags))
Scheduled(me) ==
  LET start == me.asked.set.start IN
  /\ me.interval = me.asked.set.interval
  /\ start.iter > 0 => CountsCalls(me)
  /\ start.file # NoFile => AwaitsPlace(me)
  /\ start = NoStart => FromTheFirst(me)

LastRight(me) == me.last.may /\ Sound(me.asked) => (me.last.checked <=> Due(me))

ClockInv(me) ==
  /\ AskedShape(me.asked) /\ me.iter \in Nat /\ me.up \in BOOLEAN
  /\ DOMAIN me.last = {"may", "checked", "since", "told"}
  /\ ~me.up => me.last = NoCall
  /\ me.up /\ Sound(me.asked) => Scheduled(me)
  /\ LastRight(me)

-----------------------------------------------------------------------------
(* The pointers. *)
SlotType == [state : {"none", "used", "freed"}, size : Nat, iter : Nat]
MineType == [size : Nat, new : BOOLEAN]

(* What the process has, going by the answers it got, is what the library  *)
(* has in use for it, with the same size; and it is new exactly when the   *)
(* library counts it as changed since the mark.                            *)
Owned(me, q) ==
  IF Used(me, q)
  THEN /\ me.mine[q].size = me.slots[q].size
       /\ me.mine[q].new <=> me.slots[q].iter > me.mark
       /\ me.slots[q].iter > 0 /\ me.slots[q].iter <= me.iter
  ELSE me.mine[q] = [size |-> 0, new |-> FALSE]
ToldRight(me) ==
  LET Counts(q) == me.last.since = "start" \/ me.mine[q].new
      owned == {q \in Pointers : Counts(q)}
  IN me.last.since # "none" =>
       me.last.told = SumFunctionOnSet([q \in Pointers |-> me.mine[q].size], owned)
Ledger(me) ==
  /\ me.slots \in [Pointers -> SlotType] /\ me.mine \in [Pointers -> MineType]
  /\ me.mark \in Nat /\ me.iter \in Nat /\ me.mark <= me.iter
  /\ me.alive => \A q \in Pointers : Owned(me, q)
  /\ ToldRight(me)

CallInv ==
  /\ program \in Programs
  /\ DOMAIN lib = Pids
  /\ \A p \in Pids : DOMAIN lib[p] = Fields /\ ClockInv(lib[p]) /\ Ledger(lib[p])

-----------------------------------------------------------------------------
(* The log, the messages and the errors leave the clock and the pointers   *)
(* alone; an error may stop the process, and nothing brings it back.       *)
Spoke(v, w) == Quiet(v, w) /\ w.me.alive = v.me.alive
Erred(v, w) == Quiet(v, w) /\ (w.me.alive => v.me.alive)
LEMMA QuietIsTransitive ==
  ASSUME NEW u, NEW v, NEW w, Shape(u), Quiet(u, v), Quiet(v, w)
  PROVE  Quiet(u, w)
BY DEF Quiet, Alike, Shape

LEMMA PutSpoke == ASSUME NEW v, Shape(v), NEW kind PROVE Spoke(v, Put(v, kind))
BY DEF Spoke, Quiet, Alike, Shape, Put, Fields, Noise

LEMMA OpenedSpoke == ASSUME NEW v, Shape(v) PROVE Spoke(v, Opened(v))
BY DEF Spoke, Quiet, Alike, Shape, Opened, Fields, Noise

LEMMA CheckPidSpoke == ASSUME NEW v, Shape(v) PROVE Spoke(v, CheckPid(v))
<1>1. ASSUME NEW w, Shape(w) PROVE Spoke(w, CloseOpen(w))
  BY <1>1, PutSpoke DEF CloseOpen, Spoke, Quiet, Alike, Shape, Fields, Noise
<1>2. PICK now : now = [v EXCEPT !.me.current = v.pid]
  OBVIOUS
<1>3. Spoke(v, now)
  BY <1>2 DEF Spoke, Quiet, Alike, Shape, Fields, Noise
<1>4. Spoke(now, CloseOpen(now))
  BY <1>1, <1>3 DEF Spoke, Quiet
<1>5. CheckPid(v) \in {now, CloseOpen(now)}
  BY <1>2 DEF CheckPid
<1> QED BY <1>3, <1>4, <1>5, QuietIsTransitive DEF Spoke

LEMMA SpokeTwice ==
  ASSUME NEW u, Shape(u), NEW w, Spoke(u, w), NEW x, Spoke(w, x) PROVE Spoke(u, x)
BY QuietIsTransitive DEF Spoke

LEMMA SpokeNothing == ASSUME NEW w, Shape(w) PROVE Spoke(w, w)
BY DEF Spoke, Quiet, Alike

LEMMA OpenLogSpoke == ASSUME NEW v, Shape(v) PROVE Spoke(v, OpenLog(v))
<1>1. ASSUME NEW w, Shape(w) PROVE Spoke(w, OpenAgain(w))
  <2>1. Spoke(w, Opened(w)) /\ Shape(Opened(w))
    BY <1>1, OpenedSpoke DEF Spoke, Quiet
  <2>2. Spoke(Opened(w), Put(Opened(w), "header"))
    BY <2>1, PutSpoke
  <2>3. Spoke(w, Put(Opened(w), "header"))
    BY <1>1, <2>1, <2>2, SpokeTwice
  <2> QED BY <1>1, <2>3, SpokeNothing DEF OpenAgain
<1>2. ASSUME NEW w, Shape(w) PROVE Spoke(w, Header(w))
  <2>1. Spoke(w, CheckPid(w)) /\ Shape(CheckPid(w))
    BY <1>2, CheckPidSpoke DEF Spoke, Quiet
  <2>2. Spoke(CheckPid(w), OpenAgain(CheckPid(w))) /\ Shape(OpenAgain(CheckPid(w)))
    BY <1>1, <2>1 DEF Spoke, Quiet
  <2>3. Spoke(OpenAgain(CheckPid(w)), Put(OpenAgain(CheckPid(w)), "header"))
    BY <2>2, PutSpoke
  <2>4. Spoke(w, OpenAgain(CheckPid(w)))
    BY <1>2, <2>1, <2>2, SpokeTwice
  <2>5. Spoke(w, Put(OpenAgain(CheckPid(w)), "header"))
    BY <1>2, <2>3, <2>4, SpokeTwice
  <2> QED BY <1>2, <2>5, SpokeNothing DEF Header
<1>3. Spoke(v, Opened(v)) /\ Shape(Opened(v))
  BY OpenedSpoke DEF Spoke, Quiet
<1>4. Spoke(Opened(v), Header(Opened(v)))
  BY <1>2, <1>3
<1>5. Spoke(v, Header(Opened(v)))
  BY <1>3, <1>4, SpokeTwice
<1> QED BY <1>5, SpokeNothing DEF OpenLog

LEMMA VmessageSpoke == ASSUME NEW v, Shape(v), NEW kind PROVE Spoke(v, Vmessage(v, kind))
<1>1. Spoke(v, CheckPid(v)) /\ Shape(CheckPid(v))
  BY CheckPidSpoke DEF Spoke, Quiet
<1>2. Spoke(CheckPid(v), OpenLog(CheckPid(v))) /\ Shape(OpenLog(CheckPid(v)))
  BY <1>1, OpenLogSpoke DEF Spoke, Quiet
<1>3. Spoke(OpenLog(CheckPid(v)), PutOpen(OpenLog(CheckPid(v)), kind))
  BY <1>2, PutSpoke, SpokeNothing DEF PutOpen
<1>4. Spoke(v, OpenLog(CheckPid(v)))
  BY <1>1, <1>2, SpokeTwice
<1>5. Spoke(v, PutOpen(OpenLog(CheckPid(v)), kind))
  BY <1>3, <1>4, SpokeTwice
<1> QED BY <1>5, SpokeNothing DEF Vmessage

LEMMA SpeakSpoke == ASSUME NEW v, Shape(v), NEW kind PROVE Spoke(v, Speak(v, kind))
<1>1. Spoke(v, Vmessage(v, kind)) /\ Shape(Vmessage(v, kind))
  BY VmessageSpoke DEF Spoke, Quiet
<1>2. ASSUME NEW w, Shape(w) PROVE Spoke(w, Sent(w, kind))
  BY <1>2 DEF Sent, Spoke, Quiet, Alike, Shape, Fields, Noise
<1> QED BY <1>1, <1>2, QuietIsTransitive DEF Speak, Spoke

LEMMA ReopenLogSpoke == ASSUME NEW v, Shape(v) PROVE Spoke(v, ReopenLog(v))
<1>1. Spoke(v, Vmessage(v, "closing"))
  BY VmessageSpoke
<1> QED BY <1>1 DEF ReopenLog, Spoke, Quiet, Alike, Shape, Fields, Noise

LEMMA DieErred == ASSUME NEW v, Shape(v) PROVE Erred(v, Die(v)) /\ ~Die(v).me.alive
BY DEF Die, Erred, Quiet, Alike, Shape, Fields, Noise

LEMMA DmallocErrorErred == ASSUME NEW v, Shape(v) PROVE Erred(v, DmallocError(v))
<1>1. Spoke(v, Speak(v, "error")) /\ Shape(Speak(v, "error"))
  BY SpeakSpoke DEF Spoke, Quiet
<1>2. Erred(Speak(v, "error"), Die(Speak(v, "error")))
  BY <1>1, DieErred
<1> QED BY <1>1, <1>2, QuietIsTransitive DEF DmallocError, Abort, Spoke, Erred

LEMMA TransSpoke == ASSUME NEW v, Shape(v) PROVE Spoke(v, Trans(v))
BY SpeakSpoke DEF Trans, Spoke, Quiet, Alike

LEMMA CheckPntErred == ASSUME NEW v, Shape(v), NEW pnt PROVE Erred(v, CheckPnt(v, pnt))
<1>1. PICK u : u = [v EXCEPT !.me.addr_c = @ + 1]
  OBVIOUS
<1>2. Spoke(v, u)
  BY <1>1 DEF Spoke, Quiet, Alike, Shape, Fields, Noise
<1>3. PICK w : w = Speak(u, "found")
  OBVIOUS
<1>4. Spoke(u, w)
  BY <1>2, <1>3, SpeakSpoke DEF Spoke, Quiet
<1>5. Spoke(v, w)
  BY <1>2, <1>4, QuietIsTransitive DEF Spoke
<1>6. Erred(w, SeenOften(w))
  BY <1>5, DmallocErrorErred DEF SeenOften, Spoke, Erred, Quiet, Alike
<1>7. CheckPnt(v, pnt) \in {v, SeenOften(w)}
  BY <1>1, <1>3 DEF CheckPnt
<1>8. Erred(v, v)
  BY DEF Erred, Quiet, Alike
<1> QED BY <1>5, <1>6, <1>7, <1>8, QuietIsTransitive DEF Spoke, Erred

LEMMA WarnMemalignSpoke ==
  ASSUME NEW v, Shape(v), NEW alignment PROVE Spoke(v, WarnMemalign(v, alignment))
<1>1. Spoke(v, Speak(v, "warning"))
  BY SpeakSpoke
<1> QED BY <1>1 DEF WarnMemalign, Spoke, Quiet, Alike, Shape, Fields, Noise

(* The lines of a dump: the function the model writes them with exists, so *)
(* it does what its equation says.                                         *)
Lines(g, v, n) ==
  g = [k \in 0 .. n |-> IF k = 0 THEN Speak(v, "dump") ELSE Speak(g[k - 1], "listed")]

LEMMA LinesExist == ASSUME NEW v, NEW n \in Nat PROVE \E g : Lines(g, v, n)
<1> DEFINE Without == {k \in Nat : ~ \E g : Lines(g, v, k)}
<1> SUFFICES ASSUME n \in Without PROVE FALSE
  OBVIOUS
<1>1. PICK m \in Without : \A k \in Without : m <= k
  BY LeastNumber
<1>2. m \in Nat /\ (~ \E g : Lines(g, v, m)) /\ (m > 0 => \E g : Lines(g, v, m - 1))
  BY <1>1
<1> HIDE DEF Without
<1>3. m > 0
  <2>1. Lines([k \in 0 .. 0 |-> Speak(v, "dump")], v, 0)
    BY DEF Lines
  <2> QED BY <1>2, <2>1
<1>4. PICK g : Lines(g, v, m - 1)
  BY <1>2, <1>3
<1> DEFINE more == [k \in 0 .. m |-> IF k = m THEN Speak(g[m - 1], "listed") ELSE g[k]]
           line(k) == IF k = 0 THEN Speak(v, "dump") ELSE Speak(more[k - 1], "listed")
<1>5. ASSUME NEW k \in 0 .. m PROVE more[k] = line(k)
  <2>1. CASE k = m
    <3>1. m - 1 \in 0 .. m /\ m - 1 # m
      BY <1>2, <1>3
    <3> QED BY <1>3, <2>1, <3>1
  <2>2. CASE k # m
    <3>1. k \in 0 .. m - 1 /\ (k # 0 => k - 1 \in 0 .. m /\ k - 1 # m)
      BY <1>2, <2>2
    <3>2. g[k] = IF k = 0 THEN Speak(v, "dump") ELSE Speak(g[k - 1], "listed")
      BY <1>4, <3>1 DEF Lines
    <3> QED BY <2>2, <3>1, <3>2
  <2> QED BY <2>1, <2>2
<1>6. Lines(more, v, m)
  <2>1. more = [k \in 0 .. m |-> more[k]]
    OBVIOUS
  <2> HIDE DEF more
  <2> QED BY <1>5, <2>1 DEF Lines
<1> QED BY <1>2, <1>6

LEMMA LinesSpoke ==
  ASSUME NEW v, Shape(v), NEW n \in Nat, NEW g, Lines(g, v, n), NEW k \in 0 .. n
  PROVE  Spoke(v, g[k])
<1> DEFINE Wrong == {i \in Nat : i \in 0 .. n /\ ~Spoke(v, g[i])}
<1> SUFFICES ASSUME k \in Wrong PROVE FALSE
  OBVIOUS
<1>1. PICK m \in Wrong : \A i \in Wrong : m <= i
  BY LeastNumber
<1>2. m \in 0 .. n /\ ~Spoke(v, g[m]) /\ (m > 0 => Spoke(v, g[m - 1]))
  BY <1>1
<1> HIDE DEF Wrong
<1>3. g[m] = IF m = 0 THEN Speak(v, "dump") ELSE Speak(g[m - 1], "listed")
  BY <1>2 DEF Lines
<1>4. CASE m = 0
  BY <1>2, <1>3, <1>4, SpeakSpoke
<1>5. CASE m # 0
  <2>1. Spoke(v, g[m - 1])
    BY <1>2, <1>5
  <2>2. Spoke(g[m - 1], Speak(g[m - 1], "listed"))
    BY <2>1, SpeakSpoke DEF Spoke, Quiet
  <2> QED BY <1>2, <1>3, <1>5, <2>1, <2>2, QuietIsTransitive DEF Spoke
<1> QED BY <1>4, <1>5

LEMMA DumpChangedSpoke ==
  ASSUME NEW v, Shape(v), NEW mark PROVE Spoke(v, DumpChanged(v, mark))
<1> DEFINE n == Cardinality(Changed(v.me, mark))
<1>1. n \in Nat
  <2>1. Changed(v.me, mark) \subseteq Pointers
    BY DEF Changed
  <2> QED BY <2>1, FS_Subset, FS_CardinalityType, CallAssumption
<1> DEFINE g == CHOOSE h : Lines(h, v, n)
<1>2. Lines(g, v, n)
  <2> HIDE DEF n
  <2> QED BY <1>1, LinesExist
<1>3. DumpChanged(v, mark) = g[n]
  BY DEF DumpChanged, Lines
<1> HIDE DEF n, g
<1> QED BY <1>1, <1>2, <1>3, LinesSpoke

-----------------------------------------------------------------------------
(* The schedule of heap checks.  What ticks with a call, as the steps of    *)
(* the schedule leave it.                                                  *)
Counted(me) == [me EXCEPT !.iter = @ + 1]
Ticked(me, next) ==
  /\ DOMAIN next = Fields
  /\ Alike(me, next, Fields \ {"flags", "start", "iter"})
  /\ next.iter = me.iter + 1

LEMMA ScheduleTicks ==
  ASSUME NEW me, DOMAIN me = Fields, NEW place
  PROVE  Ticked(me, Schedule(Counted(me), place))
<1>1. PICK now : now = Counted(me)
  OBVIOUS
<1>2. Ticked(me, now)
  BY <1>1 DEF Counted, Ticked, Alike, Fields
<1>3. ASSUME NEW next, DOMAIN next = Fields, Alike(now, next, Fields \ {"flags", "start"})
      PROVE  Ticked(me, next)
  BY <1>2, <1>3 DEF Ticked, Alike, Fields
<1>4. DOMAIN Begin(now) = Fields /\ Alike(now, Begin(now), Fields \ {"flags", "start"})
  BY <1>2 DEF Begin, Ticked, Alike, Fields
<1>5. DOMAIN CountDown(now) = Fields /\ Alike(now, CountDown(now), Fields \ {"flags", "start"})
  BY <1>2, <1>4 DEF CountDown, Ticked, Alike, Fields
<1>6. DOMAIN EveryNth(now) = Fields /\ Alike(now, EveryNth(now), Fields \ {"flags", "start"})
  BY <1>2 DEF EveryNth, Ticked, Alike, Fields
<1> QED BY <1>1, <1>2, <1>3, <1>4, <1>5, <1>6 DEF Schedule

(* What the schedule does to the start and to check-heap.                  *)
Comes(me, place) == ~Checks(me) /\ AtStart(me.start, place)
Does(me, place, next) ==
  /\ Comes(me, place) \/ me.start.iter = 1 => next.start = NoStart /\ Checks(next)
  /\ me.start.iter > 1 => /\ next.start = [me.start EXCEPT !.iter = me.start.iter - 1]
                          /\ Checks(next) <=> Checks(me)
  /\ me.start.iter = 0 /\ ~Comes(me, place) =>
       /\ next.start = me.start
       /\ IF me.interval > 0 THEN Checks(next) <=> (me.iter + 1) % me.interval = 0
                             ELSE Checks(next) <=> Checks(me)

LEMMA ScheduleDoes ==
  ASSUME NEW me, DOMAIN me = Fields, NEW place, StartRead(me.start), me.start.size = 0,
         me.interval \in Nat,
         NEW next, next = Schedule(Counted(me), place)
  PROVE  Does(me, place, next)
<1>1. PICK now : now = Counted(me)
  OBVIOUS
<1>2. /\ DOMAIN now = Fields /\ now.start = me.start /\ now.flags = me.flags
      /\ now.interval = me.interval /\ now.iter = me.iter + 1
  BY <1>1 DEF Counted, Fields
<1>3. Begin(now).start = NoStart /\ Checks(Begin(now))
  BY <1>2 DEF Begin, Checks, Fields
<1>4. /\ EveryNth(now).start = me.start
      /\ Checks(EveryNth(now)) <=> now.iter % now.interval = 0
  BY <1>2 DEF EveryNth, Checks, Fields
<1>5. now.start.iter # 1 => /\ CountDown(now).start = [me.start EXCEPT !.iter = me.start.iter - 1]
                            /\ CountDown(now).flags = me.flags
  BY <1>2 DEF CountDown, Fields
<1>6. next = IF Comes(me, place) THEN Begin(now)
             ELSE IF me.start.iter > 0 THEN CountDown(now)
             ELSE IF me.interval > 0 THEN EveryNth(now)
             ELSE now
  BY <1>1, <1>2 DEF Schedule, Comes, Checks
<1>7. me.start.iter \in Nat /\ (me.start.iter > 0 => ~Comes(me, place))
  BY DEF StartRead, AtStart, Comes
<1>8. CASE Comes(me, place)
  BY <1>3, <1>6, <1>7, <1>8 DEF Does
<1>9. CASE ~Comes(me, place) /\ me.start.iter = 1
  <2>1. next = Begin(now)
    BY <1>2, <1>6, <1>9 DEF CountDown
  <2> QED BY <1>3, <1>9, <2>1 DEF Does
<1>10. CASE ~Comes(me, place) /\ me.start.iter > 1
  <2>1. next = CountDown(now) /\ now.start.iter # 1
    BY <1>2, <1>6, <1>7, <1>10
  <2>2. next.flags = me.flags /\ next.start = [me.start EXCEPT !.iter = me.start.iter - 1]
    BY <1>5, <2>1
  <2> QED BY <1>7, <1>10, <2>2 DEF Does, Checks
<1>11. CASE ~Comes(me, place) /\ me.start.iter = 0
  BY <1>2, <1>4, <1>6, <1>7, <1>11 DEF Does, Checks
<1> QED BY <1>7, <1>8, <1>9, <1>10, <1>11

(* Counted and scheduled: a call of a started process keeps the schedule   *)
(* where the settings want it, and checks the heap when they ask for it.   *)
Call(me, place, may) == Entered(Schedule(Counted(me), place), place, may)

CalledIn(me, place, may, you) ==
  /\ DOMAIN you = Fields /\ you.iter = me.iter + 1
  /\ Alike(me, you, Fields \ {"flags", "start", "iter", "last", "asked"})
  /\ DOMAIN you.last = {"may", "checked", "since", "told"}
  /\ you.last.may = may /\ you.last.checked = (may /\ Checks(you))
  /\ you.last.since = "none"
  /\ AskedShape(you.asked)
  /\ you.asked.set = me.asked.set /\ you.asked.flags = me.asked.flags
  /\ you.asked.first = me.asked.first /\ you.asked.touched = me.asked.touched
  /\ you.asked.calls = me.asked.calls + 1
  /\ you.asked.reached <=> me.asked.reached \/ AtStart(me.asked.set.start, place)

LEMMA CallEnters ==
  ASSUME NEW me, DOMAIN me = Fields, AskedShape(me.asked), me.iter \in Nat,
         NEW place, NEW may \in BOOLEAN, NEW you, you = Call(me, place, may)
  PROVE  CalledIn(me, place, may, you)
<1>1. PICK next : next = Schedule(Counted(me), place)
  OBVIOUS
<1>2. Ticked(me, next)
  BY <1>1, ScheduleTicks
<1>3. you = Entered(next, place, may)
  BY <1>1 DEF Call
<1>4. next.asked = me.asked /\ DOMAIN next = Fields /\ next.iter = me.iter + 1
  BY <1>2 DEF Ticked, Alike, Fields
<1>5. DOMAIN you = Fields /\ Alike(next, you, Fields \ {"last", "asked"})
  BY <1>3, <1>4 DEF Entered, Alike, Fields
<1>6. Alike(me, you, Fields \ {"flags", "start", "iter", "last", "asked"}) /\ you.iter = me.iter + 1
  BY <1>2, <1>5 DEF Ticked, Alike, Fields
<1>7. you.last = [NoCall EXCEPT !.may = may, !.checked = may /\ Checks(next)]
  BY <1>3, <1>4 DEF Entered, Checks, Fields
<1>8. /\ DOMAIN you.last = {"may", "checked", "since", "told"}
      /\ you.last.may = may /\ you.last.since = "none"
  BY <1>7 DEF NoCall
<1>9. you.last.checked = (may /\ Checks(next))
  BY <1>7 DEF NoCall
<1>10. Checks(next) <=> Checks(you)
  BY <1>5 DEF Checks, Alike, Fields
<1>11. you.asked = [me.asked EXCEPT !.calls = @ + 1,
                      !.reached = @ \/ AtStart(me.asked.set.start, place)]
  BY <1>3, <1>4 DEF Entered, Fields
<1>12. /\ DOMAIN you.asked = DOMAIN me.asked
       /\ you.asked.set = me.asked.set /\ you.asked.flags = me.asked.flags
       /\ you.asked.first = me.asked.first /\ you.asked.touched = me.asked.touched
       /\ you.asked.calls = me.asked.calls + 1
  BY <1>11 DEF AskedShape
<1>13. you.asked.reached = (me.asked.reached \/ AtStart(me.asked.set.start, place))
  BY <1>11 DEF AskedShape
<1>14. AskedShape(you.asked)
  <2>1. you.asked.reached \in BOOLEAN
    BY <1>13
  <2> QED BY <1>12, <2>1 DEF AskedShape
<1>15. you.last.checked = (may /\ Checks(you))
  BY <1>9, <1>10
<1> QED BY <1>4, <1>5, <1>6, <1>8, <1>12, <1>13, <1>14, <1>15 DEF CalledIn

LEMMA CallScheduled ==
  ASSUME NEW me, DOMAIN me = Fields, AskedShape(me.asked), me.iter \in Nat,
         Sound(me.asked), Scheduled(me),
         NEW place, NEW may \in BOOLEAN, NEW you, you = Call(me, place, may)
  PROVE  Scheduled(you) /\ (Checks(you) <=> Due(you))
<1>1. PICK next : next = Schedule(Counted(me), place)
  OBVIOUS
<1> DEFINE a == me.asked  start == me.asked.set.start  length == me.asked.set.interval
           b == you.asked
<1>2. Ticked(me, next)
  BY <1>1, ScheduleTicks
<1>3. you = Entered(next, place, may)
  BY <1>1 DEF Call
<1>4. /\ next.asked = me.asked /\ DOMAIN next = Fields /\ next.iter = me.iter + 1
      /\ next.interval = me.interval
  BY <1>2 DEF Ticked, Alike, Fields
<1>5. you.start = next.start /\ you.flags = next.flags /\ you.iter = me.iter + 1 /\ you.interval = me.interval
  BY <1>3, <1>4 DEF Entered, Fields
<1>6. Checks(you) <=> Checks(next)
  BY <1>5 DEF Checks
<1>7. /\ b.set = a.set /\ b.flags = a.flags /\ b.calls = a.calls + 1 /\ a.calls \in Nat
      /\ length \in Nat /\ StartRead(start) /\ start.size = 0 /\ me.interval = length
      /\ b.reached <=> a.reached \/ AtStart(start, place)
  <2>1. CalledIn(me, place, may, you)
    BY CallEnters
  <2> QED BY <2>1 DEF CalledIn, AskedShape, Sound, Scheduled
<1>8. you.interval = b.set.interval
  BY <1>5, <1>7
<1>9. /\ start.iter \in Nat /\ (start.file # NoFile => start.iter = 0 /\ start.line \in Nat /\ length = 0)
      /\ start.iter = 0 /\ start.file = NoFile => start = NoStart
      /\ start = [file |-> start.file, line |-> start.line, iter |-> start.iter, size |-> start.size]
  BY <1>7 DEF StartRead, Sound, NoStart
<1>10. StartRead(NoStart) /\ NoStart.size = 0 /\ NoStart.iter = 0 /\ NoStart.file = NoFile
  BY DEF StartRead, NoStart
<1>14. ASSUME StartRead(me.start), me.start.size = 0 PROVE Does(me, place, next)
  BY <1>1, <1>7, <1>14, ScheduleDoes
<1>11. CASE start.iter > 0
  <2>1. start.file = NoFile /\ start.line = 0 /\ start # NoStart /\ ~AtStart(start, place)
    BY <1>9, <1>10, <1>11, <1>7 DEF StartRead, AtStart
  <2>2. CountsCalls(me)
    BY <1>11 DEF Scheduled
  <2>3. CASE a.calls < start.iter
    <3>1. /\ me.start = [start EXCEPT !.iter = start.iter - a.calls] /\ ~Checks(me)
          /\ StartRead(me.start) /\ me.start.size = 0 /\ me.start.iter = start.iter - a.calls
      BY <1>7, <1>9, <2>1, <2>2, <2>3 DEF CountsCalls, StartRead
    <3>2. ~AtStart(me.start, place)
      BY <2>1, <3>1 DEF AtStart
    <3>3. CASE start.iter - a.calls = 1
      <4>1. next.start = NoStart /\ Checks(next)
        BY <1>14, <1>7, <3>1, <3>3 DEF Does, Comes
      <4>2. ~(b.calls < start.iter) /\ b.calls = start.iter
        BY <1>7, <1>9, <3>3
      <4> QED BY <1>5, <1>6, <1>7, <1>8, <1>11, <2>1, <4>1, <4>2
              DEF Scheduled, CountsCalls, Due
    <3>4. CASE start.iter - a.calls # 1
      <4>1. /\ next.start = [me.start EXCEPT !.iter = me.start.iter - 1] /\ (Checks(next) <=> Checks(me))
        BY <1>14, <1>7, <1>9, <2>3, <3>1, <3>4 DEF Does, Comes
      <4>2. b.calls < start.iter /\ ~(b.calls >= start.iter)
        BY <1>7, <1>9, <2>3, <3>4
      <4>3. me.start.iter - 1 = start.iter - b.calls
        BY <1>7, <1>9, <3>1
      <4>4. next.start = [start EXCEPT !.iter = start.iter - b.calls]
        BY <1>9, <3>1, <4>1, <4>3
      <4> QED BY <1>5, <1>6, <1>7, <1>8, <1>11, <2>1, <3>1, <4>1, <4>2, <4>4
              DEF Scheduled, CountsCalls, Due
    <3> QED BY <3>3, <3>4
  <2>4. CASE ~(a.calls < start.iter)
    <3>1. me.start = NoStart /\ (length = 0 => Checks(me)) /\ ~AtStart(me.start, place)
      BY <1>10, <2>2, <2>4 DEF CountsCalls, AtStart
    <3>2. next.start = NoStart
          /\ IF length > 0 THEN Checks(next) <=> (me.iter + 1) % length = 0 ELSE Checks(next) <=> Checks(me)
      BY <1>14, <1>7, <1>10, <3>1 DEF Does, Comes
    <3>3. ~(b.calls < start.iter) /\ b.calls >= start.iter /\ b.calls # start.iter
      BY <1>7, <1>9, <2>4
    <3>4. length = 0 \/ length > 0
      BY <1>7
    <3> QED BY <1>5, <1>6, <1>7, <1>8, <1>11, <2>1, <3>1, <3>2, <3>3, <3>4
            DEF Scheduled, CountsCalls, Due
  <2> QED BY <2>3, <2>4
<1>12. CASE start.file # NoFile
  <2>1. start.iter = 0 /\ start # NoStart /\ length = 0 /\ AwaitsPlace(me)
    BY <1>9, <1>10, <1>12 DEF Scheduled
  <2>2. CASE a.reached
    <3>1. me.start = NoStart /\ Checks(me) /\ ~AtStart(me.start, place)
      BY <1>10, <2>1, <2>2 DEF AwaitsPlace, AtStart
    <3>2. next.start = NoStart /\ Checks(next)
      BY <1>14, <1>7, <1>10, <2>1, <3>1 DEF Does, Comes
    <3> QED BY <1>5, <1>6, <1>7, <1>8, <1>12, <2>1, <2>2, <3>2
            DEF Scheduled, AwaitsPlace, Due
  <2>3. CASE ~a.reached
    <3>1. me.start = start /\ ~Checks(me)
      BY <2>1, <2>3 DEF AwaitsPlace
    <3>2. CASE AtStart(start, place)
      <4>1. next.start = NoStart /\ Checks(next)
        BY <1>14, <1>7, <3>1, <3>2 DEF Does, Comes
      <4> QED BY <1>5, <1>6, <1>7, <1>8, <1>12, <2>1, <3>2, <4>1
              DEF Scheduled, AwaitsPlace, Due
    <3>3. CASE ~AtStart(start, place)
      <4>1. next.start = start /\ ~Checks(next)
        BY <1>14, <1>7, <2>1, <3>1, <3>3 DEF Does, Comes
      <4> QED BY <1>5, <1>6, <1>7, <1>8, <1>12, <2>1, <2>3, <3>3, <4>1
              DEF Scheduled, AwaitsPlace, Due
    <3> QED BY <3>2, <3>3
  <2> QED BY <2>2, <2>3
<1>13. CASE start = NoStart
  <2>1. FromTheFirst(me) /\ start.iter = 0 /\ start.file = NoFile
    BY <1>10, <1>13 DEF Scheduled
  <2>2. me.start = NoStart /\ (length = 0 => (Checks(me) <=> "check-heap" \in a.flags))
        /\ ~AtStart(me.start, place)
    BY <1>10, <2>1 DEF FromTheFirst, AtStart
  <2>3. next.start = NoStart
        /\ IF length > 0 THEN Checks(next) <=> (me.iter + 1) % length = 0 ELSE Checks(next) <=> Checks(me)
    BY <1>14, <1>7, <1>10, <2>2 DEF Does, Comes
  <2>4. length = 0 \/ length > 0
    BY <1>7
  <2> QED BY <1>5, <1>6, <1>7, <1>8, <1>13, <2>1, <2>2, <2>3, <2>4
          DEF Scheduled, FromTheFirst, Due
<1> QED BY <1>9, <1>11, <1>12, <1>13

-----------------------------------------------------------------------------
(* Settings and startup: the schedule begins anew, and what the ledger     *)
(* goes by is left alone.                                                  *)
Books == {"alive", "iter", "slots", "mark", "mine"}
Later(set) == set.start.iter > 0 \/ set.start.size > 0
SetAnew(set, first, me) ==
  /\ me.asked = [set |-> set, flags |-> set.flags, first |-> first, calls |-> 0,
                 reached |-> FALSE, touched |-> FALSE]
  /\ me.last = NoCall /\ me.interval = set.interval /\ me.start = set.start
SetWell(set) == set.interval \in Nat /\ StartRead(set.start)
FlagsSet(set) == IF Later(set) THEN set.flags \ {"check-heap"} ELSE set.flags
Environed(v, set, first, w) ==
  /\ Shape(w) /\ w.pid = v.pid /\ Alike(v.me, w.me, Books \cup {"up"})
  /\ SetAnew(set, first, w.me) /\ w.me.flags = FlagsSet(set)

LEMMA EnvironDoes ==
  ASSUME NEW v, Shape(v), NEW set, NEW first,
         NEW w, w = ProcessEnviron(v, set, first)
  PROVE  Environed(v, set, first, w)
<1> DEFINE me == [v.me EXCEPT
               !.flags = FlagsSet(set), !.logpath = set.logpath, !.interval = set.interval,
               !.start = set.start, !.addr = set.addr, !.seen = set.seen]
           reset == [set |-> set, flags |-> set.flags, first |-> first, calls |-> 0,
                     reached |-> FALSE, touched |-> FALSE]
<1>1. PICK u : u = [v EXCEPT !.me = me]
  OBVIOUS
<1>2. /\ Shape(u) /\ u.pid = v.pid /\ Alike(v.me, u.me, Books \cup {"up"})
      /\ u.me.interval = set.interval /\ u.me.start = set.start
      /\ u.me.flags = FlagsSet(set)
  BY <1>1 DEF Shape, Alike, Fields, Books
<1>3. PICK x : x = ReopenLog(u)
  OBVIOUS
<1>4. Spoke(u, x)
  BY <1>2, <1>3, ReopenLogSpoke
<1>5. w = [x EXCEPT !.me.sent = <<>>, !.me.asked = reset, !.me.last = NoCall]
  BY <1>1, <1>3 DEF ProcessEnviron, FlagsSet, Later
<1> HIDE DEF me, reset
<1>6. Shape(x) /\ x.pid = v.pid /\ Alike(u.me, x.me, Books \cup {"up", "interval", "start", "flags"})
  BY <1>2, <1>4 DEF Spoke, Quiet, Alike, Noise, Fields, Books
<1>7. /\ Shape(w) /\ w.pid = v.pid /\ w.me.asked = reset /\ w.me.last = NoCall
      /\ Alike(x.me, w.me, Books \cup {"up", "interval", "start", "flags"})
  <2>1. PICK you : you = [x.me EXCEPT !.sent = <<>>, !.asked = reset, !.last = NoCall]
    OBVIOUS
  <2>2. DOMAIN w = DOMAIN x /\ w.pid = x.pid /\ w.me = you
    BY <1>5, <1>6, <2>1 DEF Shape
  <2>3. /\ DOMAIN you = Fields /\ you.asked = reset /\ you.last = NoCall
        /\ Alike(x.me, you, Fields \ {"sent", "asked", "last"})
    BY <1>6, <2>1 DEF Shape, Alike, Fields
  <2>4. Alike(x.me, you, Books \cup {"up", "interval", "start", "flags"})
    BY <2>3 DEF Alike, Fields, Books
  <2> QED BY <1>6, <2>2, <2>3, <2>4 DEF Shape
<1>8. Alike(v.me, w.me, Books \cup {"up"})
  BY <1>2, <1>6, <1>7 DEF Alike
<1>9. w.me.interval = set.interval /\ w.me.start = set.start /\ w.me.flags = u.me.flags
  BY <1>2, <1>6, <1>7 DEF Alike
<1> QED BY <1>2, <1>7, <1>8, <1>9 DEF Environed, SetAnew, reset

LEMMA AnewAsked ==
  ASSUME NEW set, SetWell(set), NEW first \in BOOLEAN, NEW me, SetAnew(set, first, me)
  PROVE  AskedShape(me.asked) /\ DOMAIN me.last = {"may", "checked", "since", "told"} /\ LastRight(me)
BY DEF SetWell, SetAnew, AskedShape, NoCall, LastRight

LEMMA AnewScheduled ==
  ASSUME NEW set, SetWell(set), NEW first \in BOOLEAN, NEW me, SetAnew(set, first, me),
         Sound(me.asked),
         set.start.iter > 0 \/ (first /\ set.start # NoStart) => ~Checks(me),
         (set.start = NoStart /\ set.interval = 0) \/ ~first =>
           me.flags = FlagsSet(set)
  PROVE  Scheduled(me)
<1>1. /\ me.asked.set = set /\ me.asked.flags = set.flags /\ me.asked.calls = 0
      /\ me.asked.reached = FALSE /\ me.asked.first = first
      /\ me.interval = set.interval /\ me.start = set.start
  BY DEF SetAnew
<1>2. /\ set.interval \in Nat /\ set.start.iter \in Nat /\ set.start.size = 0
      /\ set.start = [file |-> set.start.file, line |-> set.start.line,
                      iter |-> set.start.iter, size |-> set.start.size]
  BY <1>1 DEF SetWell, StartRead, Sound
<1>3. NoStart.iter = 0 /\ NoStart.file = NoFile
  BY DEF NoStart
<1>4. set.start.iter > 0 => CountsCalls(me)
  <2>1. SUFFICES ASSUME set.start.iter > 0 PROVE CountsCalls(me)
    OBVIOUS
  <2>2. ~Checks(me) /\ 0 < set.start.iter /\ set.start.iter - 0 = set.start.iter
    BY <1>2, <2>1
  <2>3. [set.start EXCEPT !.iter = set.start.iter] = set.start
    BY <1>2
  <2> QED BY <1>1, <2>2, <2>3 DEF CountsCalls
<1>5. set.start.file # NoFile => AwaitsPlace(me)
  <2>1. SUFFICES ASSUME set.start.file # NoFile PROVE AwaitsPlace(me)
    OBVIOUS
  <2>2. set.start # NoStart /\ ~Later(set)
    BY <1>2, <1>3, <2>1 DEF Later, SetWell, StartRead
  <2>3. first \/ "check-heap" \notin set.flags
    BY <1>1, <2>1 DEF Sound
  <2>4. ~Checks(me)
    BY <2>2, <2>3 DEF Checks, FlagsSet
  <2> QED BY <1>1, <2>4 DEF AwaitsPlace
<1>6. set.start = NoStart => FromTheFirst(me)
  <2>1. SUFFICES ASSUME set.start = NoStart PROVE FromTheFirst(me)
    OBVIOUS
  <2>2. ~Later(set)
    BY <1>2, <1>3, <2>1 DEF Later
  <2> QED BY <1>1, <2>1, <2>2 DEF FromTheFirst, Checks, FlagsSet
<1> QED BY <1>1, <1>4, <1>5, <1>6 DEF Scheduled

(* A view of a process the clock's invariant holds for.                    *)
Clocked(v) == Shape(v) /\ ClockInv(v.me)

LEMMA StartupClocked ==
  ASSUME NEW v, Clocked(v), NEW set, SetWell(set), NEW w, w = DmallocStartup(v, set)
  PROVE  Clocked(w) /\ w.pid = v.pid /\ w.me.up /\ Alike(v.me, w.me, Books)
         /\ (v.me.up => w = v) /\ (~v.me.up => w.me.last = NoCall)
<1>1. CASE v.me.up
  BY <1>1 DEF DmallocStartup, Clocked, Alike
<1>2. CASE ~v.me.up
  <2>1. PICK u : u = ProcessEnviron(v, set, TRUE)
    OBVIOUS
  <2>2. /\ Shape(u) /\ u.pid = v.pid /\ Alike(v.me, u.me, Books \cup {"up"})
        /\ SetAnew(set, TRUE, u.me) /\ u.me.flags = FlagsSet(set)
    <3>1. Environed(v, set, TRUE, u)
      BY <2>1, EnvironDoes DEF Clocked
    <3> QED BY <3>1 DEF Environed
  <2>0. PICK flags : flags = IF set.start # NoStart \/ set.interval > 0
                             THEN u.me.flags \ {"check-heap"} ELSE u.me.flags
    OBVIOUS
  <2>3. w = [u EXCEPT !.me.up = TRUE, !.me.flags = flags]
    BY <1>2, <2>0, <2>1, <2>2 DEF DmallocStartup, Shape, Fields
  <2>4. /\ Shape(w) /\ w.pid = v.pid /\ w.me.up = TRUE
        /\ Alike(u.me, w.me, Books \cup {"asked", "last", "interval", "start"})
        /\ w.me.flags = flags
    <3>1. PICK you : you = [u.me EXCEPT !.up = TRUE, !.flags = flags]
      OBVIOUS
    <3>2. DOMAIN w = DOMAIN u /\ w.pid = u.pid /\ w.me = you
      BY <2>2, <2>3, <3>1 DEF Shape
    <3>3. /\ DOMAIN you = Fields /\ you.up = TRUE /\ you.flags = flags
          /\ Alike(u.me, you, Fields \ {"up", "flags"})
      BY <2>2, <3>1 DEF Shape, Alike, Fields
    <3>4. Alike(u.me, you, Books \cup {"asked", "last", "interval", "start"})
      BY <3>3 DEF Alike, Fields, Books
    <3> QED BY <2>2, <3>2, <3>3, <3>4 DEF Shape
  <2>5. SetAnew(set, TRUE, w.me)
    BY <2>2, <2>4 DEF SetAnew, Alike
  <2>6. Alike(v.me, w.me, Books)
    BY <2>2, <2>4 DEF Alike
  <2>7. set.start # NoStart => ~Checks(w.me)
    BY <2>0, <2>4 DEF Checks
  <2>8. NoStart.iter = 0
    BY DEF NoStart
  <2>9. set.start.iter > 0 => set.start # NoStart
    BY <2>8
  <2>10. set.start = NoStart /\ set.interval = 0 => w.me.flags = u.me.flags
    <3>1. set.interval = 0 => ~(set.interval > 0)
      OBVIOUS
    <3> QED BY <2>0, <2>4, <3>1
  <2>11. Sound(w.me.asked) => Scheduled(w.me)
    BY <2>2, <2>5, <2>7, <2>9, <2>10, AnewScheduled
  <2>12. w.me.iter \in Nat
    BY <2>6 DEF Clocked, ClockInv, Alike, Books
  <2>13. w.me.last = NoCall
    BY <2>5 DEF SetAnew
  <2>14. ClockInv(w.me)
    BY <2>4, <2>5, <2>11, <2>12, AnewAsked DEF ClockInv
  <2> QED BY <1>2, <2>4, <2>6, <2>13, <2>14 DEF Clocked
<1> QED BY <1>1, <1>2

LEMMA EnvironClocked ==
  ASSUME NEW v, Clocked(v), v.me.up, NEW set, SetWell(set),
         NEW w, w = ProcessEnviron(v, set, FALSE)
  PROVE  Clocked(w) /\ w.pid = v.pid /\ w.me.up /\ Alike(v.me, w.me, Books) /\ w.me.last = NoCall
<1>1. /\ Shape(w) /\ w.pid = v.pid /\ Alike(v.me, w.me, Books \cup {"up"})
      /\ SetAnew(set, FALSE, w.me) /\ w.me.flags = FlagsSet(set)
  <2>1. Environed(v, set, FALSE, w)
    BY EnvironDoes DEF Clocked
  <2> QED BY <2>1 DEF Environed
<1>2. set.start.iter > 0 => ~Checks(w.me)
  BY <1>1 DEF Later, Checks, FlagsSet
<1>3. Sound(w.me.asked) => Scheduled(w.me)
  BY <1>1, <1>2, AnewScheduled
<1>4. w.me.iter \in Nat /\ w.me.up = v.me.up /\ w.me.up \in BOOLEAN /\ w.me.last = NoCall
  BY <1>1 DEF Clocked, ClockInv, Alike, Books, SetAnew
<1>5. ClockInv(w.me)
  BY <1>1, <1>3, <1>4, AnewAsked DEF ClockInv
<1> QED BY <1>1, <1>4, <1>5 DEF Clocked, Alike

-----------------------------------------------------------------------------
(* A view of a process the invariant holds for, and one on the way through *)
(* a call: what it hands out now is newer than the mark.                   *)
Good(v) == Clocked(v) /\ Ledger(v.me)
Underway(v) == Good(v) /\ v.me.up /\ v.me.last.since = "none" /\ v.me.mark < v.me.iter

LEMMA QuietClocked == ASSUME NEW v, Clocked(v), NEW w, Quiet(v, w) PROVE Clocked(w)
<1>1. Alike(v.me, w.me, Clock)
  BY DEF Quiet, Alike, Clock, Noise, Fields
<1>2. /\ w.me.asked = v.me.asked /\ w.me.iter = v.me.iter /\ w.me.up = v.me.up
      /\ w.me.last = v.me.last /\ w.me.flags = v.me.flags /\ w.me.start = v.me.start
      /\ w.me.interval = v.me.interval
  BY <1>1 DEF Alike, Clock
<1>3. Due(w.me) = Due(v.me)
  BY <1>2 DEF Due
<1>4. Scheduled(w.me) = Scheduled(v.me)
  BY <1>2 DEF Scheduled, CountsCalls, AwaitsPlace, FromTheFirst, Checks
<1>5. LastRight(w.me) = LastRight(v.me)
  BY <1>2, <1>3 DEF LastRight
<1> QED BY <1>2, <1>4, <1>5 DEF Clocked, ClockInv, Quiet

(* A ledger goes by the books and the last answer; a dead process needs    *)
(* none.                                                                   *)
LEMMA SameLedger ==
  ASSUME NEW me, Ledger(me), NEW you, Alike(me, you, Books \ {"alive"}), you.alive => me.alive,
         you.last = me.last \/ you.last.since = "none"
  PROVE  Ledger(you)
<1>1. /\ you.iter = me.iter /\ you.slots = me.slots /\ you.mark = me.mark /\ you.mine = me.mine
  BY DEF Alike, Books
<1>2. ASSUME NEW q \in Pointers, Owned(me, q) PROVE Owned(you, q)
  BY <1>1, <1>2 DEF Owned, Used
<1>3. ToldRight(you)
  BY <1>1 DEF Ledger, ToldRight
<1> QED BY <1>1, <1>2, <1>3 DEF Ledger

LEMMA ErredGood == ASSUME NEW v, Good(v), NEW w, Erred(v, w) PROVE Good(w)
<1>1. Clocked(w)
  BY QuietClocked DEF Good, Erred
<1>2. Alike(v.me, w.me, Books \ {"alive"}) /\ w.me.last = v.me.last
  BY DEF Erred, Quiet, Alike, Books, Noise, Fields
<1>3. Ledger(w.me)
  BY <1>2, SameLedger DEF Good, Erred
<1> QED BY <1>1, <1>3 DEF Good

LEMMA ErredUnderway == ASSUME NEW v, Underway(v), NEW w, Erred(v, w) PROVE Underway(w)
<1>1. Good(w)
  BY ErredGood DEF Underway
<1>2. w.me.up = v.me.up /\ w.me.last = v.me.last /\ w.me.mark = v.me.mark /\ w.me.iter = v.me.iter
  BY DEF Erred, Quiet, Alike, Noise, Fields
<1> QED BY <1>1, <1>2 DEF Underway

LEMMA SpokeErred == ASSUME NEW v, NEW w, Spoke(v, w) PROVE Erred(v, w)
BY DEF Spoke, Erred

LEMMA StartupGood ==
  ASSUME NEW v, Good(v), NEW set, SetWell(set), NEW w, w = DmallocStartup(v, set)
  PROVE  Good(w) /\ w.me.up /\ w.pid = v.pid /\ Alike(v.me, w.me, Books)
<1>1. /\ Clocked(w) /\ w.pid = v.pid /\ w.me.up /\ Alike(v.me, w.me, Books)
      /\ v.me.up => w = v
      /\ ~v.me.up => w.me.last = NoCall
  BY StartupClocked DEF Good
<1>2. w.me.last = v.me.last \/ w.me.last.since = "none"
  <2>1. NoCall.since = "none"
    BY DEF NoCall
  <2> QED BY <1>1, <2>1 DEF Clocked, ClockInv, Good
<1>3. Alike(v.me, w.me, Books \ {"alive"}) /\ w.me.alive = v.me.alive
  BY <1>1 DEF Alike, Books
<1> QED BY <1>1, <1>2, <1>3, SameLedger DEF Good

(* The way into a call.                                                    *)
LEMMA InUnderway ==
  ASSUME SetWell(program.env), NEW v, Good(v), NEW place, NEW may \in BOOLEAN,
         NEW w, w = DmallocIn(v, place, may)
  PROVE  /\ Underway(w) /\ w.pid = v.pid
         /\ w.me.last.may = may
         /\ Alike(v.me, w.me, Books \ {"iter"})
<1>1. PICK u : u = DmallocStartup(v, program.env)
  OBVIOUS
<1>2. Good(u) /\ u.me.up /\ u.pid = v.pid /\ Alike(v.me, u.me, Books)
  BY <1>1, StartupGood
<1>3. PICK you : you = Call(u.me, place, may)
  OBVIOUS
<1>4. w = [u EXCEPT !.me = you]
  BY <1>1, <1>3 DEF DmallocIn, Call, Counted
<1>5. DOMAIN u.me = Fields /\ AskedShape(u.me.asked) /\ u.me.iter \in Nat
  BY <1>2 DEF Good, Clocked, ClockInv, Shape
<1>6. /\ DOMAIN you = Fields /\ you.iter = u.me.iter + 1
      /\ Alike(u.me, you, Fields \ {"flags", "start", "iter", "last", "asked"})
      /\ DOMAIN you.last = {"may", "checked", "since", "told"}
      /\ you.last.may = may /\ you.last.checked = (may /\ Checks(you)) /\ you.last.since = "none"
      /\ AskedShape(you.asked) /\ you.asked.set = u.me.asked.set
      /\ you.asked.first = u.me.asked.first /\ you.asked.touched = u.me.asked.touched
  <2>1. CalledIn(u.me, place, may, you)
    BY <1>3, <1>5, CallEnters
  <2> QED BY <2>1 DEF CalledIn
<1>7. Shape(w) /\ w.pid = u.pid /\ w.me = you
  BY <1>2, <1>4, <1>6 DEF Good, Clocked, Shape
<1>8. you.up = u.me.up /\ Alike(u.me, you, Books \ {"iter"})
  BY <1>6 DEF Alike, Fields, Books
<1>9. Sound(you.asked) => Sound(u.me.asked)
  BY <1>6 DEF Sound
<1>10. Sound(you.asked) => Scheduled(you) /\ (Checks(you) <=> Due(you))
  <2>1. SUFFICES ASSUME Sound(you.asked) PROVE Scheduled(you) /\ (Checks(you) <=> Due(you))
    OBVIOUS
  <2>2. Scheduled(u.me)
    BY <1>2, <1>9, <2>1 DEF Good, Clocked, ClockInv
  <2> QED BY <1>3, <1>5, <1>9, <2>1, <2>2, CallScheduled
<1>11. LastRight(you)
  BY <1>6, <1>10 DEF LastRight
<1>12. you.up \in BOOLEAN /\ you.up /\ you.iter \in Nat
  BY <1>2, <1>5, <1>6, <1>8 DEF Good, Clocked, ClockInv
<1>13. ClockInv(you)
  BY <1>6, <1>10, <1>11, <1>12 DEF ClockInv
<1>14. /\ you.mark = u.me.mark /\ you.slots = u.me.slots /\ you.mine = u.me.mine
       /\ you.alive = u.me.alive
  BY <1>8 DEF Alike, Books
<1>15. you.mark \in Nat /\ you.iter \in Nat /\ you.mark < you.iter
  BY <1>2, <1>5, <1>6, <1>14 DEF Good, Ledger
<1>16. ASSUME NEW q \in Pointers, Owned(u.me, q) PROVE Owned(you, q)
  <2>1. u.me.slots[q].iter \in Nat
    BY <1>2 DEF Good, Ledger, SlotType
  <2>2. u.me.slots[q].iter <= u.me.iter => u.me.slots[q].iter <= you.iter
    BY <1>5, <1>6, <2>1
  <2> QED BY <1>14, <1>16, <2>2 DEF Owned, Used
<1>17. Ledger(you)
  BY <1>2, <1>6, <1>14, <1>15, <1>16 DEF Good, Ledger, ToldRight
<1>18. Alike(v.me, w.me, Books \ {"iter"})
  BY <1>2, <1>7, <1>8 DEF Alike
<1> QED BY <1>2, <1>6, <1>7, <1>12, <1>13, <1>15, <1>17, <1>18 DEF Underway, Good, Clocked

-----------------------------------------------------------------------------
(* The chunk layer changes the slots of the pointers it is asked about,     *)
(* and nothing else the clock or the ledger goes by.                       *)
Kept(v, w, slots) ==
  /\ Shape(w) /\ w.pid = v.pid
  /\ Alike(v.me, w.me, Fields \ (Noise \cup {"slots", "total"}))
  /\ w.me.slots = slots /\ (w.me.alive => v.me.alive)
InUse(slots, pnt, size, iter) ==
  [slots EXCEPT ![pnt] = [state |-> "used", size |-> size, iter |-> iter]]
GivenBack(slots, pnt, iter) ==
  [slots EXCEPT ![pnt] = [state |-> "freed", size |-> slots[pnt].size, iter |-> iter]]

LEMMA ErredKept == ASSUME NEW v, NEW w, Erred(v, w) PROVE Kept(v, w, v.me.slots)
BY DEF Erred, Quiet, Kept, Alike, Noise, Fields

LEMMA KeptErred ==
  ASSUME NEW v, NEW w, NEW slots, Kept(v, w, slots), NEW x, Erred(w, x) PROVE Kept(v, x, slots)
BY DEF Erred, Quiet, Kept, Alike, Noise, Fields

LEMMA KeptTwice ==
  ASSUME NEW v, NEW w, NEW slots, Kept(v, w, slots), NEW x, NEW more, Kept(w, x, more)
  PROVE  Kept(v, x, more)
BY DEF Kept, Alike, Noise, Fields

LEMMA MallocKeeps ==
  ASSUME NEW v, Shape(v), NEW size, NEW new, v.me.slots \in [Pointers -> SlotType]
  PROVE  Kept(v, ChunkMalloc(v, size, new),
              IF new = NULL THEN v.me.slots ELSE InUse(v.me.slots, new, size, v.me.iter))
<1>1. CASE new = NULL
  <2>1. Erred(v, DmallocError(v))
    BY DmallocErrorErred
  <2> QED BY <1>1, <2>1, ErredKept DEF ChunkMalloc
<1>2. CASE new # NULL
  <2>1. PICK u : u = [v EXCEPT
         !.me.slots[new] = [state |-> "used", size |-> size, iter |-> v.me.iter],
         !.me.total = @ + size]
    OBVIOUS
  <2>2. PICK you : you = [v.me EXCEPT !.slots = InUse(v.me.slots, new, size, v.me.iter),
                                      !.total = v.me.total + size]
    OBVIOUS
  <2>3. DOMAIN u = DOMAIN v /\ u.pid = v.pid /\ u.me = you
    BY <2>1, <2>2 DEF Shape, Fields, InUse
  <2>4. /\ DOMAIN you = Fields /\ you.slots = InUse(v.me.slots, new, size, v.me.iter)
        /\ Alike(v.me, you, Fields \ {"slots", "total"})
    BY <2>2 DEF Shape, Alike, Fields
  <2>5. you.alive = v.me.alive /\ Alike(v.me, you, Fields \ (Noise \cup {"slots", "total"}))
    BY <2>4 DEF Alike, Fields, Noise
  <2>6. Kept(v, u, InUse(v.me.slots, new, size, v.me.iter))
    BY <2>3, <2>4, <2>5 DEF Kept, Shape
  <2>7. Shape(u)
    BY <2>6 DEF Kept
  <2>8. Erred(u, Trans(u))
    BY <2>7, TransSpoke, SpokeErred
  <2>9. ChunkMalloc(v, size, new) = Trans(u)
    BY <1>2, <2>1 DEF ChunkMalloc
  <2> QED BY <1>2, <2>6, <2>8, <2>9, KeptErred
<1> QED BY <1>1, <1>2

LEMMA FreeKeeps ==
  ASSUME NEW v, Shape(v), NEW pnt, v.me.slots \in [Pointers -> SlotType],
         pnt \in Pointers \cup {NULL}
  PROVE  Kept(v, ChunkFree(v, pnt),
              IF Used(v.me, pnt) THEN GivenBack(v.me.slots, pnt, v.me.iter) ELSE v.me.slots)
<1>1. CASE ~Used(v.me, pnt)
  <2>1. Erred(v, DmallocError(v)) /\ Erred(v, Speak(v, "free(0)"))
    BY DmallocErrorErred, SpeakSpoke, SpokeErred
  <2> QED BY <1>1, <2>1, ErredKept DEF ChunkFree
<1>2. CASE Used(v.me, pnt)
  <2>1. PICK u : u = [v EXCEPT !.me.slots[pnt].state = "freed", !.me.slots[pnt].iter = v.me.iter]
    OBVIOUS
  <2>2. PICK you : you = [v.me EXCEPT !.slots = GivenBack(v.me.slots, pnt, v.me.iter)]
    OBVIOUS
  <2>3. DOMAIN u = DOMAIN v /\ u.pid = v.pid /\ u.me = you
    <3>1. pnt \in Pointers
      BY <1>2 DEF Used
    <3>2. [[v.me.slots EXCEPT ![pnt].state = "freed"] EXCEPT ![pnt].iter = v.me.iter]
          = GivenBack(v.me.slots, pnt, v.me.iter)
      BY <3>1 DEF GivenBack, SlotType
    <3>3. u.me = [v.me EXCEPT !.slots =
                    [[v.me.slots EXCEPT ![pnt].state = "freed"] EXCEPT ![pnt].iter = v.me.iter]]
      BY <2>1, <3>1 DEF Shape, Fields
    <3>4. DOMAIN u = DOMAIN v /\ u.pid = v.pid
      BY <2>1 DEF Shape
    <3> QED BY <2>2, <3>2, <3>3, <3>4
  <2>4. /\ DOMAIN you = Fields /\ you.slots = GivenBack(v.me.slots, pnt, v.me.iter)
        /\ Alike(v.me, you, Fields \ {"slots"})
    BY <2>2 DEF Shape, Alike, Fields
  <2>5. you.alive = v.me.alive /\ Alike(v.me, you, Fields \ (Noise \cup {"slots", "total"}))
    BY <2>4 DEF Alike, Fields, Noise
  <2>6. Kept(v, u, GivenBack(v.me.slots, pnt, v.me.iter))
    BY <2>3, <2>4, <2>5 DEF Kept, Shape
  <2>7. Shape(u)
    BY <2>6 DEF Kept
  <2>8. Erred(u, Trans(u))
    BY <2>7, TransSpoke, SpokeErred
  <2>9. ChunkFree(v, pnt) = Trans(u)
    BY <1>2, <2>1 DEF ChunkFree, Used
  <2> QED BY <1>2, <2>6, <2>8, <2>9, KeptErred
<1> QED BY <1>1, <1>2

LEMMA SlotsTyped ==
  ASSUME NEW slots \in [Pointers -> SlotType], NEW pnt \in Pointers, NEW size \in Nat,
         NEW iter \in Nat
  PROVE  /\ InUse(slots, pnt, size, iter) \in [Pointers -> SlotType]
         /\ GivenBack(slots, pnt, iter) \in [Pointers -> SlotType]
BY DEF InUse, GivenBack, SlotType

(* What a realloc leaves of the slots.                                     *)
Moved(me, pnt, size, new) ==
  IF ~Used(me, pnt) \/ new = NULL THEN me.slots
  ELSE IF new = pnt THEN InUse(me.slots, pnt, size, me.iter)
  ELSE GivenBack(InUse(me.slots, new, size, me.iter), pnt, me.iter)

LEMMA ReallocKeeps ==
  ASSUME NEW v, Shape(v), v.me.slots \in [Pointers -> SlotType], v.me.iter \in Nat,
         NEW pnt \in Pointers \cup {NULL}, NEW size \in Nat, NEW new \in Pointers \cup {NULL}
  PROVE  Kept(v, ChunkRealloc(v, pnt, size, new), Moved(v.me, pnt, size, new))
<1>1. CASE ~Used(v.me, pnt)
  <2>1. Erred(v, DmallocError(v))
    BY DmallocErrorErred
  <2> QED BY <1>1, <2>1, ErredKept DEF ChunkRealloc, Moved
<1>2. CASE Used(v.me, pnt) /\ new = NULL
  <2>1. new # pnt
    BY <1>2 DEF Used
  <2>2. Kept(v, ChunkMalloc(v, size, NULL), v.me.slots)
    BY MallocKeeps
  <2> QED BY <1>2, <2>1, <2>2 DEF ChunkRealloc, Moved
<1>3. CASE Used(v.me, pnt) /\ new = pnt
  <2>1. PICK u : u = [v EXCEPT !.me.slots[pnt].size = size, !.me.slots[pnt].iter = v.me.iter,
                               !.me.total = @ + size]
    OBVIOUS
  <2>2. PICK you : you = [v.me EXCEPT !.slots = InUse(v.me.slots, pnt, size, v.me.iter),
                                      !.total = v.me.total + size]
    OBVIOUS
  <2>3. DOMAIN u = DOMAIN v /\ u.pid = v.pid /\ u.me = you
    <3>1. pnt \in Pointers /\ v.me.slots[pnt].state = "used"
      BY <1>3 DEF Used
    <3>2. [[v.me.slots EXCEPT ![pnt].size = size] EXCEPT ![pnt].iter = v.me.iter]
          = InUse(v.me.slots, pnt, size, v.me.iter)
      BY <3>1 DEF InUse, SlotType
    <3>3. u.me = [v.me EXCEPT !.slots =
                    [[v.me.slots EXCEPT ![pnt].size = size] EXCEPT ![pnt].iter = v.me.iter],
                    !.total = v.me.total + size]
      BY <2>1, <3>1 DEF Shape, Fields
    <3>4. DOMAIN u = DOMAIN v /\ u.pid = v.pid
      BY <2>1 DEF Shape
    <3> QED BY <2>2, <3>2, <3>3, <3>4
  <2>4. /\ DOMAIN you = Fields /\ you.slots = InUse(v.me.slots, pnt, size, v.me.iter)
        /\ Alike(v.me, you, Fields \ {"slots", "total"})
    BY <2>2 DEF Shape, Alike, Fields
  <2>5. you.alive = v.me.alive /\ Alike(v.me, you, Fields \ (Noise \cup {"slots", "total"}))
    BY <2>4 DEF Alike, Fields, Noise
  <2>6. Kept(v, u, InUse(v.me.slots, pnt, size, v.me.iter))
    BY <2>3, <2>4, <2>5 DEF Kept, Shape
  <2>7. Shape(u)
    BY <2>6 DEF Kept
  <2>8. Erred(u, Trans(u))
    BY <2>7, TransSpoke, SpokeErred
  <2>9. ChunkRealloc(v, pnt, size, new) = Trans(u)
    BY <1>3, <2>1 DEF ChunkRealloc
  <2>10. new # NULL
    BY <1>3 DEF Used
  <2> QED BY <1>3, <2>6, <2>8, <2>9, <2>10, KeptErred DEF Moved
<1>4. CASE Used(v.me, pnt) /\ new # NULL /\ new # pnt
  <2>1. PICK u : u = ChunkMalloc(v, size, new)
    OBVIOUS
  <2>2. PICK slots : slots = InUse(v.me.slots, new, size, v.me.iter)
    OBVIOUS
  <2>3. Kept(v, u, slots)
    BY <1>4, <2>1, <2>2, MallocKeeps
  <2>4. pnt \in Pointers /\ new \in Pointers /\ slots \in [Pointers -> SlotType]
    BY <1>4, <2>2, SlotsTyped DEF Used
  <2>5. Shape(u) /\ u.me.slots = slots /\ u.me.iter = v.me.iter
    BY <2>3 DEF Kept, Alike, Fields, Noise
  <2>6. Used(u.me, pnt)
    BY <1>4, <2>2, <2>4, <2>5 DEF Used, InUse
  <2>7. Kept(u, ChunkFree(u, pnt), GivenBack(slots, pnt, v.me.iter))
    BY <2>4, <2>5, <2>6, FreeKeeps
  <2>8. PICK w : w = ChunkFree(u, pnt)
    OBVIOUS
  <2>9. Kept(v, w, GivenBack(slots, pnt, v.me.iter)) /\ Shape(w)
    BY <2>3, <2>7, <2>8, KeptTwice DEF Kept
  <2>10. Erred(w, Trans(w))
    BY <2>9, TransSpoke, SpokeErred
  <2>11. ChunkRealloc(v, pnt, size, new) = Trans(w)
    BY <1>4, <2>1, <2>8 DEF ChunkRealloc
  <2> QED BY <1>4, <2>2, <2>9, <2>10, <2>11, KeptErred DEF Moved
<1> QED BY <1>1, <1>2, <1>3, <1>4

-----------------------------------------------------------------------------
(* What the program notes of an answer, and the books at the end of a call. *)
Noted(w, x, mine) ==
  /\ Shape(x) /\ x.pid = w.pid /\ Alike(w.me, x.me, Fields \ {"mine"}) /\ x.me.mine = mine
NowOwns(mine, pnt, size) ==
  IF pnt = NULL THEN mine ELSE [mine EXCEPT ![pnt] = [size |-> size, new |-> TRUE]]
NowGives(mine, pnt) ==
  IF pnt = NULL THEN mine ELSE [mine EXCEPT ![pnt] = [size |-> 0, new |-> FALSE]]

LEMMA NoteNothing == ASSUME NEW w, Shape(w) PROVE Noted(w, w, w.me.mine)
BY DEF Noted, Alike

LEMMA NoteOwned ==
  ASSUME NEW w, Shape(w), NEW pnt, NEW size
  PROVE  Noted(w, Owns(w, pnt, size), NowOwns(w.me.mine, pnt, size))
<1>1. CASE pnt = NULL
  BY <1>1, NoteNothing DEF Owns, NowOwns
<1>2. CASE pnt # NULL
  <2>1. PICK x : x = [w EXCEPT !.me.mine[pnt] = [size |-> size, new |-> TRUE]]
    OBVIOUS
  <2>2. PICK you : you = [w.me EXCEPT !.mine = NowOwns(w.me.mine, pnt, size)]
    OBVIOUS
  <2>3. DOMAIN x = DOMAIN w /\ x.pid = w.pid /\ x.me = you
    BY <1>2, <2>1, <2>2 DEF Shape, Fields, NowOwns
  <2>4. /\ DOMAIN you = Fields /\ you.mine = NowOwns(w.me.mine, pnt, size)
        /\ Alike(w.me, you, Fields \ {"mine"})
    BY <2>2 DEF Shape, Alike, Fields
  <2> QED BY <1>2, <2>1, <2>3, <2>4 DEF Owns, Noted, Shape
<1> QED BY <1>1, <1>2

LEMMA NoteGiven ==
  ASSUME NEW w, Shape(w), NEW pnt
  PROVE  Noted(w, Gives(w, pnt), NowGives(w.me.mine, pnt))
<1>1. CASE pnt = NULL
  BY <1>1, NoteNothing DEF Gives, NowGives
<1>2. CASE pnt # NULL
  <2>1. PICK x : x = [w EXCEPT !.me.mine[pnt] = [size |-> 0, new |-> FALSE]]
    OBVIOUS
  <2>2. PICK you : you = [w.me EXCEPT !.mine = NowGives(w.me.mine, pnt)]
    OBVIOUS
  <2>3. DOMAIN x = DOMAIN w /\ x.pid = w.pid /\ x.me = you
    BY <1>2, <2>1, <2>2 DEF Shape, Fields, NowGives
  <2>4. /\ DOMAIN you = Fields /\ you.mine = NowGives(w.me.mine, pnt)
        /\ Alike(w.me, you, Fields \ {"mine"})
    BY <2>2 DEF Shape, Alike, Fields
  <2> QED BY <1>2, <2>1, <2>3, <2>4 DEF Gives, Noted, Shape
<1> QED BY <1>1, <1>2

LEMMA NotedTwice ==
  ASSUME NEW w, NEW x, NEW mine, Noted(w, x, mine), NEW y, NEW more, Noted(x, y, more)
  PROVE  Noted(w, y, more)
BY DEF Noted, Alike

(* A pointer is in the books as it should be: its slot and what the        *)
(* program notes of it, before and after a call.                           *)
Agrees(slot, note, mark, iter) ==
  IF slot.state = "used"
  THEN note.size = slot.size /\ (note.new <=> slot.iter > mark) /\ slot.iter > 0 /\ slot.iter <= iter
  ELSE note = [size |-> 0, new |-> FALSE]

LEMMA OwnedAgrees ==
  ASSUME NEW me, NEW q \in Pointers
  PROVE  Owned(me, q) <=> Agrees(me.slots[q], me.mine[q], me.mark, me.iter)
BY CallAssumption DEF Owned, Agrees, Used

LEMMA BooksClosed ==
  ASSUME NEW in, Underway(in), NEW w, NEW slots, Kept(in, w, slots),
         slots \in [Pointers -> SlotType],
         NEW x, NEW mine, Noted(w, x, mine), mine \in [Pointers -> MineType],
         x.me.alive => \A q \in Pointers : Agrees(slots[q], mine[q], in.me.mark, in.me.iter)
  PROVE  Good(x)
<1>1. Shape(x) /\ x.me.slots = slots /\ x.me.mine = mine
      /\ Alike(in.me, x.me, Clock \cup {"mark"})
  BY DEF Kept, Noted, Alike, Fields, Noise, Clock
<1>3. /\ x.me.asked = in.me.asked /\ x.me.iter = in.me.iter /\ x.me.up = in.me.up
      /\ x.me.last = in.me.last /\ x.me.flags = in.me.flags /\ x.me.start = in.me.start
      /\ x.me.interval = in.me.interval /\ x.me.mark = in.me.mark
  BY <1>1 DEF Alike, Clock
<1>4. Due(x.me) = Due(in.me)
  BY <1>3 DEF Due
<1>5. Scheduled(x.me) = Scheduled(in.me)
  BY <1>3 DEF Scheduled, CountsCalls, AwaitsPlace, FromTheFirst, Checks
<1>6. LastRight(x.me) = LastRight(in.me)
  BY <1>3, <1>4 DEF LastRight
<1>7. Clocked(x)
  BY <1>1, <1>3, <1>5, <1>6 DEF Underway, Good, Clocked, ClockInv
<1>8. x.me.alive => \A q \in Pointers : Owned(x.me, q)
  BY <1>1, <1>3, OwnedAgrees
<1>9. Ledger(x.me)
  BY <1>1, <1>3, <1>8 DEF Underway, Good, Ledger, ToldRight
<1> QED BY <1>7, <1>9 DEF Good

(* What holds of the books when a call is under way.                       *)
LEMMA BooksOpen ==
  ASSUME NEW in, Underway(in)
  PROVE  /\ Shape(in) /\ in.me.slots \in [Pointers -> SlotType]
         /\ in.me.mine \in [Pointers -> MineType]
         /\ in.me.mark \in Nat /\ in.me.iter \in Nat /\ in.me.mark < in.me.iter
         /\ in.me.alive => \A q \in Pointers :
              Agrees(in.me.slots[q], in.me.mine[q], in.me.mark, in.me.iter)
BY OwnedAgrees DEF Underway, Good, Clocked, Ledger

(* A process that died in the call has no books to keep.                   *)
LEMMA DeadGood ==
  ASSUME NEW in, Underway(in), NEW w, NEW slots, Kept(in, w, slots),
         slots \in [Pointers -> SlotType], ~w.me.alive
  PROVE  Good(w)
<1>1. Noted(w, w, w.me.mine) /\ w.me.mine = in.me.mine
  BY NoteNothing DEF Kept, Alike, Fields, Noise
<1>2. w.me.mine \in [Pointers -> MineType]
  BY <1>1, BooksOpen
<1> QED BY <1>1, <1>2, BooksClosed

LEMMA XallocErred == ASSUME NEW v, Shape(v), NEW xalloc, NEW new
                     PROVE  Erred(v, Xalloc(v, xalloc, new))
BY DieErred DEF Xalloc, Erred, Quiet, Alike

LEMMA FreshPointer ==
  ASSUME NEW me, NEW choice \in Pointers \cup {NULL}, Fresh(me, choice)
  PROVE  choice \in Pointers /\ me.slots[choice].state # "used"
BY DEF Fresh

LEMMA AllocateGood ==
  ASSUME NEW in, Underway(in), NEW size \in Nat, NEW xalloc,
         NEW choice \in Pointers \cup {NULL}
  PROVE  Good(Allocate(in, size, xalloc, choice))
<1>1. PICK new : new = IF Fresh(in.me, choice) THEN choice ELSE NULL
  OBVIOUS
<1>2. PICK u : u = ChunkMalloc(in, size, new)
  OBVIOUS
<1>3. PICK w : w = CheckPnt(u, new)
  OBVIOUS
<1>4. PICK x : x = Owns(w, new, size)
  OBVIOUS
<1>5. Allocate(in, size, xalloc, choice) =
        IF ~u.me.alive THEN (IF u.me.alive THEN Xalloc(Owns(u, new, size), xalloc, new) ELSE u)
        ELSE IF w.me.alive THEN Xalloc(x, xalloc, new) ELSE w
  BY <1>1, <1>2, <1>3, <1>4 DEF Allocate, Then
<1>6. PICK slots : slots = IF new = NULL THEN in.me.slots
                           ELSE InUse(in.me.slots, new, size, in.me.iter)
  OBVIOUS
<1>7. new = NULL \/ (new \in Pointers /\ in.me.slots[new].state # "used")
  BY <1>1, FreshPointer
<1>8. slots \in [Pointers -> SlotType]
  BY <1>6, <1>7, BooksOpen, SlotsTyped
<1>9. Kept(in, u, slots)
  BY <1>2, <1>6, BooksOpen, MallocKeeps
<1>10. Shape(u) /\ Kept(in, w, slots) /\ Shape(w)
  <2>1. Shape(u)
    BY <1>9 DEF Kept
  <2>2. Erred(u, w)
    BY <1>3, <2>1, CheckPntErred
  <2> QED BY <1>9, <2>1, <2>2, KeptErred DEF Kept
<1>11. CASE ~u.me.alive
  BY <1>5, <1>8, <1>9, <1>11, DeadGood
<1>12. CASE u.me.alive /\ ~w.me.alive
  BY <1>5, <1>8, <1>10, <1>12, DeadGood
<1>13. CASE u.me.alive /\ w.me.alive
  <2>1. PICK mine : mine = NowOwns(in.me.mine, new, size)
    OBVIOUS
  <2>2. w.me.mine = in.me.mine
    BY <1>10 DEF Kept, Alike, Fields, Noise
  <2>3. Noted(w, x, mine)
    BY <1>4, <1>10, <2>1, <2>2, NoteOwned
  <2>4. mine \in [Pointers -> MineType]
    BY <1>7, <2>1, BooksOpen DEF NowOwns, MineType
  <2>5. in.me.alive
    BY <1>10, <1>13 DEF Kept
  <2>6. ASSUME NEW q \in Pointers PROVE Agrees(slots[q], mine[q], in.me.mark, in.me.iter)
    <3>1. CASE q = new
      <4>1. q # NULL
        BY CallAssumption
      <4>2. slots[q] = [state |-> "used", size |-> size, iter |-> in.me.iter]
            /\ mine[q] = [size |-> size, new |-> TRUE]
        BY <1>6, <2>1, <3>1, <4>1, BooksOpen DEF InUse, NowOwns
      <4>3. in.me.iter > in.me.mark /\ in.me.iter > 0 /\ in.me.iter <= in.me.iter
        BY BooksOpen
      <4> QED BY <4>2, <4>3 DEF Agrees
    <3>2. CASE q # new
      <4>1. slots[q] = in.me.slots[q] /\ mine[q] = in.me.mine[q]
        BY <1>6, <2>1, <3>2, BooksOpen DEF InUse, NowOwns
      <4> QED BY <2>5, <4>1, BooksOpen
    <3> QED BY <3>1, <3>2
  <2>7. Good(x) /\ Shape(x)
    BY <1>8, <1>10, <2>3, <2>4, <2>6, BooksClosed DEF Noted
  <2>8. Erred(x, Xalloc(x, xalloc, new))
    BY <2>7, XallocErred
  <2> QED BY <1>5, <1>13, <2>7, <2>8, ErredGood
<1> QED BY <1>11, <1>12, <1>13

LEMMA ReleaseGood ==
  ASSUME NEW in, Underway(in), NEW pnt \in Pointers \cup {NULL}
  PROVE  Good(Release(in, pnt))
<1>1. PICK u : u = CheckPnt(in, pnt)
  OBVIOUS
<1>2. PICK w : w = ChunkFree(u, pnt)
  OBVIOUS
<1>3. PICK x : x = IF Used(in.me, pnt) THEN Gives(w, pnt) ELSE w
  OBVIOUS
<1>4. Release(in, pnt) = IF u.me.alive THEN (IF w.me.alive THEN x ELSE w)
                         ELSE IF u.me.alive THEN x ELSE u
  BY <1>1, <1>2, <1>3 DEF Release, Then
<1>5. Kept(in, u, in.me.slots) /\ Shape(u) /\ u.me.slots = in.me.slots /\ u.me.iter = in.me.iter
  <2>1. Erred(in, u)
    BY <1>1, BooksOpen, CheckPntErred
  <2>2. Kept(in, u, in.me.slots)
    BY <2>1, ErredKept
  <2> QED BY <2>2 DEF Kept, Alike, Fields, Noise
<1>6. Used(u.me, pnt) <=> Used(in.me, pnt)
  BY <1>5 DEF Used
<1>7. PICK slots : slots = IF Used(in.me, pnt) THEN GivenBack(in.me.slots, pnt, in.me.iter)
                           ELSE in.me.slots
  OBVIOUS
<1>8. Used(in.me, pnt) => pnt \in Pointers
  BY DEF Used
<1>9. slots \in [Pointers -> SlotType] /\ in.me.slots \in [Pointers -> SlotType]
  <2>1. in.me.slots \in [Pointers -> SlotType] /\ in.me.iter \in Nat
    BY BooksOpen
  <2>2. Used(in.me, pnt) => GivenBack(in.me.slots, pnt, in.me.iter) \in [Pointers -> SlotType]
    BY <1>8, <2>1, SlotsTyped
  <2> QED BY <1>7, <2>1, <2>2
<1>10. Kept(in, w, slots) /\ Shape(w)
  <2>1. Kept(u, w, IF Used(u.me, pnt) THEN GivenBack(u.me.slots, pnt, u.me.iter) ELSE u.me.slots)
    BY <1>2, <1>5, <1>9, FreeKeeps
  <2>2. Kept(u, w, slots)
    BY <1>5, <1>6, <1>7, <2>1
  <2> QED BY <1>5, <2>2, KeptTwice DEF Kept
<1>11. CASE ~u.me.alive
  BY <1>4, <1>5, <1>9, <1>11, DeadGood
<1>12. CASE u.me.alive /\ ~w.me.alive
  BY <1>4, <1>9, <1>10, <1>12, DeadGood
<1>13. CASE u.me.alive /\ w.me.alive
  <2>1. PICK mine : mine = IF Used(in.me, pnt) THEN NowGives(in.me.mine, pnt) ELSE in.me.mine
    OBVIOUS
  <2>2. w.me.mine = in.me.mine
    BY <1>10 DEF Kept, Alike, Fields, Noise
  <2>3. Noted(w, x, mine)
    BY <1>3, <1>10, <2>1, <2>2, NoteGiven, NoteNothing
  <2>4. mine \in [Pointers -> MineType]
    BY <1>8, <2>1, BooksOpen DEF NowGives, MineType
  <2>5. in.me.alive
    BY <1>10, <1>13 DEF Kept
  <2>6. ASSUME NEW q \in Pointers PROVE Agrees(slots[q], mine[q], in.me.mark, in.me.iter)
    <3>1. CASE q = pnt /\ Used(in.me, pnt)
      <4>1. slots[q].state = "freed" /\ mine[q] = [size |-> 0, new |-> FALSE]
        BY <1>7, <1>8, <2>1, <3>1, BooksOpen DEF GivenBack, NowGives, Used
      <4> QED BY <4>1 DEF Agrees
    <3>2. CASE ~(q = pnt /\ Used(in.me, pnt))
      <4>1. slots[q] = in.me.slots[q] /\ mine[q] = in.me.mine[q]
        BY <1>7, <2>1, <3>2, BooksOpen DEF GivenBack, NowGives
      <4> QED BY <2>5, <4>1, BooksOpen
    <3> QED BY <3>1, <3>2
  <2>7. Good(x)
    BY <1>9, <1>10, <2>3, <2>4, <2>6, BooksClosed
  <2> QED BY <1>4, <1>13, <2>7
<1> QED BY <1>11, <1>12, <1>13

(* The pointer a realloc comes back with, and what it leaves of the slots. *)
LEMMA ResizedPointer ==
  ASSUME NEW me, NEW old \in Pointers \cup {NULL}, NEW size,
         NEW choice \in Pointers \cup {NULL}, NEW new, new = Resized(me, old, size, choice)
  PROVE  \/ new = NULL
         \/ /\ new \in Pointers
            /\ \/ old = NULL /\ me.slots[new].state # "used"
               \/ size > 0 /\ Used(me, old) /\ (new = old \/ me.slots[new].state # "used")
<1>1. CASE new = NULL
  BY <1>1
<1>2. CASE new # NULL
  <2>1. /\ new = choice /\ new \in Pointers
        /\ \/ old = NULL /\ Fresh(me, choice)
           \/ size > 0 /\ Used(me, old) /\ (choice = old \/ Fresh(me, choice))
    BY <1>2 DEF Resized
  <2> QED BY <2>1, FreshPointer
<1> QED BY <1>1, <1>2

Reworked(me, old, size, new) ==
  IF old = NULL THEN (IF new = NULL THEN me.slots ELSE InUse(me.slots, new, size, me.iter))
  ELSE IF size = 0 THEN (IF Used(me, old) THEN GivenBack(me.slots, old, me.iter) ELSE me.slots)
  ELSE Moved(me, old, size, new)
Passed(me, old, size, new) == Used(me, old) /\ (new # NULL \/ size = 0)
Renoted(me, old, size, new) ==
  NowOwns(IF Passed(me, old, size, new) THEN NowGives(me.mine, old) ELSE me.mine, new, size)
Work(w, old, size, new) ==
  IF old = NULL THEN ChunkMalloc(w, size, new)
  ELSE IF size = 0 THEN ChunkFree(w, old)
  ELSE ChunkRealloc(w, old, size, new)

LEMMA WorkKeeps ==
  ASSUME NEW v, Shape(v), v.me.slots \in [Pointers -> SlotType], v.me.iter \in Nat,
         NEW old \in Pointers \cup {NULL}, NEW size \in Nat, NEW new \in Pointers \cup {NULL}
  PROVE  Kept(v, Work(v, old, size, new), Reworked(v.me, old, size, new))
<1>1. CASE old = NULL
  <2>1. Kept(v, ChunkMalloc(v, size, new),
             IF new = NULL THEN v.me.slots ELSE InUse(v.me.slots, new, size, v.me.iter))
    BY MallocKeeps
  <2> QED BY <1>1, <2>1 DEF Work, Reworked
<1>2. CASE old # NULL /\ size = 0
  <2>1. Kept(v, ChunkFree(v, old),
             IF Used(v.me, old) THEN GivenBack(v.me.slots, old, v.me.iter) ELSE v.me.slots)
    BY FreeKeeps
  <2> QED BY <1>2, <2>1 DEF Work, Reworked
<1>3. CASE old # NULL /\ size # 0
  <2>1. Kept(v, ChunkRealloc(v, old, size, new), Moved(v.me, old, size, new))
    BY ReallocKeeps
  <2> QED BY <1>3, <2>1 DEF Work, Reworked
<1> QED BY <1>1, <1>2, <1>3

LEMMA ReworkedType ==
  ASSUME NEW me, me.slots \in [Pointers -> SlotType], me.iter \in Nat,
         NEW old \in Pointers \cup {NULL}, NEW size \in Nat, NEW new \in Pointers \cup {NULL}
  PROVE  Reworked(me, old, size, new) \in [Pointers -> SlotType]
<1>1. ASSUME NEW slots \in [Pointers -> SlotType], NEW p \in Pointers \cup {NULL}, p # NULL
      PROVE  /\ InUse(slots, p, size, me.iter) \in [Pointers -> SlotType]
             /\ GivenBack(slots, p, me.iter) \in [Pointers -> SlotType]
  BY <1>1, SlotsTyped
<1>2. Used(me, old) => old # NULL
  BY DEF Used
<1>3. Moved(me, old, size, new) \in [Pointers -> SlotType]
  <2>1. CASE ~Used(me, old) \/ new = NULL
    BY <2>1 DEF Moved
  <2>2. CASE Used(me, old) /\ new # NULL
    <3>1. InUse(me.slots, new, size, me.iter) \in [Pointers -> SlotType]
      BY <1>1, <2>2
    <3>2. GivenBack(InUse(me.slots, new, size, me.iter), old, me.iter) \in [Pointers -> SlotType]
      BY <1>1, <1>2, <2>2, <3>1
    <3>3. Moved(me, old, size, new) \in {InUse(me.slots, new, size, me.iter),
              GivenBack(InUse(me.slots, new, size, me.iter), old, me.iter)}
      BY <2>2 DEF Moved
    <3> QED BY <3>1, <3>2, <3>3
  <2> QED BY <2>1, <2>2
<1>4. CASE old = NULL
  <2>1. CASE new = NULL
    BY <1>4, <2>1 DEF Reworked
  <2>2. CASE new # NULL
    <3>1. InUse(me.slots, new, size, me.iter) \in [Pointers -> SlotType]
      BY <1>1, <2>2
    <3> QED BY <1>4, <2>2, <3>1 DEF Reworked
  <2> QED BY <2>1, <2>2
<1>5. CASE old # NULL /\ size = 0
  <2>1. GivenBack(me.slots, old, me.iter) \in [Pointers -> SlotType]
    BY <1>1, <1>5
  <2> QED BY <1>5, <2>1 DEF Reworked
<1>6. CASE old # NULL /\ size # 0
  BY <1>3, <1>6 DEF Reworked
<1> QED BY <1>4, <1>5, <1>6

LEMMA ResizeAgrees ==
  ASSUME NEW in, Underway(in), in.me.alive, NEW old \in Pointers \cup {NULL}, NEW size \in Nat,
         NEW choice \in Pointers \cup {NULL}, NEW new, new = Resized(in.me, old, size, choice),
         NEW q \in Pointers
  PROVE  Agrees(Reworked(in.me, old, size, new)[q], Renoted(in.me, old, size, new)[q],
                in.me.mark, in.me.iter)
<1> DEFINE slots == Reworked(in.me, old, size, new)
           mine == Renoted(in.me, old, size, new)
<1>1. \/ new = NULL
      \/ /\ new \in Pointers
         /\ \/ old = NULL /\ in.me.slots[new].state # "used"
            \/ size > 0 /\ Used(in.me, old) /\ (new = old \/ in.me.slots[new].state # "used")
  BY ResizedPointer
<1>2. in.me.slots \in [Pointers -> SlotType] /\ in.me.mine \in [Pointers -> MineType]
  BY BooksOpen
<1>3. q # NULL /\ (Used(in.me, old) => old # NULL /\ old \in Pointers)
  BY CallAssumption DEF Used
<1>4. CASE q = new
  <2>1. \/ old = NULL
        \/ old # NULL /\ size # 0 /\ Used(in.me, old)
    <3>1. size > 0 => size # 0
      OBVIOUS
    <3> QED BY <1>1, <1>3, <1>4, <3>1
  <2>2. slots[q] = [state |-> "used", size |-> size, iter |-> in.me.iter]
    BY <1>2, <1>3, <1>4, <2>1 DEF Reworked, Moved, InUse, GivenBack
  <2>3. mine[q] = [size |-> size, new |-> TRUE]
    BY <1>2, <1>3, <1>4 DEF Renoted, NowOwns, NowGives
  <2>4. in.me.iter > in.me.mark /\ in.me.iter > 0 /\ in.me.iter <= in.me.iter
    BY BooksOpen
  <2> HIDE DEF slots, mine
  <2>5. Agrees(slots[q], mine[q], in.me.mark, in.me.iter)
    BY <2>2, <2>3, <2>4 DEF Agrees
  <2> QED BY <2>5 DEF slots, mine
<1>5. CASE q # new /\ q = old /\ Passed(in.me, old, size, new)
  <2>1. slots[q].state = "freed"
    BY <1>2, <1>3, <1>5 DEF Reworked, Moved, InUse, GivenBack, Passed
  <2>2. mine[q] = [size |-> 0, new |-> FALSE]
    BY <1>2, <1>3, <1>5 DEF Renoted, NowOwns, NowGives
  <2> HIDE DEF slots, mine
  <2>3. Agrees(slots[q], mine[q], in.me.mark, in.me.iter)
    BY <2>1, <2>2 DEF Agrees
  <2> QED BY <2>3 DEF slots, mine
<1>6. CASE q # new /\ ~(q = old /\ Passed(in.me, old, size, new))
  <2>1. slots[q] = in.me.slots[q]
    BY <1>2, <1>3, <1>6 DEF Reworked, Moved, InUse, GivenBack, Passed
  <2>2. mine[q] = in.me.mine[q]
    BY <1>2, <1>3, <1>6 DEF Renoted, NowOwns, NowGives
  <2> HIDE DEF slots, mine
  <2>3. Agrees(slots[q], mine[q], in.me.mark, in.me.iter)
    BY <2>1, <2>2, BooksOpen
  <2> QED BY <2>3 DEF slots, mine
<1> QED BY <1>4, <1>5, <1>6

LEMMA ResizeGood ==
  ASSUME NEW in, Underway(in), NEW old \in Pointers \cup {NULL}, NEW size \in Nat, NEW xalloc,
         NEW choice \in Pointers \cup {NULL}
  PROVE  Good(Resize(in, old, size, xalloc, choice))
<1>1. PICK new : new = Resized(in.me, old, size, choice)
  OBVIOUS
<1>2. PICK u : u = CheckPnt(in, old)
  OBVIOUS
<1>3. PICK w : w = Work(u, old, size, new)
  OBVIOUS
<1>4. PICK y : y = IF new # NULL THEN CheckPnt(w, new) ELSE w
  OBVIOUS
<1>5. PICK z : z = IF Passed(in.me, old, size, new) THEN Gives(y, old) ELSE y
  OBVIOUS
<1>6. PICK x : x = Owns(z, new, size)
  OBVIOUS
<1>7. PICK out : out = Resize(in, old, size, xalloc, choice)
  OBVIOUS
<1>8. /\ ~u.me.alive => out = u
      /\ u.me.alive /\ ~w.me.alive => out = w
      /\ u.me.alive /\ w.me.alive /\ ~y.me.alive => out = y
      /\ u.me.alive /\ w.me.alive /\ y.me.alive => out = Xalloc(x, xalloc, new)
  BY <1>1, <1>2, <1>3, <1>4, <1>5, <1>6, <1>7 DEF Resize, Then, Work, Passed
<1>9. new \in Pointers \cup {NULL}
  BY <1>1, ResizedPointer
<1>10. Kept(in, u, in.me.slots) /\ Shape(u) /\ u.me.slots = in.me.slots /\ u.me.iter = in.me.iter
  <2>1. Erred(in, u)
    BY <1>2, BooksOpen, CheckPntErred
  <2>2. Kept(in, u, in.me.slots)
    BY <2>1, ErredKept
  <2> QED BY <2>2 DEF Kept, Alike, Fields, Noise
<1>11. PICK slots : slots = Reworked(in.me, old, size, new)
  OBVIOUS
<1>12. slots = Reworked(u.me, old, size, new)
  BY <1>10, <1>11 DEF Reworked, Moved, Used
<1>13. slots \in [Pointers -> SlotType] /\ in.me.slots \in [Pointers -> SlotType] /\ in.me.iter \in Nat
  BY <1>9, <1>11, BooksOpen, ReworkedType
<1>14. Kept(in, w, slots) /\ Shape(w)
  <2>1. Kept(u, w, slots)
    BY <1>3, <1>9, <1>10, <1>12, <1>13, WorkKeeps
  <2> QED BY <1>10, <2>1, KeptTwice DEF Kept
<1>15. Kept(in, y, slots) /\ Shape(y)
  <2>1. Erred(w, y)
    BY <1>4, <1>14, CheckPntErred DEF Erred, Quiet, Alike
  <2> QED BY <1>14, <2>1, KeptErred DEF Kept
<1>16. CASE ~u.me.alive
  BY <1>7, <1>8, <1>10, <1>13, <1>16, DeadGood
<1>17. CASE u.me.alive /\ ~w.me.alive
  BY <1>7, <1>8, <1>13, <1>14, <1>17, DeadGood
<1>18. CASE u.me.alive /\ w.me.alive /\ ~y.me.alive
  BY <1>7, <1>8, <1>13, <1>15, <1>18, DeadGood
<1>19. CASE u.me.alive /\ w.me.alive /\ y.me.alive
  <2>1. PICK mine : mine = Renoted(in.me, old, size, new)
    OBVIOUS
  <2>2. y.me.mine = in.me.mine
    BY <1>15 DEF Kept, Alike, Fields, Noise
  <2>3. PICK given : given = IF Passed(in.me, old, size, new) THEN NowGives(in.me.mine, old)
                             ELSE in.me.mine
    OBVIOUS
  <2>4. Noted(y, z, given)
    BY <1>5, <1>15, <2>2, <2>3, NoteGiven, NoteNothing
  <2>5. Shape(z) /\ z.me.mine = given
    BY <2>4 DEF Noted
  <2>6. Noted(z, x, mine)
    BY <1>6, <2>1, <2>3, <2>5, NoteOwned DEF Renoted
  <2>7. Noted(y, x, mine)
    BY <2>4, <2>6, NotedTwice
  <2>8. mine \in [Pointers -> MineType]
    <3>1. Passed(in.me, old, size, new) => old \in Pointers
      BY DEF Passed, Used
    <3>2. given \in [Pointers -> MineType]
      BY <2>3, <3>1, BooksOpen DEF NowGives, MineType
    <3>3. mine = NowOwns(given, new, size)
      BY <2>1, <2>3 DEF Renoted
    <3> QED BY <1>9, <3>2, <3>3 DEF NowOwns, MineType
  <2>9. in.me.alive
    BY <1>15, <1>19 DEF Kept
  <2>10. ASSUME NEW q \in Pointers PROVE Agrees(slots[q], mine[q], in.me.mark, in.me.iter)
    BY <1>1, <1>11, <2>1, <2>9, ResizeAgrees
  <2>11. Good(x) /\ Shape(x)
    BY <1>13, <1>15, <2>7, <2>8, <2>10, BooksClosed DEF Noted
  <2>12. Erred(x, Xalloc(x, xalloc, new))
    BY <2>11, XallocErred
  <2> QED BY <1>7, <1>8, <1>19, <2>11, <2>12, ErredGood
<1> QED BY <1>16, <1>17, <1>18, <1>19

-----------------------------------------------------------------------------
(* What is told of the pointers since a mark, or since the start, is what  *)
(* the program has of them.                                                *)
Sizes(me) == [q \in Pointers |-> me.mine[q].size]
Lengths(me) == [q \in Pointers |-> me.slots[q].size]
Has(me, since) == {q \in Pointers : since = "start" \/ me.mine[q].new}

LEMMA ToldSinceMark ==
  ASSUME NEW me, Ledger(me), me.alive
  PROVE  Told(me, me.mark) = SumFunctionOnSet(Sizes(me), Has(me, "mark"))
<1>1. \A q \in Pointers : Agrees(me.slots[q], me.mine[q], me.mark, me.iter)
  BY OwnedAgrees DEF Ledger
<1>2. me.slots \in [Pointers -> SlotType] /\ me.mine \in [Pointers -> MineType]
  BY DEF Ledger
<1>3. Changed(me, me.mark) = Has(me, "mark")
  <2>1. ASSUME NEW q \in Pointers
        PROVE  Used(me, q) /\ me.slots[q].iter > me.mark <=> me.mine[q].new
    <3>1. Agrees(me.slots[q], me.mine[q], me.mark, me.iter) /\ q # NULL
      BY <1>1, CallAssumption
    <3> QED BY <3>1 DEF Agrees, Used
  <2> QED BY <2>1 DEF Changed, Has
<1>4. ASSUME NEW q \in Changed(me, me.mark) PROVE Lengths(me)[q] = Sizes(me)[q]
  <2>1. q \in Pointers /\ me.slots[q].state = "used"
    BY DEF Changed, Used
  <2> QED BY <1>1, <2>1 DEF Agrees, Lengths, Sizes
<1>5. IsFiniteSet(Changed(me, me.mark))
  <2>1. Changed(me, me.mark) \subseteq Pointers
    BY DEF Changed
  <2> QED BY <2>1, FS_Subset, CallAssumption
<1>6. PICK S : S = Changed(me, me.mark)
  OBVIOUS
<1>7. PICK f : f = Lengths(me)
  OBVIOUS
<1>8. PICK g : g = Sizes(me)
  OBVIOUS
<1>9. SumFunctionOnSet(f, S) = SumFunctionOnSet(g, S)
  BY <1>4, <1>5, <1>6, <1>7, <1>8, SumOfSame
<1>10. Told(me, me.mark) = SumFunctionOnSet(Lengths(me), Changed(me, me.mark))
  BY DEF Told, Lengths
<1> QED BY <1>3, <1>6, <1>7, <1>8, <1>9, <1>10

LEMMA ToldSinceStart ==
  ASSUME NEW me, Ledger(me), me.alive
  PROVE  Told(me, 0) = SumFunctionOnSet(Sizes(me), Has(me, "start"))
<1>1. \A q \in Pointers : Agrees(me.slots[q], me.mine[q], me.mark, me.iter)
  BY OwnedAgrees DEF Ledger
<1>2. me.slots \in [Pointers -> SlotType] /\ me.mine \in [Pointers -> MineType]
  BY DEF Ledger
<1>3. Changed(me, 0) = {q \in Pointers : me.slots[q].state = "used"}
  <2>1. ASSUME NEW q \in Pointers
        PROVE  Used(me, q) /\ me.slots[q].iter > 0 <=> me.slots[q].state = "used"
    <3>1. Agrees(me.slots[q], me.mine[q], me.mark, me.iter) /\ q # NULL
      BY <1>1, CallAssumption
    <3> QED BY <3>1 DEF Agrees, Used
  <2> QED BY <2>1 DEF Changed
<1>4. PICK S : S = Changed(me, 0)
  OBVIOUS
<1>5. PICK T : T = Pointers \ S
  OBVIOUS
<1>6. IsFiniteSet(S) /\ IsFiniteSet(T) /\ S \cap T = {} /\ S \cup T = Pointers
  <2>1. S \subseteq Pointers /\ T \subseteq Pointers
    BY <1>4, <1>5 DEF Changed
  <2> QED BY <1>5, <2>1, FS_Subset, CallAssumption
<1>7. PICK f : f = Lengths(me)
  OBVIOUS
<1>8. PICK g : g = Sizes(me)
  OBVIOUS
<1>9. ASSUME NEW q \in S PROVE f[q] = g[q]
  <2>1. q \in Pointers /\ me.slots[q].state = "used"
    BY <1>3, <1>4
  <2> QED BY <1>1, <1>7, <1>8, <2>1 DEF Agrees, Lengths, Sizes
<1>10. ASSUME NEW q \in T PROVE g[q] = 0
  <2>1. q \in Pointers /\ me.slots[q].state # "used"
    BY <1>3, <1>4, <1>5
  <2>2. me.mine[q] = [size |-> 0, new |-> FALSE]
    BY <1>1, <2>1 DEF Agrees
  <2> QED BY <1>8, <2>1, <2>2 DEF Sizes
<1>11. \A q \in S \cup T : g[q] \in Int
  BY <1>2, <1>6, <1>8 DEF Sizes, MineType
<1>12. SumFunctionOnSet(f, S) = SumFunctionOnSet(g, S)
  BY <1>6, <1>9, SumOfSame
<1>13. SumFunctionOnSet(g, T) = 0
  BY <1>6, <1>10, SumOfZeros
<1>14. SumFunctionOnSet(g, S \cup T) = SumFunctionOnSet(g, S) + SumFunctionOnSet(g, T)
  BY <1>6, <1>11, SumOfUnion
<1>15. SumFunctionOnSet(g, S) \in Int
  BY <1>6, <1>11, SumIsInt
<1>16. SumFunctionOnSet(g, S \cup T) = SumFunctionOnSet(f, S)
  BY <1>12, <1>13, <1>14, <1>15
<1>17. Told(me, 0) = SumFunctionOnSet(Lengths(me), Changed(me, 0))
  BY DEF Told, Lengths
<1>18. Has(me, "start") = Pointers
  BY DEF Has
<1> QED BY <1>4, <1>6, <1>7, <1>8, <1>16, <1>17, <1>18

LEMMA TellGood ==
  ASSUME SetWell(program.env), NEW v, Good(v), NEW since \in {"mark", "start"}, NEW mark,
         Told(v.me, mark) = SumFunctionOnSet(Sizes(v.me), Has(v.me, since)),
         NEW x, x = Tell(v, since, mark)
  PROVE  Good(x)
<1>1. PICK in : in = DmallocIn(v, NoPlace, TRUE)
  OBVIOUS
<1>2. Underway(in) /\ Alike(v.me, in.me, Books \ {"iter"})
  BY <1>1, InUnderway
<1>3. PICK w : w = SayTelling(in)
  OBVIOUS
<1>4. Erred(in, w)
  <2>1. Shape(in)
    BY <1>2, BooksOpen
  <2>2. Spoke(in, Speak(in, "telling")) /\ Spoke(in, in)
    BY <2>1, SpeakSpoke DEF Spoke, Quiet, Alike
  <2> QED BY <1>3, <2>2, SpokeErred DEF SayTelling
<1>5. Underway(w)
  BY <1>2, <1>4, ErredUnderway
<1>6. w.me.mine = v.me.mine
  BY <1>2, <1>4 DEF Erred, Quiet, Alike, Books, Fields, Noise
<1>7. PICK told : told = Told(v.me, mark)
  OBVIOUS
<1>8. x = [w EXCEPT !.me.last.since = since, !.me.last.told = told]
  BY <1>1, <1>3, <1>7 DEF Tell
<1>9. PICK last : last = [w.me.last EXCEPT !.since = since, !.told = told]
  OBVIOUS
<1>10. PICK you : you = [w.me EXCEPT !.last = last]
  OBVIOUS
<1>11. DOMAIN w = {"pid", "me", "opens", "files"} /\ DOMAIN w.me = Fields
       /\ DOMAIN w.me.last = {"may", "checked", "since", "told"}
  BY <1>5 DEF Underway, Good, Clocked, ClockInv, Shape
<1>12. DOMAIN x = DOMAIN w /\ x.pid = w.pid /\ x.me = you
  <2>1. DOMAIN x = DOMAIN w /\ x.pid = w.pid
    BY <1>8, <1>11
  <2>2. x.me = [w.me EXCEPT !.last.since = since, !.last.told = told]
    BY <1>8, <1>11
  <2>3. [w.me EXCEPT !.last.since = since, !.last.told = told] = you
    BY <1>9, <1>10, <1>11 DEF Fields
  <2> QED BY <2>1, <2>2, <2>3
<1>13. DOMAIN you = Fields /\ you.last = last /\ Alike(w.me, you, Fields \ {"last"})
  BY <1>10, <1>11 DEF Alike, Fields
<1>14. /\ DOMAIN last = DOMAIN w.me.last /\ last.may = w.me.last.may
       /\ last.checked = w.me.last.checked /\ last.since = since /\ last.told = told
  BY <1>9, <1>11
<1>15. /\ you.asked = w.me.asked /\ you.iter = w.me.iter /\ you.up = w.me.up
       /\ you.flags = w.me.flags /\ you.start = w.me.start /\ you.interval = w.me.interval
       /\ you.mark = w.me.mark /\ you.slots = w.me.slots /\ you.mine = w.me.mine
       /\ you.alive = w.me.alive
  BY <1>13 DEF Alike, Fields
<1>16. Due(you) = Due(w.me)
  BY <1>15 DEF Due
<1>17. Scheduled(you) = Scheduled(w.me)
  BY <1>15 DEF Scheduled, CountsCalls, AwaitsPlace, FromTheFirst, Checks
<1>18. LastRight(you)
  BY <1>5, <1>13, <1>14, <1>15, <1>16 DEF LastRight, Underway, Good, Clocked, ClockInv
<1>19. ClockInv(you)
  BY <1>5, <1>11, <1>13, <1>14, <1>15, <1>17, <1>18 DEF Underway, Good, Clocked, ClockInv
<1>20. ASSUME NEW q \in Pointers, Owned(w.me, q) PROVE Owned(you, q)
  BY <1>15, <1>20 DEF Owned, Used
<1>21. ToldRight(you)
  <2>1. Sizes(you) = Sizes(v.me) /\ Has(you, since) = Has(v.me, since)
    BY <1>6, <1>15 DEF Sizes, Has
  <2>2. you.last.told = SumFunctionOnSet(Sizes(you), Has(you, you.last.since))
    BY <1>7, <1>13, <1>14, <2>1
  <2> QED BY <2>2 DEF ToldRight, Sizes, Has
<1>22. Ledger(you)
  BY <1>5, <1>15, <1>20, <1>21 DEF Underway, Good, Ledger
<1> QED BY <1>11, <1>12, <1>13, <1>19, <1>22 DEF Good, Clocked, Shape

-----------------------------------------------------------------------------
(* The calls about the settings and the log.                               *)

(* New flags for a started process: they are asked for from now on.        *)
LEMMA DebugGood ==
  ASSUME SetWell(program.env), NEW v, Good(v), NEW flags, NEW x, x = DmallocDebug(v, flags)
  PROVE  Good(x)
<1>1. PICK u : u = DmallocStartup(v, program.env)
  OBVIOUS
<1>2. Good(u) /\ u.me.up
  BY <1>1, StartupGood
<1>3. x = [u EXCEPT !.me.flags = flags, !.me.last = NoCall,
                    !.me.asked.flags = flags, !.me.asked.touched = TRUE]
  BY <1>1 DEF DmallocDebug
<1>4. PICK asked : asked = [u.me.asked EXCEPT !.flags = flags, !.touched = TRUE]
  OBVIOUS
<1>5. PICK you : you = [u.me EXCEPT !.flags = flags, !.last = NoCall, !.asked = asked]
  OBVIOUS
<1>6. DOMAIN u = {"pid", "me", "opens", "files"} /\ DOMAIN u.me = Fields /\ AskedShape(u.me.asked)
  BY <1>2 DEF Good, Clocked, ClockInv, Shape
<1>7. DOMAIN x = DOMAIN u /\ x.pid = u.pid /\ x.me = you
  <2>1. DOMAIN x = DOMAIN u /\ x.pid = u.pid
    BY <1>3, <1>6
  <2>2. x.me = [u.me EXCEPT !.flags = flags, !.last = NoCall,
                            !.asked.flags = flags, !.asked.touched = TRUE]
    BY <1>3, <1>6
  <2>3. [u.me EXCEPT !.flags = flags, !.last = NoCall,
                     !.asked.flags = flags, !.asked.touched = TRUE] = you
    BY <1>4, <1>5, <1>6 DEF Fields, AskedShape
  <2> QED BY <2>1, <2>2, <2>3
<1>8. /\ DOMAIN you = Fields /\ you.flags = flags /\ you.last = NoCall /\ you.asked = asked
      /\ Alike(u.me, you, Fields \ {"flags", "last", "asked"})
  BY <1>5, <1>6 DEF Alike, Fields
<1>9. /\ DOMAIN asked = DOMAIN u.me.asked /\ asked.flags = flags /\ asked.touched = TRUE
      /\ asked.set = u.me.asked.set /\ asked.first = u.me.asked.first
      /\ asked.calls = u.me.asked.calls /\ asked.reached = u.me.asked.reached
  BY <1>4, <1>6 DEF AskedShape
<1>10. AskedShape(asked)
  BY <1>6, <1>9 DEF AskedShape
<1>11. /\ you.iter = u.me.iter /\ you.up = u.me.up
       /\ you.start = u.me.start /\ you.interval = u.me.interval
       /\ you.mark = u.me.mark /\ you.slots = u.me.slots /\ you.mine = u.me.mine
       /\ you.alive = u.me.alive
  BY <1>8 DEF Alike, Fields
<1>12. Sound(asked) => Scheduled(you)
  <2>1. SUFFICES ASSUME Sound(asked) PROVE Scheduled(you)
    OBVIOUS
  <2>2. asked.set.start = NoStart
    BY <1>9, <2>1 DEF Sound
  <2>3. Sound(u.me.asked)
    BY <1>9, <2>1, <2>2 DEF Sound
  <2>4. Scheduled(u.me)
    BY <1>2, <2>3 DEF Good, Clocked, ClockInv
  <2>5. u.me.start = NoStart /\ u.me.interval = u.me.asked.set.interval
    BY <1>9, <2>2, <2>4 DEF Scheduled, FromTheFirst
  <2>6. NoStart.iter = 0 /\ NoStart.file = NoFile
    BY DEF NoStart
  <2>7. FromTheFirst(you)
    BY <1>8, <1>9, <1>11, <2>5 DEF FromTheFirst, Checks
  <2> QED BY <1>8, <1>9, <1>11, <2>2, <2>5, <2>6, <2>7 DEF Scheduled
<1>13. ClockInv(you)
  <2>1. LastRight(you) /\ DOMAIN you.last = {"may", "checked", "since", "told"}
    BY <1>8 DEF LastRight, NoCall
  <2>2. you.iter \in Nat /\ you.up \in BOOLEAN /\ you.up
    BY <1>2, <1>11 DEF Good, Clocked, ClockInv
  <2> QED BY <1>8, <1>10, <1>12, <2>1, <2>2 DEF ClockInv
<1>14. Ledger(you)
  <2>1. Alike(u.me, you, Books \ {"alive"})
    BY <1>11 DEF Alike, Books
  <2>2. you.last.since = "none"
    BY <1>8 DEF NoCall
  <2> QED BY <1>2, <1>11, <2>1, <2>2, SameLedger DEF Good
<1> QED BY <1>6, <1>7, <1>8, <1>13, <1>14 DEF Good, Clocked, Shape

LEMMA DebugSetupGood ==
  ASSUME SetWell(program.env), NEW v, Good(v), NEW set, SetWell(set),
         NEW x, x = DmallocDebugSetup(v, set)
  PROVE  Good(x)
<1>1. CASE ~v.me.up
  BY <1>1, StartupGood DEF DmallocDebugSetup
<1>2. CASE v.me.up
  <2>1. PICK in : in = DmallocIn(v, NoPlace, FALSE)
    OBVIOUS
  <2>2. Underway(in)
    BY <2>1, InUnderway
  <2>3. x = ProcessEnviron(in, set, FALSE)
    BY <1>2, <2>1 DEF DmallocDebugSetup
  <2>4. Clocked(x) /\ Alike(in.me, x.me, Books) /\ x.me.last = NoCall
    BY <2>2, <2>3, EnvironClocked DEF Underway, Good
  <2>5. Alike(in.me, x.me, Books \ {"alive"}) /\ x.me.alive = in.me.alive /\ x.me.last.since = "none"
    BY <2>4 DEF Alike, Books, NoCall
  <2> QED BY <2>2, <2>4, <2>5, SameLedger DEF Underway, Good
<1> QED BY <1>1, <1>2

(* A mark: nothing the program has is new any more.                        *)
LEMMA MarkGood ==
  ASSUME SetWell(program.env), NEW v, Good(v), NEW x, x = DmallocMark(v)
  PROVE  Good(x)
<1>1. PICK u : u = DmallocStartup(v, program.env)
  OBVIOUS
<1>2. Good(u) /\ u.me.up
  BY <1>1, StartupGood
<1>3. PICK mine : mine = [p \in Pointers |-> [u.me.mine[p] EXCEPT !.new = FALSE]]
  OBVIOUS
<1>4. x = [u EXCEPT !.me.mark = u.me.iter, !.me.last = NoCall, !.me.mine = mine]
  BY <1>1, <1>3 DEF DmallocMark
<1>5. PICK you : you = [u.me EXCEPT !.mark = u.me.iter, !.last = NoCall, !.mine = mine]
  OBVIOUS
<1>6. DOMAIN u = {"pid", "me", "opens", "files"} /\ DOMAIN u.me = Fields
  BY <1>2 DEF Good, Clocked, Shape
<1>7. DOMAIN x = DOMAIN u /\ x.pid = u.pid /\ x.me = you
  BY <1>4, <1>5, <1>6 DEF Fields
<1>8. /\ DOMAIN you = Fields /\ you.mark = u.me.iter /\ you.last = NoCall /\ you.mine = mine
      /\ Alike(u.me, you, Fields \ {"mark", "last", "mine"})
  BY <1>5, <1>6 DEF Alike, Fields
<1>9. /\ you.asked = u.me.asked /\ you.iter = u.me.iter /\ you.up = u.me.up
      /\ you.flags = u.me.flags /\ you.start = u.me.start /\ you.interval = u.me.interval
      /\ you.slots = u.me.slots /\ you.alive = u.me.alive
  BY <1>8 DEF Alike, Fields
<1>10. Scheduled(you) = Scheduled(u.me)
  BY <1>9 DEF Scheduled, CountsCalls, AwaitsPlace, FromTheFirst, Checks
<1>11. LastRight(you) /\ DOMAIN you.last = {"may", "checked", "since", "told"} /\ you.last.since = "none"
  BY <1>8 DEF LastRight, NoCall
<1>12. ClockInv(you)
  BY <1>2, <1>9, <1>10, <1>11 DEF Good, Clocked, ClockInv
<1>13. /\ u.me.slots \in [Pointers -> SlotType] /\ u.me.mine \in [Pointers -> MineType]
       /\ u.me.iter \in Nat /\ u.me.iter <= u.me.iter
  BY <1>2 DEF Good, Ledger
<1>14. mine \in [Pointers -> MineType]
  BY <1>3, <1>13 DEF MineType
<1>15. ASSUME NEW q \in Pointers, Agrees(u.me.slots[q], u.me.mine[q], u.me.mark, u.me.iter)
       PROVE  Agrees(you.slots[q], you.mine[q], you.mark, you.iter)
  <2>1. mine[q].size = u.me.mine[q].size /\ mine[q].new = FALSE
        /\ mine[q] = [size |-> u.me.mine[q].size, new |-> FALSE]
    BY <1>3, <1>13 DEF MineType
  <2>2. u.me.slots[q].iter \in Nat
    BY <1>13 DEF SlotType
  <2>3. u.me.slots[q].iter <= u.me.iter => ~(u.me.slots[q].iter > u.me.iter)
    BY <1>13, <2>2
  <2>4. you.slots[q] = u.me.slots[q] /\ you.mine[q] = mine[q] /\ you.mark = u.me.iter
        /\ you.iter = u.me.iter
    BY <1>8, <1>9
  <2>5. CASE u.me.slots[q].state = "used"
    BY <1>15, <2>1, <2>3, <2>4, <2>5 DEF Agrees
  <2>6. CASE u.me.slots[q].state # "used"
    <3>1. u.me.mine[q] = [size |-> 0, new |-> FALSE]
      BY <1>15, <2>6 DEF Agrees
    <3>2. mine[q] = [size |-> 0, new |-> FALSE]
      BY <2>1, <3>1
    <3> QED BY <2>4, <2>6, <3>2 DEF Agrees
  <2> QED BY <2>5, <2>6
<1>16. you.alive => \A q \in Pointers : Owned(you, q)
  BY <1>2, <1>9, <1>15, OwnedAgrees DEF Good, Ledger
<1>17. Ledger(you)
  BY <1>8, <1>9, <1>11, <1>13, <1>14, <1>16 DEF Ledger, ToldRight
<1> QED BY <1>6, <1>7, <1>8, <1>12, <1>17 DEF Good, Clocked, Shape

LEMMA ShutdownSpoke == ASSUME NEW v, Shape(v) PROVE Spoke(v, DmallocShutdown(v))
<1>1. PICK open : open = OpenLog(v)
  OBVIOUS
<1>2. PICK stats : stats = IF "log-stats" \in open.me.flags THEN Speak(open, "stats") ELSE open
  OBVIOUS
<1>3. PICK unfreed : unfreed = IF "log-nonfree" \in stats.me.flags THEN DumpChanged(stats, 0) ELSE stats
  OBVIOUS
<1>5. Spoke(v, open) /\ Shape(open)
  BY <1>1, OpenLogSpoke DEF Spoke, Quiet
<1>6. Spoke(open, stats) /\ Shape(stats)
  BY <1>2, <1>5, SpeakSpoke, SpokeNothing DEF Spoke, Quiet
<1>7. Spoke(stats, unfreed) /\ Shape(unfreed)
  BY <1>3, <1>6, DumpChangedSpoke, SpokeNothing DEF Spoke, Quiet
<1>8. Spoke(unfreed, Speak(unfreed, "ending"))
  BY <1>7, SpeakSpoke
<1>9. DmallocShutdown(v) = Speak(unfreed, "ending")
  BY <1>1, <1>2, <1>3 DEF DmallocShutdown
<1>10. Spoke(v, stats)
  BY <1>5, <1>6, SpokeTwice
<1>11. Spoke(v, unfreed)
  BY <1>7, <1>10, SpokeTwice
<1> QED BY <1>8, <1>9, <1>11, SpokeTwice

-----------------------------------------------------------------------------
(* The invariant of the whole, call by call.                               *)

LEMMA InitCalls == Init => CallInv
<1> SUFFICES ASSUME Init PROVE CallInv
  OBVIOUS
<1>1. program \in Programs /\ DOMAIN lib = Pids /\ SetWell(program.env)
  BY CallAssumption DEF Init, SetWell
<1>2. ASSUME NEW p \in Pids PROVE DOMAIN lib[p] = Fields /\ ClockInv(lib[p]) /\ Ledger(lib[p])
  <2>1. PICK me : me = Process(program.env)
    OBVIOUS
  <2>2. lib[p] = [me EXCEPT !.alive = p = FirstPid]
    BY <2>1 DEF Init
  <2>3. /\ DOMAIN me = Fields /\ me.up = FALSE /\ me.iter = 0 /\ me.mark = 0 /\ me.last = NoCall
        /\ me.slots = [q \in Pointers |-> Unused]
        /\ me.mine = [q \in Pointers |-> [size |-> 0, new |-> FALSE]]
        /\ me.asked = [set |-> program.env, flags |-> {}, first |-> TRUE, calls |-> 0,
                       reached |-> FALSE, touched |-> FALSE]
    BY <2>1 DEF Process, Fields
  <2>4. DOMAIN lib[p] = Fields /\ Alike(me, lib[p], Fields \ {"alive"})
    BY <2>2, <2>3 DEF Alike, Fields
  <2>5. /\ lib[p].up = FALSE /\ lib[p].iter = 0 /\ lib[p].mark = 0 /\ lib[p].last = NoCall
        /\ lib[p].slots = me.slots /\ lib[p].mine = me.mine /\ lib[p].asked = me.asked
    BY <2>3, <2>4 DEF Alike, Fields
  <2>6. AskedShape(lib[p].asked)
    BY <1>1, <2>3, <2>5 DEF AskedShape, SetWell
  <2>7. LastRight(lib[p]) /\ ToldRight(lib[p]) /\ DOMAIN NoCall = {"may", "checked", "since", "told"}
    BY <2>5 DEF LastRight, ToldRight, NoCall
  <2>8. ClockInv(lib[p])
    <3>1. lib[p].iter \in Nat /\ lib[p].up \in BOOLEAN /\ ~lib[p].up /\ lib[p].last = NoCall
      <4>1. lib[p].iter \in Nat /\ lib[p].last = NoCall
        BY <2>5
      <4>2. lib[p].up \in BOOLEAN /\ ~lib[p].up
        BY <2>5, Zenon
      <4> QED BY <4>1, <4>2
    <3>2. DOMAIN lib[p].last = {"may", "checked", "since", "told"}
      BY <2>5, <2>7
    <3> QED BY <2>6, <2>7, <3>1, <3>2 DEF ClockInv
  <2>9. me.slots \in [Pointers -> SlotType] /\ me.mine \in [Pointers -> MineType]
    BY <2>3 DEF SlotType, MineType, Unused
  <2>10. ASSUME NEW q \in Pointers PROVE Owned(lib[p], q)
    BY <2>3, <2>5 DEF Owned, Used, Unused
  <2>11. Ledger(lib[p])
    BY <2>5, <2>7, <2>9, <2>10 DEF Ledger
  <2> QED BY <2>4, <2>8, <2>11
<1> QED BY <1>1, <1>2 DEF CallInv

LEMMA ViewGood ==
  ASSUME CallInv, NEW p \in Pids
  PROVE  Good(View(p)) /\ View(p).me = lib[p] /\ SetWell(program.env)
<1>1. DOMAIN View(p) = {"pid", "me", "opens", "files"} /\ View(p).me = lib[p]
  BY DEF View
<1>2. SetWell(program.env)
  BY CallAssumption DEF CallInv, SetWell
<1> QED BY <1>1, <1>2 DEF CallInv, Good, Clocked, Shape

LEMMA CallInvNext ==
  ASSUME program' \in Programs, DOMAIN lib' = Pids,
         \A q \in Pids : DOMAIN lib'[q] = Fields /\ ClockInv(lib'[q]) /\ Ledger(lib'[q])
  PROVE  CallInv'
<1>1. ASSUME NEW q \in Pids
      PROVE  DOMAIN lib[q]' = Fields /\ ClockInv(lib[q])' /\ Ledger(lib[q])'
  <2>1. ClockInv(lib[q])' <=> ClockInv(lib'[q])
    BY DEF ClockInv, AskedShape, Scheduled, CountsCalls, AwaitsPlace, FromTheFirst, Checks,
           LastRight, Sound, Due, StartRead, NoStart, NoCall, NoFile
  <2>2. Ledger(lib[q])' <=> Ledger(lib'[q])
    BY DEF Ledger, Owned, Used, ToldRight, SlotType, MineType
  <2> QED BY <2>1, <2>2
<1> QED BY <1>1 DEF CallInv

LEMMA StepKeeps ==
  ASSUME CallInv, NEW p \in Pids, NEW v, Good(v), Step(p, v)
  PROVE  CallInv'
<1>1. lib' = [lib EXCEPT ![p] = v.me] /\ program' = program
  BY DEF Step
<1>2. DOMAIN lib' = Pids /\ lib'[p] = v.me /\ \A q \in Pids : q # p => lib'[q] = lib[q]
  BY <1>1 DEF CallInv
<1>3. ASSUME NEW q \in Pids
      PROVE  DOMAIN lib'[q] = Fields /\ ClockInv(lib'[q]) /\ Ledger(lib'[q])
  BY <1>2 DEF CallInv, Good, Clocked, Shape
<1> QED BY <1>1, <1>2, <1>3, CallInvNext DEF CallInv

LEMMA MallocGood ==
  ASSUME SetWell(program.env), NEW v, Good(v), NEW place, NEW size \in Nat, NEW alignment,
         NEW xalloc, NEW choice \in Pointers \cup {NULL}
  PROVE  Good(DmallocMalloc(v, place, size, alignment, xalloc, choice))
<1>1. PICK in : in = DmallocIn(v, place, TRUE)
  OBVIOUS
<1>2. Underway(in)
  BY <1>1, InUnderway
<1>3. PICK w : w = WarnMemalign(in, alignment)
  OBVIOUS
<1>4. Spoke(in, w)
  BY <1>2, <1>3, BooksOpen, WarnMemalignSpoke
<1>5. Underway(w)
  BY <1>2, <1>4, SpokeErred, ErredUnderway
<1>6. DmallocMalloc(v, place, size, alignment, xalloc, choice) = Allocate(w, size, xalloc, choice)
  BY <1>1, <1>3 DEF DmallocMalloc
<1> QED BY <1>5, <1>6, AllocateGood

LEMMA LookGood ==
  ASSUME SetWell(program.env), NEW v, Good(v), NEW place, NEW pnt, NEW may \in BOOLEAN,
         NEW exact \in BOOLEAN
  PROVE  Good(Look(v, place, pnt, may, exact))
<1>1. PICK in : in = DmallocIn(v, place, may)
  OBVIOUS
<1>2. Underway(in)
  BY <1>1, InUnderway
<1>3. PICK w : w = Trans(in)
  OBVIOUS
<1>4. Underway(w)
  BY <1>2, <1>3, BooksOpen, TransSpoke, SpokeErred, ErredUnderway
<1>5. Erred(w, DmallocError(w))
  BY <1>4, BooksOpen, DmallocErrorErred
<1>6. Look(v, place, pnt, may, exact) \in {w, DmallocError(w)}
  BY <1>1, <1>3 DEF Look, Judge
<1> QED BY <1>4, <1>5, <1>6, ErredGood DEF Underway

LEMMA NextCalls == CallInv /\ [Next]_vars => CallInv'
<1> SUFFICES ASSUME CallInv, [Next]_vars PROVE CallInv'
  OBVIOUS
<1>1. CASE UNCHANGED vars
  <2>1. program' = program /\ lib' = lib
    BY <1>1 DEF vars
  <2>2. /\ program' \in Programs /\ DOMAIN lib' = Pids
        /\ \A q \in Pids : DOMAIN lib'[q] = Fields /\ ClockInv(lib'[q]) /\ Ledger(lib'[q])
    BY <2>1 DEF CallInv
  <2> QED BY <2>2, CallInvNext
<1>2. CASE Next
  <2>1. PICK p \in Pids :
          \/ Malloc(p) \/ Memalign(p) \/ Realloc(p) \/ Free(p) \/ Strndup(p)
          \/ VerifyHeap(p) \/ VerifyPnt(p) \/ Examine(p)
          \/ CountChanged(p) \/ LogUnfreed(p) \/ LogChanged(p) \/ LogStats(p)
          \/ Debug(p) \/ DebugSetup(p) \/ Mark(p) \/ Message(p)
          \/ Exit(p) \/ Fork(p)
    BY <1>2 DEF Next
  <2>2. PICK v : v = View(p)
    OBVIOUS
  <2>3. Good(v) /\ v.me = lib[p] /\ SetWell(program.env)
    BY <2>2, ViewGood
  <2>4. ASSUME NEW x, Good(x), Step(p, x) PROVE CallInv'
    BY <2>4, StepKeeps
  <2>5. program.sizes \subseteq Nat
    BY CallAssumption DEF CallInv
  <2>6. PICK in : in = DmallocIn(v, NoPlace, TRUE)
    OBVIOUS
  <2>7. Underway(in) /\ Good(in) /\ Shape(in)
    BY <2>3, <2>6, InUnderway, BooksOpen DEF Underway
  <2>8. Shape(v)
    BY <2>3 DEF Good, Clocked
  <2>9. CASE Malloc(p)
    <3>1. PICK place \in program.places, size \in program.sizes, xalloc \in BOOLEAN,
               choice \in Pointers \cup {NULL} :
                 Step(p, DmallocMalloc(v, place, size, "none", xalloc, choice))
      BY <2>2, <2>9 DEF Malloc
    <3> QED BY <2>3, <2>4, <2>5, <3>1, MallocGood
  <2>10. CASE Memalign(p)
    <3>1. PICK size \in program.sizes, align \in {"block", "odd"}, choice \in Pointers \cup {NULL} :
                 Step(p, DmallocMalloc(v, NoPlace, size, align, FALSE, choice))
      BY <2>2, <2>10 DEF Memalign
    <3> QED BY <2>3, <2>4, <2>5, <3>1, MallocGood
  <2>11. CASE Realloc(p)
    <3>1. PICK place \in program.places, old \in Pointers \cup {NULL},
               size \in program.sizes \cup {0}, xalloc \in BOOLEAN,
               choice \in Pointers \cup {NULL} :
                 Step(p, DmallocRealloc(v, place, old, size, xalloc, choice))
      BY <2>2, <2>11 DEF Realloc
    <3>2. size \in Nat
      BY <2>5
    <3>3. PICK now : now = DmallocIn(v, place, TRUE)
      OBVIOUS
    <3>4. Underway(now)
      BY <2>3, <3>3, InUnderway
    <3>5. Good(Resize(now, old, size, xalloc, choice))
      BY <3>2, <3>4, ResizeGood
    <3> QED BY <2>4, <3>1, <3>3, <3>5 DEF DmallocRealloc
  <2>12. CASE Free(p)
    <3>1. PICK place \in program.places, pnt \in Pointers \cup {NULL} :
                 Step(p, DmallocFree(v, place, pnt))
      BY <2>2, <2>12 DEF Free
    <3>2. PICK now : now = DmallocIn(v, place, TRUE)
      OBVIOUS
    <3>3. Underway(now)
      BY <2>3, <3>2, InUnderway
    <3>4. Good(Release(now, pnt))
      BY <3>3, ReleaseGood
    <3> QED BY <2>4, <3>1, <3>2, <3>4 DEF DmallocFree
  <2>13. CASE Strndup(p)
    <3>1. PICK size \in program.sizes, choice \in Pointers \cup {NULL} :
                 Step(p, DmallocStrndup(v, NoPlace, size, FALSE, choice))
      BY <2>2, <2>13 DEF Strndup
    <3>2. PICK looked : looked = IF "check-funcs" \in v.me.flags
                                 THEN Trans(DmallocIn(v, NoPlace, FALSE)) ELSE v
      OBVIOUS
    <3>3. Good(looked)
      <4>1. PICK now : now = DmallocIn(v, NoPlace, FALSE)
        OBVIOUS
      <4>2. Underway(now)
        BY <2>3, <4>1, InUnderway
      <4>3. PICK w : w = Trans(now)
        OBVIOUS
      <4>4. Underway(w)
        BY <4>2, <4>3, BooksOpen, TransSpoke, SpokeErred, ErredUnderway
      <4>5. looked \in {v, w}
        BY <3>2, <4>1, <4>3
      <4> QED BY <2>3, <4>4, <4>5 DEF Underway
    <3>4. DmallocStrndup(v, NoPlace, size, FALSE, choice)
          = DmallocMalloc(looked, NoPlace, size, "none", FALSE, choice)
      BY <3>2 DEF DmallocStrndup
    <3>5. Good(DmallocMalloc(looked, NoPlace, size, "none", FALSE, choice))
      BY <2>3, <2>5, <3>3, MallocGood
    <3> QED BY <2>4, <3>1, <3>4, <3>5
  <2>14. CASE VerifyHeap(p)
    <3>1. Step(p, DmallocIn(v, NoPlace, FALSE))
      BY <2>2, <2>14 DEF VerifyHeap
    <3>2. Good(DmallocIn(v, NoPlace, FALSE))
      BY <2>3, InUnderway DEF Underway
    <3> QED BY <2>4, <3>1, <3>2
  <2>15. CASE VerifyPnt(p)
    <3>1. PICK place \in program.places, pnt \in Pointers, exact \in BOOLEAN :
                 Step(p, Look(v, place, pnt, FALSE, exact))
      BY <2>2, <2>15 DEF VerifyPnt
    <3> QED BY <2>3, <2>4, <3>1, LookGood
  <2>16. CASE Examine(p)
    <3>1. PICK pnt \in Pointers : Step(p, Look(v, NoPlace, pnt, TRUE, TRUE))
      BY <2>2, <2>16 DEF Examine
    <3> QED BY <2>3, <2>4, <3>1, LookGood
  <2>17. CASE CountChanged(p)
    <3>1. Step(p, Tell(v, "mark", v.me.mark)) /\ v.me.alive
      BY <2>2, <2>3, <2>17 DEF CountChanged, Calls
    <3>2. Told(v.me, v.me.mark) = SumFunctionOnSet(Sizes(v.me), Has(v.me, "mark"))
      BY <2>3, <3>1, ToldSinceMark DEF Good
    <3>3. Good(Tell(v, "mark", v.me.mark))
      BY <2>3, <3>2, TellGood
    <3> QED BY <2>4, <3>1, <3>3
  <2>18. CASE LogUnfreed(p)
    <3>1. Step(p, DumpChanged(Tell(v, "start", 0), 0)) /\ v.me.alive
      BY <2>2, <2>3, <2>18 DEF LogUnfreed, Calls
    <3>2. Told(v.me, 0) = SumFunctionOnSet(Sizes(v.me), Has(v.me, "start"))
      BY <2>3, <3>1, ToldSinceStart DEF Good
    <3>3. PICK x : x = Tell(v, "start", 0)
      OBVIOUS
    <3>4. Good(x) /\ Shape(x)
      BY <2>3, <3>2, <3>3, TellGood DEF Good, Clocked
    <3>5. Good(DumpChanged(x, 0))
      BY <3>4, DumpChangedSpoke, SpokeErred, ErredGood
    <3> QED BY <2>4, <3>1, <3>3, <3>5
  <2>19. CASE LogChanged(p)
    <3>1. Step(p, DumpChanged(in, v.me.mark))
      BY <2>2, <2>3, <2>6, <2>19 DEF LogChanged
    <3>2. Good(DumpChanged(in, v.me.mark))
      BY <2>7, DumpChangedSpoke, SpokeErred, ErredGood
    <3> QED BY <2>4, <3>1, <3>2
  <2>20. CASE LogStats(p)
    <3>1. Step(p, Speak(in, "stats"))
      BY <2>2, <2>6, <2>20 DEF LogStats
    <3>2. Good(Speak(in, "stats"))
      BY <2>7, SpeakSpoke, SpokeErred, ErredGood
    <3> QED BY <2>4, <3>1, <3>2
  <2>21. CASE Debug(p)
    <3>1. PICK flags \in program.flagsets : Step(p, DmallocDebug(v, flags))
      BY <2>2, <2>21 DEF Debug
    <3> QED BY <2>3, <2>4, <3>1, DebugGood
  <2>22. CASE DebugSetup(p)
    <3>1. PICK set \in program.options : Step(p, DmallocDebugSetup(v, set))
      BY <2>2, <2>22 DEF DebugSetup
    <3>2. SetWell(set)
      BY CallAssumption DEF CallInv, SetWell
    <3> QED BY <2>3, <2>4, <3>1, <3>2, DebugSetupGood
  <2>23. CASE Mark(p)
    <3>1. Step(p, DmallocMark(v))
      BY <2>2, <2>23 DEF Mark
    <3> QED BY <2>3, <2>4, <3>1, MarkGood
  <2>24. CASE Message(p)
    <3>1. Step(p, Speak(v, "user"))
      BY <2>2, <2>24 DEF Message
    <3>2. Good(Speak(v, "user"))
      BY <2>3, <2>8, SpeakSpoke, SpokeErred, ErredGood
    <3> QED BY <2>4, <3>1, <3>2
  <2>25. CASE Exit(p)
    <3>1. PICK x : x = IF lib[p].up THEN DmallocShutdown(v) ELSE v
      OBVIOUS
    <3>2. Step(p, Die(x))
      BY <2>2, <2>25, <3>1 DEF Exit
    <3>3. Spoke(v, x)
      BY <2>8, <3>1, ShutdownSpoke, SpokeNothing
    <3>4. Good(x) /\ Shape(x)
      BY <2>3, <3>3, SpokeErred, ErredGood DEF Good, Clocked
    <3>5. Good(Die(x))
      BY <3>4, DieErred, ErredGood
    <3> QED BY <2>4, <3>2, <3>5
  <2>26. CASE Fork(p)
    <3>1. PICK child \in Pids :
            Step(child, [v EXCEPT !.me.sent = <<>>, !.me.inherited = lib[p].fd])
      BY <2>2, <2>26 DEF Fork
    <3>2. PICK x : x = [v EXCEPT !.me.sent = <<>>, !.me.inherited = lib[p].fd]
      OBVIOUS
    <3>3. Spoke(v, x)
      BY <2>8, <3>2 DEF Spoke, Quiet, Alike, Shape, Fields, Noise
    <3>4. Good(x)
      BY <2>3, <3>3, SpokeErred, ErredGood
    <3> QED BY <3>1, <3>2, <3>4, StepKeeps
  <2> QED BY <2>1, <2>9, <2>10, <2>11, <2>12, <2>13, <2>14, <2>15, <2>16, <2>17, <2>18,
             <2>19, <2>20, <2>21, <2>22, <2>23, <2>24, <2>25, <2>26
<1> QED BY <1>1, <1>2

(* Every call leaves the schedule of heap checks and the books of every    *)
(* process as they should be.                                              *)
THEOREM CallInvariance == Spec => []CallInv
BY InitCalls, NextCalls, PTL DEF Spec

(* Whatever the settings, the calls and the forks: a call that may check   *)
(* the heap checks it when the settings ask for it, and only then.         *)
THEOREM HeapCheckedAsAsked == Spec => []ChecksAsAsked
<1>1. CallInv => ChecksAsAsked
  BY DEF CallInv, ClockInv, LastRight, ChecksAsAsked
<1> QED BY <1>1, CallInvariance, PTL

(* Whatever was allocated, moved and freed since a mark: what is told to   *)
(* be unfreed is what the program has, by the answers it got.              *)
THEOREM LeaksAreTold == Spec => []LeaksTold
<1>1. CallInv => LeaksTold
  BY DEF CallInv, Ledger, ToldRight, LeaksTold
<1> QED BY <1>1, CallInvariance, PTL
=============================================================================
