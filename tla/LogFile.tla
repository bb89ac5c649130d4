------------------------------- MODULE LogFile -------------------------------
(***************************************************************************)
(* The log file (error.c).  Where a line of the log goes depends on what   *)
(* the process remembers (the path it was given, the descriptor it has     *)
(* open, the process id it last looked at) and on what the processes       *)
(* share: a forked child keeps the parent's open file, and an open of the  *)
(* same path by another process empties it.                                *)
(*                                                                         *)
(* The operators take a view of the system: the process that runs, what it *)
(* remembers (me), the open files of the system and their lines.  A line   *)
(* is who wrote it and of what kind it is; the lines of a header are one.  *)
(* The copy that print-messages sends to stderr is left out.               *)
(***************************************************************************)
EXTENDS Integers, Sequences

CONSTANTS
  PidPaths,      \* log paths with a %p, opened again in a forked child
  OldPidPaths,   \* log paths with only a %d, the older name of %p
  PlainPaths,    \* log paths that are the same for every process
  Unopenable,    \* log paths open() fails for
  NoPath         \* dmalloc_logpath of NULL

Paths == PidPaths \cup OldPidPaths \cup PlainPaths

ASSUME PathAssumption ==
  /\ NoPath \notin Paths
  /\ Unopenable \subseteq Paths
  /\ PidPaths \cap (OldPidPaths \cup PlainPaths) = {}

Closed == 0
NoPid == 0
LogStart == [logpath |-> NoPath, fd |-> Closed, current |-> NoPid]

Hole == [by |-> NoPid, kind |-> "hole"]

(* The name the path stands for. *)
FileOf(path, pid) == IF path \in PlainPaths THEN <<path, NoPid>> ELSE <<path, pid>>
Files(pids) == {FileOf(path, pid) : path \in Paths, pid \in pids}

(* write(): the line goes where the descriptor's offset is, which is not   *)
(* the end of the file when another process has emptied it.                *)
Overlay(text, at, line) ==
  [k \in 1 .. (IF Len(text) > at THEN Len(text) ELSE at + 1) |->
     IF k = at + 1 THEN line ELSE IF k <= Len(text) THEN text[k] ELSE Hole]

Put(v, kind) ==
  LET open == v.opens[v.me.fd]
  IN [v EXCEPT !.files[open.file] =
                 Overlay(@, open.at, [by |-> v.pid, kind |-> kind]),
               !.opens[v.me.fd].at = @ + 1]

Opened(v) ==
  LET file == FileOf(v.me.logpath, v.pid)
  IN IF v.me.logpath \in Unopenable THEN [v EXCEPT !.me.logpath = NoPath]
     ELSE [v EXCEPT !.files[file] = <<>>,
                    !.opens = Append(@, [file |-> file, at |-> 0]),
                    !.me.fd = Len(v.opens) + 1]

(* _dmalloc_reopen_log for a process whose id is the one it remembers and  *)
(* whose file is open.                                                     *)
CloseOpen(v) == [Put(v, "closing") EXCEPT !.me.fd = Closed]

(* Mutant: a child goes on in its parent's file. *)
CheckPidOnly(v) == [v EXCEPT !.me.current = v.pid]

(* The look at the process id: a child drops the file it has from its      *)
(* parent, after a last line in it.                                        *)
CheckPid(v) ==
  LET now == [v EXCEPT !.me.current = v.pid]
      same == \/ v.me.current = v.pid
              \/ v.me.logpath \notin PidPaths
              \/ v.me.fd = Closed
  IN IF same THEN now ELSE CloseOpen(now)

(* The header goes through _dmalloc_vmessage, which looks at the process   *)
(* id: in dmalloc_shutdown that may be its first look, and the file just   *)
(* opened is closed and opened again before the header is written.         *)
OpenAgain(v) == IF v.me.fd = Closed THEN Put(Opened(v), "header") ELSE v
Header(v) == IF v.me.logpath = NoPath THEN v ELSE Put(OpenAgain(CheckPid(v)), "header")
OpenLog(v) ==
  IF v.me.fd # Closed \/ v.me.logpath = NoPath THEN v ELSE Header(Opened(v))

PutOpen(v, kind) == IF v.me.logpath = NoPath THEN v ELSE Put(v, kind)
Vmessage(v, kind) ==
  IF v.me.logpath = NoPath THEN v ELSE PutOpen(OpenLog(CheckPid(v)), kind)

(* With no path the message that the file is closed has nowhere to go. *)
ReopenLog(v) ==
  IF v.me.fd = Closed THEN v
  ELSE [Vmessage(v, "closing") EXCEPT !.me.fd = Closed]

(* What the processes themselves said, without the frame of the file. *)
Said(text) ==
  SelectSeq(text, LAMBDA line : line.kind \notin {"header", "closing", "hole"})
=============================================================================
