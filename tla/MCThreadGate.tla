----------------------------- MODULE MCThreadGate -----------------------------
(***************************************************************************)
(* Small programs at the gate: one to three threads, a lock-on of a few      *)
(* calls.                                                                  *)
(***************************************************************************)
EXTENDS ThreadGate
CONSTANTS m, t, u
MCThreads == {m, t}
MCThreeThreads == {m, t, u}
MCOneThread == {m}
=============================================================================
