------------------------------ MODULE MCMemTable ------------------------------
(***************************************************************************)
(* A table of 4 entries and a hash that collides and wraps around.         *)
(***************************************************************************)
EXTENDS MemTable
CONSTANTS f, g

At(file, line) == [file |-> file, line |-> line]
Lines == {At(f, 1), At(f, 2), At(g, 1), At(g, 3)}
(* f:1, g:1 and g:3 start at the last entry, f:2 at the first. *)
MCHash == [loc \in [file : {f, g, NoFile}, line : 0 .. 5] |->
             IF loc.file # NoFile /\ loc.line \in {1, 3} THEN 3 ELSE 0]
=============================================================================
