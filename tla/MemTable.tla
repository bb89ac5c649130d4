------------------------------- MODULE MemTable -------------------------------
(***************************************************************************)
(* The memory table of dmalloc_tab.c, which says how much memory each      *)
(* place of the program has allocated and still has, and the calls of      *)
(* chunk.c that keep it.  The table is probed linearly; it is sorted to be *)
(* total and then put back in place, entry by entry.                     *)
(***************************************************************************)
EXTENDS Integers, Functions, FiniteSetsExt

CONSTANTS
  MEMORY_TABLE_SIZE,
  NoFile,        \* DMALLOC_DEFAULT_FILE: the caller is not known
  LINE_RANGE,    \* values of an unsigned short, which sa_line is
  Locations,     \* places the program allocates from: a file and a line
  Hash,          \* hash() of a location
  Pnts, Sizes,   \* pointers the program has at a time, sizes it asks for
  MaxCalls       \* bound on the calls

N == 2 * MEMORY_TABLE_SIZE
Unknown == [file |-> NoFile, line |-> 0]
Stored(loc) == [loc EXCEPT !.line = @ % LINE_RANGE]

ASSUME TableAssumption ==
  /\ MEMORY_TABLE_SIZE \in Nat \ {0}
  /\ LINE_RANGE \in Nat \ {0}
  /\ \A loc \in Locations : loc = [file |-> loc.file, line |-> loc.line] /\ loc.line \in Nat
  /\ \A loc \in Locations : loc.file = NoFile => loc.line = 0
  /\ \A loc \in Locations : Hash[loc] \in Nat /\ Hash[Stored(loc)] \in Nat
  /\ IsFiniteSet(Locations) /\ IsFiniteSet(Pnts)
  /\ Sizes \subseteq Nat /\ MaxCalls \in Nat

VARIABLES
  tab,        \* mt_entries, and mt_other_pointers behind the last of them
  in_use_c,   \* mt_in_use_c
  pnts,       \* sa_file, sa_line and sa_user_size of the pointers
  pc, cursor, \* where _dmalloc_table_log_info is in putting the table back
  total,      \* its "Total of" line, while it runs
  made,       \* history: what was allocated at each location
  calls

vars == <<tab, in_use_c, pnts, pc, cursor, total, made, calls>>

Other == N
Slots == 0 .. N - 1
Blank == [loc |-> Unknown, total_size |-> 0, total_c |-> 0,
          in_use_size |-> 0, in_use_c |-> 0, pos |-> Other]
IsBlank(e) == e.loc.file = NoFile
Table == [tab |-> tab, in_use_c |-> in_use_c]
NoTotal == [total_size |-> 0, total_c |-> 0]
NoPnt == [loc |-> Unknown, from |-> Unknown, size |-> -1]

-----------------------------------------------------------------------------
(* table_find, _dmalloc_table_insert and _dmalloc_table_delete.            *)

(* An entry of the location, the first blank one, or else the other        *)
(* pointers.                                                               *)
Find(entries, loc) ==
  LET probe(k) == (Hash[loc] + k) % N
      stops == {k \in Slots : IsBlank(entries[probe(k)]) \/ entries[probe(k)].loc = loc}
  IN IF stops = {} THEN Other ELSE probe(Min(stops))

(* Mutant: the entry is to go back to the bucket of its hash.               *)
InsertAtBucket(t, loc, size) ==
  LET found == Find(t.tab, loc)
      e == IF IsBlank(t.tab[found]) /\ t.in_use_c > N \div 2 THEN Other ELSE found
  IN [tab |-> [t.tab EXCEPT ![e] =
        [loc |-> IF e = Other THEN Unknown ELSE loc, pos |-> Hash[loc] % N,
         total_size |-> @.total_size + size, total_c |-> @.total_c + 1,
         in_use_size |-> @.in_use_size + size, in_use_c |-> @.in_use_c + 1]],
      in_use_c |-> IF e = Other THEN t.in_use_c ELSE t.in_use_c + 1]

Insert(t, loc, size) ==
  LET found == Find(t.tab, loc)
      e == IF IsBlank(t.tab[found]) /\ t.in_use_c > N \div 2 THEN Other ELSE found
  IN [tab |-> [t.tab EXCEPT ![e] =
        [loc |-> IF e = Other THEN Unknown ELSE loc, pos |-> e,
         total_size |-> @.total_size + size, total_c |-> @.total_c + 1,
         in_use_size |-> @.in_use_size + size, in_use_c |-> @.in_use_c + 1]],
      in_use_c |-> IF e = Other THEN t.in_use_c ELSE t.in_use_c + 1]

(* Mutant: what is not found is taken off the blank entry. *)
DeleteBlank(t, loc, size) ==
  LET e == Find(t.tab, loc)
      enough == t.tab[e].in_use_size >= size /\ t.tab[e].in_use_c > 0
  IN IF enough
     THEN [tab |-> [t.tab EXCEPT ![e].in_use_size = @ - size, ![e].in_use_c = @ - 1],
           in_use_c |-> t.in_use_c]
     ELSE t

Delete(t, loc, size) ==
  LET found == Find(t.tab, loc)
      e == IF IsBlank(t.tab[found]) THEN Other ELSE found
      enough == t.tab[e].in_use_size >= size /\ t.tab[e].in_use_c > 0
  IN IF enough
     THEN [tab |-> [t.tab EXCEPT ![e].in_use_size = @ - size, ![e].in_use_c = @ - 1],
           in_use_c |-> t.in_use_c]
     ELSE t

-----------------------------------------------------------------------------
(* The allocation calls. *)

Call == pc = "idle" /\ calls < MaxCalls /\ calls' = calls + 1
Becomes(t) == tab' = t.tab /\ in_use_c' = t.in_use_c
Held(p, loc, size) ==
  /\ pnts' = [pnts EXCEPT ![p] = [loc |-> Stored(loc), from |-> loc, size |-> size]]
  /\ made' = [made EXCEPT ![loc] = [size |-> @.size + size, c |-> @.c + 1]]

Malloc(p, loc, size) ==
  /\ Call
  /\ pnts[p] = NoPnt
  /\ Becomes(Insert(Table, loc, size))
  /\ Held(p, loc, size)
  /\ UNCHANGED <<pc, cursor, total>>

(* A resize in place; with a copy it is a Malloc and a Free. *)
Realloc(p, loc, size) ==
  /\ Call
  /\ pnts[p] # NoPnt
  /\ Becomes(Insert(Delete(Table, pnts[p].loc, pnts[p].size), loc, size))
  /\ Held(p, loc, size)
  /\ UNCHANGED <<pc, cursor, total>>

Free(p) ==
  /\ Call
  /\ pnts[p] # NoPnt
  /\ Becomes(Delete(Table, pnts[p].loc, pnts[p].size))
  /\ pnts' = [pnts EXCEPT ![p] = NoPnt]
  /\ UNCHANGED <<pc, cursor, total, made>>

-----------------------------------------------------------------------------
(* _dmalloc_table_log_info *)

(* entry_cmp: the largest come first, the blank ones count for nothing. *)
Key(e) == IF IsBlank(e) THEN 0 ELSE e.total_size
Filled(entries) == {k \in Slots : ~IsBlank(entries[k])}
Orders == {f \in [Slots -> Slots] : IsInjective(f)}

(* Mutant: the other pointers are thought of when the table is full. *)
SummedFull(entries) == Filled(entries) \cup {k \in {Other} : in_use_c >= N}

(* The entries that the "Total of" line adds up. *)
Summed(entries) == Filled(entries) \cup {k \in {Other} : in_use_c >= MEMORY_TABLE_SIZE}

Report(entries) ==
  LET size == [k \in DOMAIN entries |-> entries[k].total_size]
      c == [k \in DOMAIN entries |-> entries[k].total_c]
  IN [total_size |-> SumFunctionOnSet(size, Summed(entries)),
      total_c |-> SumFunctionOnSet(c, Summed(entries))]

LogInfo ==
  /\ Call
  /\ in_use_c > 0
  /\ \E f \in Orders :
       /\ \A k \in Slots : k > 0 => Key(tab[f[k - 1]]) >= Key(tab[f[k]])
       /\ tab' = [k \in Slots \cup {Other} |-> IF k = Other THEN tab[k] ELSE tab[f[k]]]
  /\ total' = Report(tab')
  /\ pc' = "unsort" /\ cursor' = 0
  /\ UNCHANGED <<in_use_c, pnts, made>>

AtHome(k) == IsBlank(tab[k]) \/ tab[k].pos = k

(* Mutant: the end of the table is tested one entry late. *)
AdvancePast ==
  /\ pc = "unsort" /\ cursor <= N
  /\ AtHome(cursor)
  /\ cursor' = cursor + 1
  /\ UNCHANGED <<tab, in_use_c, pnts, pc, total, made, calls>>

Advance ==
  /\ pc = "unsort" /\ cursor < N
  /\ AtHome(cursor)
  /\ cursor' = cursor + 1
  /\ UNCHANGED <<tab, in_use_c, pnts, pc, total, made, calls>>

(* Mutant: the entry that came in exchange is passed over. *)
SwapOnce ==
  /\ pc = "unsort" /\ cursor < N
  /\ ~AtHome(cursor)
  /\ tab' = [tab EXCEPT ![tab[cursor].pos] = tab[cursor],
                        ![cursor] = tab[tab[cursor].pos]]
  /\ cursor' = cursor + 1
  /\ UNCHANGED <<in_use_c, pnts, pc, total, made, calls>>

Swap ==
  /\ pc = "unsort" /\ cursor < N
  /\ ~AtHome(cursor)
  /\ tab' = [tab EXCEPT ![tab[cursor].pos] = tab[cursor],
                        ![cursor] = tab[tab[cursor].pos]]
  /\ UNCHANGED <<in_use_c, pnts, pc, cursor, total, made, calls>>

LogDone ==
  /\ pc = "unsort" /\ cursor = N
  /\ pc' = "idle" /\ cursor' = 0 /\ total' = NoTotal
  /\ UNCHANGED <<tab, in_use_c, pnts, made, calls>>

-----------------------------------------------------------------------------
Init ==
  /\ tab = [k \in Slots \cup {Other} |-> Blank]
  /\ in_use_c = 0
  /\ pnts = [p \in Pnts |-> NoPnt]
  /\ pc = "idle" /\ cursor = 0
  /\ total = NoTotal
  /\ made = [loc \in Locations |-> [size |-> 0, c |-> 0]]
  /\ calls = 0

Unsort == Advance \/ Swap \/ LogDone
Next == \/ \E p \in Pnts, loc \in Locations, size \in Sizes :
             Malloc(p, loc, size) \/ Realloc(p, loc, size)
        \/ \E p \in Pnts : Free(p)
        \/ LogInfo
        \/ Unsort

Spec == Init /\ [][Next]_vars
(* The report is written within one call, which runs on. *)
FairSpec == Spec /\ WF_vars(Unsort)

-----------------------------------------------------------------------------
Entries == [loc : Locations \cup {Unknown}, pos : Slots \cup {Other},
            total_size : Nat, total_c : Nat, in_use_size : Nat, in_use_c : Nat]
Pointers == {NoPnt} \cup {[loc |-> Stored(loc), from |-> loc, size |-> size] :
                           loc \in Locations, size \in Sizes}
TypeOK ==
  /\ in_use_c \in Nat /\ calls \in 0 .. MaxCalls
  /\ tab \in [Slots \cup {Other} -> Entries]
  /\ pnts \in [Pnts -> Pointers]
  /\ made \in [Locations -> [size : Nat, c : Nat]]
  /\ pc \in {"idle", "unsort"} /\ cursor \in 0 .. N

(* Each location has one entry and it is where table_find looks for it: the *)
(* sort was undone to the last entry, however many of them are equal.  All  *)
(* but MEMORY_TABLE_SIZE + 1 of the entries stay blank, so a probe ends     *)
(* soon ("2 times this many entries for speed reasons").                    *)
NeverFull == Cardinality(Filled(tab)) <= MEMORY_TABLE_SIZE + 1
ProbeIntact == /\ pc = "idle" => \A k \in Filled(tab) : Find(tab, tab[k].loc) = k
               /\ NeverFull

(* An entry says what its location allocated and what of it is in use, and  *)
(* the other pointers say the same of the locations that have none.         *)
Made(locs) == LET size == [loc \in Locations |-> made[loc].size]
                  c == [loc \in Locations |-> made[loc].c]
              IN <<SumFunctionOnSet(size, locs), SumFunctionOnSet(c, locs)>>
InUse(locs) == LET size == [p \in Pnts |-> pnts[p].size]
                   held == {p \in Pnts : pnts[p] # NoPnt /\ pnts[p].from \in locs}
               IN <<SumFunctionOnSet(size, held), Cardinality(held)>>
Shows(e, locs) == /\ <<e.total_size, e.total_c>> = Made(locs)
                  /\ <<e.in_use_size, e.in_use_c>> = InUse(locs)
EntriesTrue ==
  /\ \A k \in Filled(tab) : Shows(tab[k], {tab[k].loc})
  /\ Shows(tab[Other], Locations \ {tab[k].loc : k \in Filled(tab)})

(* The "Total of" line covers every allocation made, those of the other     *)
(* pointers too.                                                            *)
TotalComplete ==
  pc = "unsort" => <<total.total_size, total.total_c>> = Made(Locations)

(* The swapping loop ends. *)
LogReturns == pc = "unsort" ~> pc = "idle"
=============================================================================
