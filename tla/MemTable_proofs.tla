-------------------------- MODULE MemTable_proofs --------------------------
(***************************************************************************)
(* Proofs about the memory table, for every size of it, every hash and any *)
(* places and pointers of the program.                                     *)
(***************************************************************************)
EXTENDS MemTable, SumTheorems

LEMMA TableSize == N \in Nat /\ N > 0 /\ Other = N /\ Other \notin Slots /\ N \div 2 = MEMORY_TABLE_SIZE
<1>1. N \in Nat /\ N > 0 /\ N \div 2 = MEMORY_TABLE_SIZE
  BY TableAssumption DEF N
<1> QED BY <1>1 DEF Other, Slots

(* The k-th entry that table_find looks at. *)
Probe(loc, k) == (Hash[loc] + k) % N

LEMMA ProbeInTable ==
  ASSUME NEW loc, Hash[loc] \in Nat, NEW k \in Slots
  PROVE  Probe(loc, k) \in Slots
<1>1. Hash[loc] + k \in Int /\ N \in Nat /\ N > 0
  BY TableSize DEF Slots
<1>2. \A x \in Int : x % N \in 0 .. N - 1
  BY TableSize
<1> QED BY <1>1, <1>2 DEF Probe, Slots

(* Any set of slots has a smallest member, which Min finds. *)
LEMMA SmallestSlot ==
  ASSUME NEW S \in SUBSET Slots, S # {}
  PROVE  Min(S) \in S /\ \A k \in S : Min(S) <= k
<1>1. S \in SUBSET Nat
  BY TableSize DEF Slots
<1>2. \E x \in S : \A y \in S : x <= y
  BY <1>1, LeastNumber
<1> QED BY <1>2 DEF Min

(* What table_find comes back with: every entry before it on the probe is   *)
(* in use, by another location.                                             *)
Passes(entries, loc, k) ==
  ~IsBlank(entries[Probe(loc, k)]) /\ entries[Probe(loc, k)].loc # loc
Stops(entries, loc) == {k \in Slots : ~Passes(entries, loc, k)}

LEMMA FindProbes ==
  ASSUME NEW entries, NEW loc
  PROVE  Find(entries, loc) =
           IF Stops(entries, loc) = {} THEN Other ELSE Probe(loc, Min(Stops(entries, loc)))
BY DEF Find, Stops, Passes, Probe

LEMMA FindFinds ==
  ASSUME NEW entries, NEW loc, Hash[loc] \in Nat
  PROVE  \/ /\ Find(entries, loc) = Other
            /\ \A k \in Slots : Passes(entries, loc, k)
         \/ \E d \in Slots :
              /\ Find(entries, loc) = Probe(loc, d) /\ Probe(loc, d) \in Slots
              /\ ~Passes(entries, loc, d)
              /\ \A k \in Slots : k < d => Passes(entries, loc, k)
<1>1. CASE Stops(entries, loc) = {}
  BY <1>1, FindProbes DEF Stops
<1>2. CASE Stops(entries, loc) # {}
  <2> DEFINE d == Min(Stops(entries, loc))
  <2>1. d \in Stops(entries, loc) /\ \A k \in Stops(entries, loc) : d <= k
    BY <1>2, SmallestSlot DEF Stops
  <2>2. d \in Slots /\ ~Passes(entries, loc, d)
    BY <2>1 DEF Stops
  <2>3. ASSUME NEW k \in Slots, k < d PROVE Passes(entries, loc, k)
    BY <2>1, <2>2, <2>3, TableSize DEF Stops, Slots
  <2>4. Find(entries, loc) = Probe(loc, d) /\ Probe(loc, d) \in Slots
    BY <1>2, <2>2, FindProbes, ProbeInTable
  <2> QED BY <2>2, <2>3, <2>4
<1> QED BY <1>1, <1>2

(* ... and the other way about. *)
LEMMA FirstIsFound ==
  ASSUME NEW entries, NEW loc, NEW d \in Slots, ~Passes(entries, loc, d),
         \A k \in Slots : k < d => Passes(entries, loc, k)
  PROVE  Find(entries, loc) = Probe(loc, d)
<1>1. d \in Stops(entries, loc) /\ Stops(entries, loc) \subseteq Slots
  BY DEF Stops
<1>2. PICK m : m = Min(Stops(entries, loc))
  OBVIOUS
<1>3. m \in Slots /\ ~Passes(entries, loc, m) /\ m <= d
  BY <1>1, <1>2, SmallestSlot DEF Stops
<1>4. m = d
  BY <1>3, TableSize DEF Slots
<1> QED BY <1>1, <1>2, <1>4, FindProbes

LEMMA FindInTable ==
  ASSUME NEW entries, NEW loc, Hash[loc] \in Nat
  PROVE  Find(entries, loc) \in Slots \cup {Other}
BY FindFinds

-----------------------------------------------------------------------------
(* Types. *)

LEMMA RangeOfBlanks ==
  /\ Blank \in Entries /\ IsBlank(Blank)
  /\ \A e \in Entries : IsBlank(e) => e.loc = Unknown
<1>1. \A loc \in Locations : loc.file = NoFile => loc = Unknown
  BY TableAssumption DEF Unknown
<1> QED BY <1>1 DEF Blank, Entries, IsBlank, Unknown

LEMMA HashedPointer ==
  ASSUME NEW x \in Pointers, x # NoPnt
  PROVE  /\ Hash[x.loc] \in Nat /\ x.size \in Sizes /\ x.size \in Nat /\ x.from \in Locations
         /\ x.loc = Stored(x.from)
         /\ x = [loc |-> Stored(x.from), from |-> x.from, size |-> x.size]
BY TableAssumption DEF Pointers

IsTable(s) == /\ s = [tab |-> s.tab, in_use_c |-> s.in_use_c]
              /\ s.tab \in [Slots \cup {Other} -> Entries] /\ s.in_use_c \in Nat

(* An insert writes one entry, the one that is found or the other pointers. *)
InsertsAt(s, loc) ==
  LET found == Find(s.tab, loc)
  IN IF IsBlank(s.tab[found]) /\ s.in_use_c > N \div 2 THEN Other ELSE found
With(entry, e, loc, size) ==
  [loc |-> IF e = Other THEN Unknown ELSE loc, pos |-> e,
   total_size |-> entry.total_size + size, total_c |-> entry.total_c + 1,
   in_use_size |-> entry.in_use_size + size, in_use_c |-> entry.in_use_c + 1]
Inserted(s, t, e, loc, size) ==
  /\ e \in Slots \cup {Other}
  /\ t.in_use_c = IF e = Other THEN s.in_use_c ELSE s.in_use_c + 1
  /\ \A k \in Slots \cup {Other} : k # e => t.tab[k] = s.tab[k]
  /\ t.tab[e] = With(s.tab[e], e, loc, size)

LEMMA InsertWrites ==
  ASSUME NEW s, IsTable(s), NEW loc \in Locations, NEW size \in Nat
  PROVE  /\ Inserted(s, Insert(s, loc, size), InsertsAt(s, loc), loc, size)
         /\ IsTable(Insert(s, loc, size))
<1> DEFINE e == InsertsAt(s, loc)
           t == Insert(s, loc, size)
<1>1. e \in Slots \cup {Other}
  BY FindInTable, TableAssumption DEF InsertsAt
<1>2. t.tab = [s.tab EXCEPT ![e] = With(s.tab[e], e, loc, size)]
  BY DEF Insert, InsertsAt, With
<1>3. /\ t.in_use_c = IF e = Other THEN s.in_use_c ELSE s.in_use_c + 1
      /\ t = [tab |-> t.tab, in_use_c |-> t.in_use_c]
  BY DEF Insert, InsertsAt
<1> HIDE DEF e, t
<1>4. Inserted(s, t, e, loc, size)
  BY <1>1, <1>2, <1>3 DEF Inserted, IsTable
<1>5. With(s.tab[e], e, loc, size) \in Entries
  <2>1. s.tab[e] \in Entries
    BY <1>1 DEF IsTable
  <2> QED BY <1>1, <2>1 DEF With, Entries
<1>6. t.tab \in [Slots \cup {Other} -> Entries]
  BY <1>1, <1>2, <1>5 DEF IsTable
<1>7. t.in_use_c \in Nat
  BY <1>3 DEF IsTable
<1>8. IsTable(t)
  BY <1>3, <1>6, <1>7 DEF IsTable
<1> QED BY <1>4, <1>8 DEF e, t

(* A delete lowers what is in use of one entry, if it may. *)
DeletesAt(s, loc) ==
  LET found == Find(s.tab, loc) IN IF IsBlank(s.tab[found]) THEN Other ELSE found
Enough(e, size) == e.in_use_size >= size /\ e.in_use_c > 0
Without(entry, size) == [entry EXCEPT !.in_use_size = @ - size, !.in_use_c = @ - 1]
Deleted(s, t, e, size) ==
  /\ e \in Slots \cup {Other}
  /\ t.in_use_c = s.in_use_c
  /\ \A k \in Slots \cup {Other} : k # e => t.tab[k] = s.tab[k]
  /\ t.tab[e] = IF Enough(s.tab[e], size) THEN Without(s.tab[e], size) ELSE s.tab[e]

LEMMA WithoutFields ==
  ASSUME NEW r \in Entries, NEW size
  PROVE  LET w == Without(r, size)
         IN /\ w.loc = r.loc /\ w.pos = r.pos
            /\ w.total_size = r.total_size /\ w.total_c = r.total_c
            /\ w.in_use_size = r.in_use_size - size /\ w.in_use_c = r.in_use_c - 1
BY DEF Without, Entries

LEMMA DeleteWrites ==
  ASSUME NEW s, IsTable(s), NEW x \in Pointers, x # NoPnt
  PROVE  /\ Deleted(s, Delete(s, x.loc, x.size), DeletesAt(s, x.loc), x.size)
         /\ IsTable(Delete(s, x.loc, x.size))
<1>0. Hash[x.loc] \in Nat /\ x.size \in Nat
  BY HashedPointer
<1> DEFINE e == DeletesAt(s, x.loc)
           t == Delete(s, x.loc, x.size)
<1>1. e \in Slots \cup {Other}
  BY <1>0, FindInTable DEF DeletesAt
<1>2. t = IF Enough(s.tab[e], x.size)
          THEN [tab |-> [s.tab EXCEPT ![e].in_use_size = @ - x.size, ![e].in_use_c = @ - 1],
                in_use_c |-> s.in_use_c]
          ELSE s
  BY DEF Delete, DeletesAt, Enough
<1> HIDE DEF e, t
<1>3. CASE Enough(s.tab[e], x.size)
  <2> DEFINE new == [s.tab EXCEPT ![e] = Without(s.tab[e], x.size)]
  <2>1. t = [tab |-> new, in_use_c |-> s.in_use_c]
    <3>1. new = [s.tab EXCEPT ![e].in_use_size = @ - x.size, ![e].in_use_c = @ - 1]
      BY <1>1 DEF Entries, IsTable, Without
    <3> QED BY <1>2, <1>3, <3>1
  <2>2. Without(s.tab[e], x.size) \in Entries
    <3>1. PICK r \in Entries : r = s.tab[e]
      BY <1>1 DEF IsTable
    <3>2. r.in_use_size - x.size \in Nat /\ r.in_use_c - 1 \in Nat
      BY <1>0, <1>3, <3>1 DEF Entries, Enough
    <3>3. [r EXCEPT !.in_use_size = r.in_use_size - x.size, !.in_use_c = r.in_use_c - 1] \in Entries
      BY <3>2 DEF Entries
    <3> QED BY <3>1, <3>3 DEF Without
  <2>3. new \in [Slots \cup {Other} -> Entries]
    BY <1>1, <2>2 DEF IsTable
  <2>4. IsTable(t)
    BY <2>1, <2>3 DEF IsTable
  <2>5. Deleted(s, t, e, x.size)
    BY <1>1, <1>3, <2>1 DEF IsTable, Deleted
  <2> QED BY <2>4, <2>5 DEF e, t
<1>4. CASE ~Enough(s.tab[e], x.size)
  BY <1>1, <1>2, <1>4 DEF Deleted, e, t
<1> QED BY <1>3, <1>4

LEMMA TableIsTable == TypeOK => IsTable(Table)
BY DEF TypeOK, IsTable, Table

(* What the three calls make of the table. *)
LEMMA CallsWriteTables ==
  ASSUME TypeOK, NEW p \in Pnts, NEW loc \in Locations, NEW size \in Sizes
  PROVE  /\ size \in Nat
         /\ Malloc(p, loc, size) => IsTable(Insert(Table, loc, size))
         /\ Realloc(p, loc, size) =>
              /\ IsTable(Delete(Table, pnts[p].loc, pnts[p].size))
              /\ IsTable(Insert(Delete(Table, pnts[p].loc, pnts[p].size), loc, size))
<1>1. size \in Nat
  BY TableAssumption
<1>2. pnts[p] # NoPnt => IsTable(Delete(Table, pnts[p].loc, pnts[p].size))
  BY TableIsTable, DeleteWrites DEF TypeOK
<1>3. \A s : IsTable(s) => IsTable(Insert(s, loc, size))
  BY <1>1, InsertWrites
<1> QED BY <1>1, <1>2, <1>3, TableIsTable DEF Malloc, Realloc

LEMMA TableTypesStep == TypeOK /\ [Next]_vars => TypeOK'
<1> SUFFICES ASSUME TypeOK, [Next]_vars PROVE TypeOK'
  OBVIOUS
<1>c. ASSUME Call PROVE calls' \in 0 .. MaxCalls
  BY <1>c, TableAssumption DEF Call, TypeOK
<1>h. ASSUME NEW p \in Pnts, NEW loc \in Locations, NEW size \in Sizes, Held(p, loc, size)
      PROVE  pnts' \in [Pnts -> Pointers] /\ made' \in [Locations -> [size : Nat, c : Nat]]
  <2>1. size \in Nat
    BY TableAssumption
  <2>2. [loc |-> Stored(loc), from |-> loc, size |-> size] \in Pointers
    BY DEF Pointers
  <2>3. pnts' \in [Pnts -> Pointers]
    BY <1>h, <2>2 DEF Held, TypeOK
  <2>4. [size |-> made[loc].size + size, c |-> made[loc].c + 1] \in [size : Nat, c : Nat]
    BY <2>1 DEF TypeOK
  <2> QED BY <1>h, <2>3, <2>4 DEF Held, TypeOK
<1>b. ASSUME NEW t, IsTable(t), Becomes(t)
      PROVE  tab' \in [Slots \cup {Other} -> Entries] /\ in_use_c' \in Nat
  BY <1>b DEF IsTable, Becomes
<1>1. ASSUME NEW p \in Pnts, NEW loc \in Locations, NEW size \in Sizes, Malloc(p, loc, size)
      PROVE  TypeOK'
  <2>1. tab' \in [Slots \cup {Other} -> Entries] /\ in_use_c' \in Nat
    BY <1>1, <1>b, CallsWriteTables DEF Malloc
  <2> QED BY <1>c, <1>h, <1>1, <2>1 DEF TypeOK, Malloc
<1>2. ASSUME NEW p \in Pnts, NEW loc \in Locations, NEW size \in Sizes, Realloc(p, loc, size)
      PROVE  TypeOK'
  <2>1. tab' \in [Slots \cup {Other} -> Entries] /\ in_use_c' \in Nat
    BY <1>2, <1>b, CallsWriteTables DEF Realloc
  <2> QED BY <1>c, <1>h, <1>2, <2>1 DEF TypeOK, Realloc
<1>3. ASSUME NEW p \in Pnts, Free(p) PROVE TypeOK'
  <2>1. tab' \in [Slots \cup {Other} -> Entries] /\ in_use_c' \in Nat
    BY <1>3, <1>b, TableIsTable, DeleteWrites DEF Free, TypeOK
  <2>2. pnts' \in [Pnts -> Pointers]
    BY <1>3 DEF TypeOK, Free, Pointers
  <2> QED BY <1>c, <1>3, <2>1, <2>2 DEF TypeOK, Free
<1>4. CASE LogInfo
  <2>1. PICK f \in [Slots -> Slots] :
          tab' = [k \in Slots \cup {Other} |-> IF k = Other THEN tab[k] ELSE tab[f[k]]]
    BY <1>4 DEF LogInfo, Orders
  <2>2. tab' \in [Slots \cup {Other} -> Entries]
    BY <2>1 DEF TypeOK
  <2>3. pc' = "unsort" /\ cursor' \in 0 .. N
    BY <1>4, TableSize DEF LogInfo
  <2>4. calls' \in 0 .. MaxCalls
    BY <1>4, <1>c DEF LogInfo
  <2> QED BY <1>4, <2>2, <2>3, <2>4 DEF TypeOK, LogInfo
<1>5. CASE Advance
  <2>1. cursor' \in 0 .. N
    BY <1>5, TableSize DEF TypeOK, Advance
  <2> QED BY <1>5, <2>1 DEF TypeOK, Advance
<1>6. CASE Swap
  <2>1. cursor \in Slots
    BY <1>6, TableSize DEF TypeOK, Swap, Slots
  <2>2. tab[cursor] \in Entries /\ tab[cursor].pos \in Slots \cup {Other}
    BY <2>1 DEF TypeOK, Entries
  <2>3. tab' \in [Slots \cup {Other} -> Entries]
    BY <1>6, <2>1, <2>2 DEF TypeOK, Swap
  <2> QED BY <1>6, <2>3 DEF TypeOK, Swap
<1>7. CASE LogDone
  BY <1>7, TableSize DEF TypeOK, LogDone
<1>8. CASE UNCHANGED vars
  BY <1>8 DEF vars, TypeOK
<1> QED BY <1>1, <1>2, <1>3, <1>4, <1>5, <1>6, <1>7, <1>8 DEF Next, Unsort

LEMMA TableTypesInit == Init => TypeOK
<1> SUFFICES ASSUME Init PROVE TypeOK
  OBVIOUS
<1>1. tab \in [Slots \cup {Other} -> Entries]
  BY RangeOfBlanks DEF Init
<1>2. pnts \in [Pnts -> Pointers]
  BY DEF Init, Pointers
<1>3. made \in [Locations -> [size : Nat, c : Nat]]
  BY DEF Init
<1> QED BY <1>1, <1>2, <1>3, TableSize, TableAssumption DEF Init, TypeOK

(* The table has entries, the pointers that are held have the location they *)
(* were given, and the exchanges stay inside the table: dmalloc_tab.c.      *)
THEOREM TableTypes == Spec => []TypeOK
BY TableTypesInit, TableTypesStep, PTL DEF Spec

-----------------------------------------------------------------------------
(* Where the entries are.                                                   *)

(* No two entries have a location or a home in common, and on the probe to  *)
(* the home of an entry is the home of another one at every step.           *)
OneEach(entries) ==
  \A k, m \in Filled(entries) :
    entries[k].pos = entries[m].pos \/ entries[k].loc = entries[m].loc => k = m
OnProbe(entries, k) ==
  \E d \in Slots :
    /\ entries[k].pos = Probe(entries[k].loc, d)
    /\ \A i \in Slots : i < d =>
         \E m \in Filled(entries) : /\ entries[m].pos = Probe(entries[k].loc, i)
                                    /\ entries[m].loc # entries[k].loc
Placed(entries) ==
  /\ IsBlank(entries[Other])
  /\ OneEach(entries)
  /\ \A k \in Filled(entries) : OnProbe(entries, k)
AllHome(entries) == \A k \in Filled(entries) : entries[k].pos = k
FewFilled(entries, n) == /\ Cardinality(Filled(entries)) <= n
                         /\ Cardinality(Filled(entries)) <= MEMORY_TABLE_SIZE + 1

LEMMA FilledFinite ==
  ASSUME NEW entries
  PROVE  /\ Filled(entries) \subseteq Slots /\ IsFiniteSet(Slots) /\ Cardinality(Slots) = N
         /\ IsFiniteSet(Filled(entries)) /\ Cardinality(Filled(entries)) \in Nat
<1>1. IsFiniteSet(Slots) /\ Cardinality(Slots) = N
  BY FS_Interval, TableSize DEF Slots
<1>2. Filled(entries) \subseteq Slots
  BY DEF Filled
<1> QED BY <1>1, <1>2, FS_Subset, FS_CardinalityType

(* An entry at home is found there. *)
LEMMA HomeIsFound ==
  ASSUME NEW entries, Placed(entries), AllHome(entries), NEW k \in Filled(entries)
  PROVE  Find(entries, entries[k].loc) = k
<1> DEFINE loc == entries[k].loc
<1>1. PICK d \in Slots :
        /\ entries[k].pos = Probe(loc, d)
        /\ \A i \in Slots : i < d =>
             \E m \in Filled(entries) : entries[m].pos = Probe(loc, i) /\ entries[m].loc # loc
  BY DEF Placed, OnProbe
<1>2. Probe(loc, d) = k
  BY <1>1 DEF AllHome
<1>3. ~Passes(entries, loc, d)
  BY <1>2 DEF Passes
<1>4. ASSUME NEW i \in Slots, i < d PROVE Passes(entries, loc, i)
  <2>1. PICK m \in Filled(entries) : entries[m].pos = Probe(loc, i) /\ entries[m].loc # loc
    BY <1>1, <1>4
  <2> QED BY <2>1 DEF AllHome, Filled, Passes
<1>5. Find(entries, loc) = Probe(loc, d)
  BY <1>3, <1>4, FirstIsFound
<1> QED BY <1>2, <1>5

(* Only locations and homes matter. *)
LEMMA SamePlaces ==
  ASSUME NEW old, NEW new, Placed(old),
         \A k \in Slots \cup {Other} : /\ new[k].loc = old[k].loc
                                       /\ ~IsBlank(old[k]) => new[k].pos = old[k].pos
  PROVE  /\ Placed(new) /\ Filled(new) = Filled(old)
         /\ AllHome(old) => AllHome(new)
<1>1. /\ Filled(new) = Filled(old) /\ IsBlank(new[Other])
      /\ \A k \in Filled(old) : new[k].loc = old[k].loc /\ new[k].pos = old[k].pos
  BY DEF Placed, Filled, IsBlank
<1>2. OneEach(new)
  BY <1>1 DEF Placed, OneEach
<1>3. \A k \in Filled(old) : OnProbe(old, k) => OnProbe(new, k)
  BY <1>1 DEF OnProbe
<1> QED BY <1>1, <1>2, <1>3 DEF Placed, AllHome

(* The order of the entries does not matter either. *)
Reordered(old, new, f) ==
  /\ f \in [Slots -> Slots] /\ IsInjective(f)
  /\ new[Other] = old[Other] /\ \A k \in Slots : new[k] = old[f[k]]

LEMMA OrdersReachAll ==
  ASSUME NEW f \in [Slots -> Slots], IsInjective(f), NEW m \in Slots
  PROVE  \E k \in Slots : f[k] = m
<1>1. f \in Injection(Slots, Slots)
  BY DEF Injection
<1>2. f \in Surjection(Slots, Slots)
  BY <1>1, FilledFinite, FS_Injection
<1> QED BY <1>2 DEF Surjection

LEMMA ReorderedPlaces ==
  ASSUME NEW old, NEW new, NEW f, Reordered(old, new, f), Placed(old)
  PROVE  /\ Placed(new)
         /\ \A m \in Filled(old) : \E k \in Filled(new) : f[k] = m
         /\ \A n \in Nat : FewFilled(old, n) => FewFilled(new, n)
<1>1. \A k \in Slots : k \in Filled(new) <=> f[k] \in Filled(old)
  BY DEF Reordered, Filled
<1>2. ASSUME NEW m \in Filled(old) PROVE \E k \in Filled(new) : f[k] = m /\ new[k] = old[m]
  <2>1. PICK k \in Slots : f[k] = m
    BY OrdersReachAll DEF Reordered, Filled
  <2> QED BY <1>1, <2>1 DEF Reordered
<1>3. \A k \in Filled(new) : f[k] \in Filled(old) /\ new[k] = old[f[k]] /\ k \in Slots
  BY <1>1 DEF Reordered, Filled
<1>4. OneEach(new)
  <2> SUFFICES ASSUME NEW k \in Filled(new), NEW m \in Filled(new),
                      new[k].pos = new[m].pos \/ new[k].loc = new[m].loc
               PROVE  k = m
    BY DEF OneEach
  <2>1. f[k] = f[m]
    BY <1>3 DEF Placed, OneEach
  <2> QED BY <2>1, <1>3 DEF Reordered, IsInjective
<1>5. ASSUME NEW k \in Filled(new) PROVE OnProbe(new, k)
  <2>1. OnProbe(old, f[k])
    BY <1>3 DEF Placed
  <2>2. \A m \in Filled(old) : \E j \in Filled(new) : new[j] = old[m]
    BY <1>2
  <2> QED BY <2>1, <2>2, <1>3 DEF OnProbe
<1>6. IsBlank(new[Other])
  BY DEF Reordered, Placed
<1>7. Cardinality(Filled(new)) <= Cardinality(Filled(old))
  <2>1. [k \in Filled(new) |-> f[k]] \in Injection(Filled(new), Filled(old))
    BY <1>3 DEF Injection, IsInjective, Reordered
  <2> QED BY <2>1, FilledFinite, FS_Injection
<1>8. ASSUME NEW n \in Nat, FewFilled(old, n) PROVE FewFilled(new, n)
  <2>1. Cardinality(Filled(new)) \in Nat /\ Cardinality(Filled(old)) \in Nat
        /\ MEMORY_TABLE_SIZE \in Nat
    BY FilledFinite, TableAssumption
  <2> QED BY <1>7, <1>8, <2>1 DEF FewFilled
<1> QED BY <1>2, <1>4, <1>5, <1>6, <1>8 DEF Placed

(* An insert puts a new entry where it will be found. *)
LEMMA InsertPlaces ==
  ASSUME NEW s, IsTable(s), Placed(s.tab), AllHome(s.tab), FewFilled(s.tab, s.in_use_c),
         NEW loc \in Locations, NEW size \in Nat, NEW t, t = Insert(s, loc, size)
  PROVE  Placed(t.tab) /\ AllHome(t.tab) /\ FewFilled(t.tab, t.in_use_c)
<1>1. PICK e : e = InsertsAt(s, loc) /\ Inserted(s, t, e, loc, size)
  BY InsertWrites
<1>2. /\ e \in Slots \cup {Other} /\ s.in_use_c \in Nat /\ t.in_use_c \in Nat
      /\ t.in_use_c = IF e = Other THEN s.in_use_c ELSE s.in_use_c + 1
      /\ \A k \in Slots \cup {Other} : k # e => t.tab[k] = s.tab[k]
      /\ t.tab[e].loc = (IF e = Other THEN Unknown ELSE loc) /\ t.tab[e].pos = e
  BY <1>1, InsertWrites DEF Inserted, With, IsTable
<1>3. \A k \in Slots \cup {Other} : IsBlank(s.tab[k]) => s.tab[k].loc = Unknown
  BY RangeOfBlanks DEF IsTable
<1>n. /\ Cardinality(Filled(s.tab)) \in Nat /\ MEMORY_TABLE_SIZE \in Nat
      /\ N \div 2 = MEMORY_TABLE_SIZE
  BY FilledFinite, TableAssumption, TableSize
<1>4. ASSUME \A k \in Slots \cup {Other} : /\ t.tab[k].loc = s.tab[k].loc
                                           /\ ~IsBlank(s.tab[k]) => t.tab[k].pos = s.tab[k].pos
      PROVE  Placed(t.tab) /\ AllHome(t.tab) /\ FewFilled(t.tab, t.in_use_c)
  <2>1. Placed(t.tab) /\ AllHome(t.tab) /\ Filled(t.tab) = Filled(s.tab)
    BY <1>4, SamePlaces
  <2>2. s.in_use_c <= t.in_use_c
    BY <1>2
  <2> QED BY <1>2, <1>n, <2>1, <2>2 DEF FewFilled
<1>5. CASE e = Other
  <2>1. s.tab[Other].loc = Unknown /\ IsBlank(s.tab[Other])
    BY <1>3 DEF Placed
  <2> QED BY <1>2, <1>4, <1>5, <2>1
<1>6. CASE e # Other /\ ~IsBlank(s.tab[e])
  <2>1. e = Find(s.tab, loc) /\ e \in Filled(s.tab)
    BY <1>1, <1>2, <1>6 DEF InsertsAt, Filled
  <2>2. s.tab[e].loc = loc
    <3>1. Hash[loc] \in Nat
      BY TableAssumption
    <3> QED BY <1>6, <2>1, <3>1, FindFinds DEF Passes
  <2>3. s.tab[e].pos = e
    BY <2>1 DEF AllHome
  <2> QED BY <1>2, <1>4, <1>6, <2>2, <2>3
<1>7. CASE e # Other /\ IsBlank(s.tab[e]) /\ loc.file = NoFile
  <2>1. loc = Unknown
    BY <1>7, TableAssumption DEF Unknown
  <2> QED BY <1>2, <1>3, <1>4, <1>7, <2>1
<1>8. CASE e # Other /\ IsBlank(s.tab[e]) /\ loc.file # NoFile
  <2>1. /\ e = Find(s.tab, loc) /\ e \in Slots /\ e \notin Filled(s.tab)
        /\ s.in_use_c <= MEMORY_TABLE_SIZE
    <3>1. e = Find(s.tab, loc) /\ ~(s.in_use_c > N \div 2)
      BY <1>1, <1>8 DEF InsertsAt
    <3>2. s.in_use_c <= MEMORY_TABLE_SIZE
      BY <3>1, <1>2, <1>n
    <3> QED BY <1>2, <1>8, <3>1, <3>2 DEF Filled
  <2>2. Filled(t.tab) = Filled(s.tab) \cup {e}
    BY <1>2, <1>8, <2>1 DEF Filled, IsBlank
  <2>3. PICK d \in Slots :
          /\ e = Probe(loc, d)
          /\ \A k \in Slots : k < d => Passes(s.tab, loc, k)
    <3>1. Hash[loc] \in Nat
      BY TableAssumption
    <3> QED BY <1>8, <2>1, <3>1, FindFinds
  <2>4. \A m \in Filled(s.tab) : s.tab[m].loc # loc
    BY <2>1, HomeIsFound
  <2>5. \A m \in Filled(s.tab) : t.tab[m] = s.tab[m] /\ m # e
    BY <1>2, <2>1 DEF Filled
  <2>6. t.tab[e].loc = loc /\ t.tab[e].pos = e
    BY <1>2, <1>8
  <2>7. AllHome(t.tab)
    BY <2>2, <2>5, <2>6 DEF AllHome
  <2>8. OneEach(t.tab)
    BY <2>2, <2>4, <2>5, <2>6, <2>7 DEF OneEach, AllHome, Placed
  <2>9. OnProbe(t.tab, e)
    <3>1. ASSUME NEW i \in Slots, i < d
          PROVE  \E m \in Filled(t.tab) : t.tab[m].pos = Probe(loc, i) /\ t.tab[m].loc # loc
      <4>1. ~IsBlank(s.tab[Probe(loc, i)]) /\ s.tab[Probe(loc, i)].loc # loc
        BY <2>3, <3>1 DEF Passes
      <4>2. Probe(loc, i) \in Slots
        BY ProbeInTable, TableAssumption
      <4>3. Probe(loc, i) \in Filled(s.tab)
        BY <4>1, <4>2 DEF Filled
      <4> QED BY <2>2, <2>5, <2>7, <4>1, <4>3 DEF AllHome
    <3> QED BY <2>3, <2>6, <3>1 DEF OnProbe
  <2>10. ASSUME NEW k \in Filled(s.tab) PROVE OnProbe(t.tab, k)
    <3>1. OnProbe(s.tab, k)
      BY DEF Placed
    <3> QED BY <2>2, <2>5, <3>1 DEF OnProbe
  <2>11. IsBlank(t.tab[Other])
    BY <1>2, <1>8 DEF Placed
  <2>12. FewFilled(t.tab, t.in_use_c)
    <3>1. Cardinality(Filled(t.tab)) = Cardinality(Filled(s.tab)) + 1
      BY <2>1, <2>2, FS_AddElement, FilledFinite
    <3>2. Cardinality(Filled(s.tab)) <= s.in_use_c
      BY DEF FewFilled
    <3>3. t.in_use_c = s.in_use_c + 1
      BY <1>2, <1>8
    <3> QED BY <1>2, <1>n, <2>1, <3>1, <3>2, <3>3 DEF FewFilled
  <2> QED BY <2>2, <2>7, <2>8, <2>9, <2>10, <2>11, <2>12 DEF Placed
<1> QED BY <1>5, <1>6, <1>7, <1>8

LEMMA DeletePlaces ==
  ASSUME NEW s, IsTable(s), Placed(s.tab), AllHome(s.tab), FewFilled(s.tab, s.in_use_c),
         NEW x \in Pointers, x # NoPnt, NEW t, t = Delete(s, x.loc, x.size)
  PROVE  Placed(t.tab) /\ AllHome(t.tab) /\ FewFilled(t.tab, t.in_use_c)
<1>1. PICK e : Deleted(s, t, e, x.size)
  BY DeleteWrites
<1>2. \A k \in Slots \cup {Other} : t.tab[k].loc = s.tab[k].loc /\ t.tab[k].pos = s.tab[k].pos
  <2>1. s.tab[e] \in Entries
    BY <1>1 DEF Deleted, IsTable
  <2>2. t.tab[e].loc = s.tab[e].loc /\ t.tab[e].pos = s.tab[e].pos
    BY <1>1, <2>1, WithoutFields DEF Deleted
  <2> QED BY <1>1, <2>2 DEF Deleted
<1>3. Placed(t.tab) /\ AllHome(t.tab) /\ Filled(t.tab) = Filled(s.tab)
  BY <1>2, SamePlaces
<1> QED BY <1>1, <1>3 DEF Deleted, FewFilled

(* The entries stay on their probes while the table is sorted; before the   *)
(* cursor each of them is in its place again.                               *)
PlaceInv ==
  /\ TypeOK
  /\ Placed(tab)
  /\ FewFilled(tab, in_use_c)
  /\ pc = "idle" => AllHome(tab)
  /\ \A k \in Filled(tab) : k < cursor => tab[k].pos = k

(* An exchange is a change of order. *)
LEMMA SwapReorders ==
  ASSUME PlaceInv, Swap
  PROVE  LET p == tab[cursor].pos
             f == [k \in Slots |-> IF k = cursor THEN p ELSE IF k = p THEN cursor ELSE k]
         IN /\ Reordered(tab, tab', f)
            /\ cursor \in Slots /\ p \in Slots /\ p # cursor
<1>1. cursor \in Slots
  BY TableSize DEF PlaceInv, TypeOK, Swap, Slots
<1>2. cursor \in Filled(tab) /\ tab[cursor].pos # cursor
  BY <1>1 DEF Swap, AtHome, Filled
<1>3. tab[cursor].pos \in Slots
  <2>1. PICK d \in Slots : tab[cursor].pos = Probe(tab[cursor].loc, d)
    BY <1>2 DEF PlaceInv, Placed, OnProbe
  <2>2. tab[cursor].loc \in Locations
    BY <1>1, <1>2 DEF PlaceInv, TypeOK, Entries, Filled, IsBlank, Unknown
  <2> QED BY <2>1, <2>2, ProbeInTable, TableAssumption
<1>4. PICK p \in Slots : p = tab[cursor].pos
  BY <1>3
<1> DEFINE f == [k \in Slots |-> IF k = cursor THEN p ELSE IF k = p THEN cursor ELSE k]
<1>5. f \in [Slots -> Slots] /\ IsInjective(f)
  BY <1>1 DEF IsInjective
<1>6. tab' = [tab EXCEPT ![p] = tab[cursor], ![cursor] = tab[p]]
  BY <1>4 DEF Swap
<1>7. Other # p /\ Other # cursor
  BY <1>1, TableSize
<1>8. tab'[Other] = tab[Other] /\ \A k \in Slots : tab'[k] = tab[f[k]]
  BY <1>1, <1>6, <1>7 DEF PlaceInv, TypeOK
<1>9. Reordered(tab, tab', f)
  BY <1>5, <1>8 DEF Reordered
<1> QED BY <1>1, <1>2, <1>4, <1>9

LEMMA PlaceStep == PlaceInv /\ [Next]_vars => PlaceInv'
<1> SUFFICES ASSUME PlaceInv, [Next]_vars PROVE PlaceInv'
  OBVIOUS
<1>t. TypeOK'
  BY TableTypesStep DEF PlaceInv
<1>i. /\ TypeOK /\ IsTable(Table) /\ Placed(tab) /\ FewFilled(tab, in_use_c)
      /\ in_use_c \in Nat /\ N \in Nat
  BY TableIsTable, TableSize DEF PlaceInv, TypeOK
(* A call leaves every entry at home. *)
<1>c. ASSUME NEW t, Becomes(t), Placed(t.tab), AllHome(t.tab), FewFilled(t.tab, t.in_use_c)
      PROVE  PlaceInv'
  <2>1. Placed(tab') /\ AllHome(tab') /\ FewFilled(tab', in_use_c')
    BY <1>c DEF Becomes
  <2>2. \A k \in Filled(tab') : tab'[k].pos = k
    BY <2>1 DEF AllHome
  <2> QED BY <1>t, <2>1, <2>2 DEF PlaceInv
<1>h. ASSUME pc = "idle" PROVE Placed(Table.tab) /\ AllHome(Table.tab) /\ FewFilled(Table.tab, Table.in_use_c)
  BY <1>h DEF PlaceInv, Table
<1>1. ASSUME NEW p \in Pnts, NEW loc \in Locations, NEW size \in Sizes, Malloc(p, loc, size)
      PROVE  PlaceInv'
  <2>1. pc = "idle" /\ size \in Nat
    BY <1>1, TableAssumption DEF Malloc, Call
  <2>2. PICK t : t = Insert(Table, loc, size)
    OBVIOUS
  <2>3. Placed(t.tab) /\ AllHome(t.tab) /\ FewFilled(t.tab, t.in_use_c)
    BY <1>i, <1>h, <2>1, <2>2, InsertPlaces
  <2> QED BY <1>1, <1>c, <2>2, <2>3 DEF Malloc
<1>2. ASSUME NEW p \in Pnts, NEW loc \in Locations, NEW size \in Sizes, Realloc(p, loc, size)
      PROVE  PlaceInv'
  <2>1. pc = "idle" /\ size \in Nat /\ pnts[p] \in Pointers /\ pnts[p] # NoPnt
    BY <1>i, <1>2, TableAssumption DEF Realloc, Call, TypeOK
  <2>2. PICK d : d = Delete(Table, pnts[p].loc, pnts[p].size)
    OBVIOUS
  <2>3. Placed(d.tab) /\ AllHome(d.tab) /\ FewFilled(d.tab, d.in_use_c)
    BY <1>i, <1>h, <2>1, <2>2, DeletePlaces
  <2>4. IsTable(d)
    BY <1>i, <2>1, <2>2, DeleteWrites
  <2>5. PICK t : t = Insert(d, loc, size)
    OBVIOUS
  <2>6. Placed(t.tab) /\ AllHome(t.tab) /\ FewFilled(t.tab, t.in_use_c)
    BY <2>1, <2>3, <2>4, <2>5, InsertPlaces
  <2> QED BY <1>2, <1>c, <2>2, <2>5, <2>6 DEF Realloc
<1>3. ASSUME NEW p \in Pnts, Free(p) PROVE PlaceInv'
  <2>1. pc = "idle" /\ pnts[p] \in Pointers /\ pnts[p] # NoPnt
    BY <1>i, <1>3 DEF Free, Call, TypeOK
  <2>2. PICK d : d = Delete(Table, pnts[p].loc, pnts[p].size)
    OBVIOUS
  <2>3. Placed(d.tab) /\ AllHome(d.tab) /\ FewFilled(d.tab, d.in_use_c)
    BY <1>i, <1>h, <2>1, <2>2, DeletePlaces
  <2> QED BY <1>3, <1>c, <2>2, <2>3 DEF Free
<1>4. CASE LogInfo
  <2>1. PICK f \in [Slots -> Slots] :
          /\ IsInjective(f)
          /\ tab' = [k \in Slots \cup {Other} |-> IF k = Other THEN tab[k] ELSE tab[f[k]]]
    BY <1>4 DEF LogInfo, Orders
  <2>2. Reordered(tab, tab', f)
    BY <2>1, TableSize DEF Reordered
  <2>3. Placed(tab') /\ FewFilled(tab', in_use_c')
    BY <1>4, <1>i, <2>2, ReorderedPlaces DEF LogInfo
  <2>4. pc' = "unsort" /\ cursor' = 0
    BY <1>4 DEF LogInfo
  <2>5. \A k \in Filled(tab') : ~(k < cursor')
    BY <2>4, TableSize DEF Filled, Slots
  <2> QED BY <1>t, <2>3, <2>4, <2>5 DEF PlaceInv
<1>5. CASE Advance
  <2>1. UNCHANGED <<tab, in_use_c, pc>> /\ cursor' = cursor + 1 /\ pc = "unsort" /\ cursor \in 0 .. N
    BY <1>5, <1>i DEF Advance, TypeOK
  <2>2. ASSUME NEW k \in Filled(tab), k < cursor' PROVE tab[k].pos = k
    <3>1. k \in Slots /\ ~IsBlank(tab[k])
      BY DEF Filled
    <3>2. k < cursor \/ k = cursor
      BY <2>1, <2>2, <3>1, <1>i DEF Slots
    <3> QED BY <1>5, <3>1, <3>2 DEF PlaceInv, Advance, AtHome
  <2> QED BY <1>t, <1>i, <2>1, <2>2 DEF PlaceInv
<1>6. CASE Swap
  <2> DEFINE p == tab[cursor].pos
             f == [k \in Slots |-> IF k = cursor THEN p ELSE IF k = p THEN cursor ELSE k]
  <2>1. Reordered(tab, tab', f) /\ cursor \in Slots /\ p \in Slots /\ p # cursor
    BY <1>6, SwapReorders
  <2>2. Placed(tab') /\ FewFilled(tab', in_use_c')
    <3> HIDE DEF f
    <3> QED BY <1>6, <1>i, <2>1, ReorderedPlaces DEF Swap
  <2>3. pc' = "unsort" /\ cursor' = cursor
    BY <1>6 DEF Swap
  <2>4. ASSUME NEW k \in Filled(tab'), k < cursor PROVE tab'[k].pos = k
    <3>1. k \in Slots /\ tab'[k] = tab[f[k]] /\ ~IsBlank(tab'[k])
      BY <2>1 DEF Reordered, Filled
    <3>2. k # cursor
      BY <2>1, <2>4, <3>1, <1>i DEF Slots
    <3>3. CASE k = p
      BY <2>1, <3>1, <3>2, <3>3
    <3>4. CASE k # p
      BY <2>4, <3>1, <3>2, <3>4 DEF PlaceInv, Filled
    <3> QED BY <3>3, <3>4
  <2> QED BY <1>t, <2>2, <2>3, <2>4 DEF PlaceInv
<1>7. CASE LogDone
  <2>1. AllHome(tab)
    <3>1. cursor = N
      BY <1>7 DEF LogDone
    <3>2. \A k \in Filled(tab) : k < N
      BY <1>i DEF Filled, Slots
    <3> QED BY <3>1, <3>2 DEF PlaceInv, AllHome
  <2>2. UNCHANGED <<tab, in_use_c>>
    BY <1>7 DEF LogDone
  <2>3. \A k \in Filled(tab) : tab[k].pos = k
    BY <2>1 DEF AllHome
  <2> QED BY <1>t, <1>i, <2>1, <2>2, <2>3 DEF PlaceInv
<1>8. CASE UNCHANGED vars
  BY <1>8, <1>t, <1>i DEF vars, PlaceInv
<1> QED BY <1>1, <1>2, <1>3, <1>4, <1>5, <1>6, <1>7, <1>8 DEF Next, Unsort

LEMMA PlaceInit == Init => PlaceInv
<1> SUFFICES ASSUME Init PROVE PlaceInv
  OBVIOUS
<1>1. Filled(tab) = {} /\ IsBlank(tab[Other])
  BY RangeOfBlanks DEF Init, Filled
<1>2. Placed(tab) /\ AllHome(tab)
  BY <1>1 DEF Placed, OneEach, AllHome
<1>3. FewFilled(tab, in_use_c)
  <2>1. Cardinality(Filled(tab)) = 0
    BY <1>1, FS_EmptySet
  <2> QED BY <2>1, TableAssumption DEF Init, FewFilled
<1> QED BY <1>1, <1>2, <1>3, TableTypesInit DEF PlaceInv

THEOREM PlacesKept == Spec => []PlaceInv
BY PlaceInit, PlaceStep, PTL DEF Spec

(* However the hashes collide and whatever the report's sort did to the     *)
(* order, table_find finds each entry when the report is done, and entries  *)
(* stay blank: dmalloc_tab.c, table_find, _dmalloc_table_log_info.          *)
THEOREM EntriesFound == Spec => []ProbeIntact
<1>1. PlaceInv => ProbeIntact
  BY HomeIsFound DEF PlaceInv, ProbeIntact, NeverFull, FewFilled
<1> QED BY <1>1, PlacesKept, PTL

-----------------------------------------------------------------------------
(* What the entries say.                                                    *)

(* Every caller is known, and its line fits the field it is kept in.        *)
PlacesKnown == \A loc \in Locations : loc.file # NoFile /\ loc.line < LINE_RANGE

(* The sums an entry should show for a set of locations, of whatever was    *)
(* made (mk) and is held (pt).                                              *)
SizeMade(mk, locs) == SumFunctionOnSet([loc \in Locations |-> mk[loc].size], locs)
CountMade(mk, locs) == SumFunctionOnSet([loc \in Locations |-> mk[loc].c], locs)
HeldBy(pt, locs) == {p \in Pnts : pt[p] # NoPnt /\ pt[p].from \in locs}
SizeHeld(pt, locs) == SumFunctionOnSet([p \in Pnts |-> pt[p].size], HeldBy(pt, locs))
ShowsOf(e, locs, mk, pt) ==
  /\ e.total_size = SizeMade(mk, locs) /\ e.total_c = CountMade(mk, locs)
  /\ e.in_use_size = SizeHeld(pt, locs) /\ e.in_use_c = Cardinality(HeldBy(pt, locs))
Untouched(loc, mk, pt) ==
  /\ mk[loc].size = 0 /\ mk[loc].c = 0
  /\ \A p \in Pnts : pt[p] # NoPnt => pt[p].from # loc
History(mk, pt) == mk \in [Locations -> [size : Nat, c : Nat]] /\ pt \in [Pnts -> Pointers]

LEMMA StoredAsGiven ==
  ASSUME PlacesKnown, NEW loc \in Locations
  PROVE  Stored(loc) = loc /\ loc # Unknown /\ ~IsBlank([loc |-> loc])
<1>1. loc = [file |-> loc.file, line |-> loc.line] /\ loc.line \in Nat /\ LINE_RANGE \in Nat
  BY TableAssumption
<1>2. loc.line < LINE_RANGE /\ loc.file # NoFile
  BY DEF PlacesKnown
<1>3. loc.line % LINE_RANGE = loc.line
  BY <1>1, <1>2
<1>4. Stored(loc) = [file |-> loc.file, line |-> loc.line]
  <2>1. Stored(loc) = [loc EXCEPT !.line = loc.line]
    BY <1>3 DEF Stored
  <2> QED BY <1>1, <2>1
<1> QED BY <1>1, <1>2, <1>4 DEF Unknown, IsBlank

LEMMA HistoryNumbers ==
  ASSUME NEW mk, NEW pt, History(mk, pt)
  PROVE  /\ \A loc \in Locations : mk[loc].size \in Nat /\ mk[loc].c \in Nat
         /\ \A p \in Pnts : pt[p] # NoPnt => pt[p].size \in Nat /\ pt[p].from \in Locations
         /\ \A locs : IsFiniteSet(HeldBy(pt, locs)) /\ Cardinality(HeldBy(pt, locs)) \in Nat
<1>1. \A loc \in Locations : mk[loc].size \in Nat /\ mk[loc].c \in Nat
  BY DEF History
<1>2. \A p \in Pnts : pt[p] # NoPnt => pt[p].size \in Nat /\ pt[p].from \in Locations
  BY HashedPointer DEF History
<1>3. ASSUME NEW locs PROVE IsFiniteSet(HeldBy(pt, locs)) /\ Cardinality(HeldBy(pt, locs)) \in Nat
  BY TableAssumption, FS_Subset, FS_CardinalityType DEF HeldBy
<1> QED BY <1>1, <1>2, <1>3

LEMMA FiniteLocations ==
  ASSUME NEW locs \in SUBSET Locations
  PROVE  IsFiniteSet(locs)
BY TableAssumption, FS_Subset

(* A new allocation is shown by the entry of its location ... *)
Gave(mk, loc, size) == [mk EXCEPT ![loc] = [size |-> @.size + size, c |-> @.c + 1]]
Holds(pt, p, loc, size) == [pt EXCEPT ![p] = [loc |-> Stored(loc), from |-> loc, size |-> size]]

LEMMA HistoryGrows ==
  ASSUME NEW mk, NEW pt, History(mk, pt), NEW p \in Pnts, NEW loc \in Locations,
         NEW size \in Sizes
  PROVE  /\ History(Gave(mk, loc, size), Holds(pt, p, loc, size))
         /\ Gave(mk, loc, size)[loc].size = mk[loc].size + size
         /\ Gave(mk, loc, size)[loc].c = mk[loc].c + 1
         /\ \A l \in Locations \ {loc} : Gave(mk, loc, size)[l] = mk[l]
         /\ Holds(pt, p, loc, size)[p] = [loc |-> Stored(loc), from |-> loc, size |-> size]
         /\ Holds(pt, p, loc, size)[p] # NoPnt
         /\ \A q \in Pnts \ {p} : Holds(pt, p, loc, size)[q] = pt[q]
<1>1. size \in Nat
  BY TableAssumption
<1>2. [size |-> mk[loc].size + size, c |-> mk[loc].c + 1] \in [size : Nat, c : Nat]
  BY <1>1 DEF History
<1>3. [loc |-> Stored(loc), from |-> loc, size |-> size] \in Pointers
  BY DEF Pointers
<1>4. [loc |-> Stored(loc), from |-> loc, size |-> size] # NoPnt
  BY <1>1 DEF NoPnt
<1> QED BY <1>2, <1>3, <1>4 DEF History, Gave, Holds

LEMMA ShowsGained ==
  ASSUME NEW mk, NEW pt, History(mk, pt), NEW p \in Pnts, pt[p] = NoPnt,
         NEW loc \in Locations, NEW size \in Sizes, NEW locs \in SUBSET Locations, loc \in locs,
         NEW mk2, mk2 = Gave(mk, loc, size), NEW pt2, pt2 = Holds(pt, p, loc, size),
         NEW r, ShowsOf(r, locs, mk, pt), NEW e
  PROVE  ShowsOf(With(r, e, loc, size), locs, mk2, pt2)
<1> DEFINE fs == [l \in Locations |-> mk[l].size]
           fc == [l \in Locations |-> mk[l].c]
           fp == [q \in Pnts |-> pt[q].size]
           gs == [l \in Locations |-> mk2[l].size]
           gc == [l \in Locations |-> mk2[l].c]
           gp == [q \in Pnts |-> pt2[q].size]
<1>0. /\ size \in Nat /\ IsFiniteSet(locs) /\ History(mk2, pt2)
      /\ mk2[loc].size = mk[loc].size + size /\ mk2[loc].c = mk[loc].c + 1
      /\ \A l \in Locations \ {loc} : mk2[l] = mk[l]
      /\ pt2[p].from = loc /\ pt2[p].size = size /\ pt2[p] # NoPnt
      /\ \A q \in Pnts \ {p} : pt2[q] = pt[q]
  <2>1. size \in Nat /\ IsFiniteSet(locs)
    BY TableAssumption, FiniteLocations
  <2>2. /\ History(mk2, pt2)
        /\ mk2[loc].size = mk[loc].size + size /\ mk2[loc].c = mk[loc].c + 1
        /\ \A l \in Locations \ {loc} : mk2[l] = mk[l]
        /\ pt2[p] = [loc |-> Stored(loc), from |-> loc, size |-> size]
        /\ pt2[p] # NoPnt
        /\ \A q \in Pnts \ {p} : pt2[q] = pt[q]
    BY HistoryGrows
  <2> QED BY <2>1, <2>2
<1>n. \A l \in locs : mk[l].size \in Nat /\ mk[l].c \in Nat /\ mk2[l].size \in Nat /\ mk2[l].c \in Nat
  BY <1>0, HistoryNumbers
<1>1. /\ \A l \in locs : fs[l] \in Int /\ gs[l] \in Int
      /\ \A l \in locs \ {loc} : gs[l] = fs[l]
      /\ gs[loc] - fs[loc] = size
  BY <1>0, <1>n
<1>c. /\ \A l \in locs : fc[l] \in Int /\ gc[l] \in Int
      /\ \A l \in locs \ {loc} : gc[l] = fc[l]
      /\ gc[loc] - fc[loc] = 1
  BY <1>0, <1>n
<1>f. IsFiniteSet(locs)
  BY <1>0
<1>2. SumFunctionOnSet(gs, locs) = SumFunctionOnSet(fs, locs) + size
  <2> HIDE DEF fs, gs
  <2>1. SumFunctionOnSet(gs, locs) = SumFunctionOnSet(fs, locs) + (gs[loc] - fs[loc])
    BY <1>f, <1>1, SumOfChanged
  <2> QED BY <1>1, <2>1
<1>3. SumFunctionOnSet(gc, locs) = SumFunctionOnSet(fc, locs) + 1
  <2> HIDE DEF fc, gc
  <2>1. SumFunctionOnSet(gc, locs) = SumFunctionOnSet(fc, locs) + (gc[loc] - fc[loc])
    BY <1>f, <1>c, SumOfChanged
  <2> QED BY <1>c, <2>1
<1>4. HeldBy(pt2, locs) = HeldBy(pt, locs) \cup {p} /\ p \notin HeldBy(pt, locs)
  BY <1>0 DEF HeldBy
<1>5. IsFiniteSet(HeldBy(pt, locs)) /\ Cardinality(HeldBy(pt2, locs)) = Cardinality(HeldBy(pt, locs)) + 1
  BY <1>4, HistoryNumbers, FS_AddElement
<1>6. SumFunctionOnSet(gp, HeldBy(pt2, locs)) = SumFunctionOnSet(fp, HeldBy(pt, locs)) + size
  <2>1. gp[p] = size /\ \A q \in HeldBy(pt, locs) : fp[q] \in Int /\ gp[q] = fp[q]
    BY <1>0, <1>4, HistoryNumbers DEF HeldBy
  <2> HIDE DEF fp, gp
  <2>2. size \in Int
    BY <1>0
  <2>3. SumFunctionOnSet(gp, HeldBy(pt, locs) \cup {p}) = SumFunctionOnSet(fp, HeldBy(pt, locs)) + gp[p]
    BY <1>4, <1>5, <2>1, <2>2, SumGains
  <2> QED BY <1>4, <2>1, <2>3
<1> QED BY <1>2, <1>3, <1>5, <1>6 DEF ShowsOf, With, SizeMade, CountMade, SizeHeld

(* ... and by no other. *)
LEMMA ShowsKept ==
  ASSUME NEW mk, NEW pt, History(mk, pt), NEW mk2, NEW pt2, NEW locs \in SUBSET Locations,
         \A l \in locs : mk2[l] = mk[l],
         HeldBy(pt2, locs) = HeldBy(pt, locs),
         \A p \in HeldBy(pt, locs) : pt2[p] = pt[p],
         NEW r, ShowsOf(r, locs, mk, pt)
  PROVE  ShowsOf(r, locs, mk2, pt2)
<1> DEFINE fs == [l \in Locations |-> mk[l].size]
           fc == [l \in Locations |-> mk[l].c]
           fp == [q \in Pnts |-> pt[q].size]
           gs == [l \in Locations |-> mk2[l].size]
           gc == [l \in Locations |-> mk2[l].c]
           gp == [q \in Pnts |-> pt2[q].size]
<1>1. IsFiniteSet(locs) /\ IsFiniteSet(HeldBy(pt, locs))
  BY FiniteLocations, HistoryNumbers
<1>2. \A l \in locs : fs[l] = gs[l] /\ fc[l] = gc[l]
  OBVIOUS
<1>3. \A q \in HeldBy(pt, locs) : fp[q] = gp[q]
  BY DEF HeldBy
<1>4. SumFunctionOnSet(fs, locs) = SumFunctionOnSet(gs, locs)
  <2> HIDE DEF fs, gs
  <2> QED BY <1>1, <1>2, SumOfSame
<1>5. SumFunctionOnSet(fc, locs) = SumFunctionOnSet(gc, locs)
  <2> HIDE DEF fc, gc
  <2> QED BY <1>1, <1>2, SumOfSame
<1>6. SumFunctionOnSet(fp, HeldBy(pt, locs)) = SumFunctionOnSet(gp, HeldBy(pt, locs))
  <2> HIDE DEF fp, gp
  <2> QED BY <1>1, <1>3, SumOfSame
<1> QED BY <1>4, <1>5, <1>6 DEF ShowsOf, SizeMade, CountMade, SizeHeld

(* What is freed is taken off the entry of its location. *)
LEMMA ShowsLost ==
  ASSUME NEW mk, NEW pt, History(mk, pt), NEW p \in Pnts, pt[p] # NoPnt,
         NEW locs \in SUBSET Locations, pt[p].from \in locs,
         NEW pt2, pt2 = [pt EXCEPT ![p] = NoPnt],
         NEW r \in Entries, ShowsOf(r, locs, mk, pt)
  PROVE  Enough(r, pt[p].size) /\ ShowsOf(Without(r, pt[p].size), locs, mk, pt2)
<1> DEFINE fp == [q \in Pnts |-> pt[q].size]
           gp == [q \in Pnts |-> pt2[q].size]
           held == HeldBy(pt, locs)
           size == pt[p].size
<1>1. /\ pt2[p] = NoPnt /\ \A q \in Pnts \ {p} : pt2[q] = pt[q]
  BY DEF History
<1>2. HeldBy(pt2, locs) = held \ {p} /\ p \in held
  BY <1>1 DEF HeldBy
<1>3. /\ IsFiniteSet(held) /\ fp[p] = size
      /\ \A q \in held : fp[q] \in Nat
      /\ \A q \in held \ {p} : gp[q] = fp[q]
  <2>1. IsFiniteSet(held)
    BY HistoryNumbers
  <2>2. \A q \in held : q \in Pnts /\ pt[q].size \in Nat
    BY HistoryNumbers DEF HeldBy
  <2>3. \A q \in held \ {p} : gp[q] = fp[q]
    BY <1>1, <2>2
  <2> QED BY <2>1, <2>2, <2>3
<1>4. Cardinality(HeldBy(pt2, locs)) = Cardinality(held) - 1 /\ Cardinality(held) > 0
  <2>1. Cardinality(held \ {p}) = Cardinality(held) - 1
    BY <1>2, <1>3, FS_RemoveElement
  <2>2. Cardinality(held) \in Nat /\ Cardinality(held) # 0
    BY <1>2, <1>3, FS_EmptySet, FS_CardinalityType
  <2>3. Cardinality(held) > 0
    BY <2>2
  <2> QED BY <1>2, <2>1, <2>3
<1>5. /\ SumFunctionOnSet(gp, held \ {p}) = SumFunctionOnSet(fp, held) - fp[p]
      /\ SumFunctionOnSet(fp, held) \in Nat /\ fp[p] <= SumFunctionOnSet(fp, held)
  <2> HIDE DEF fp, gp, held
  <2>1. \A q \in held : fp[q] \in Int
    BY <1>3
  <2>2. SumFunctionOnSet(gp, held \ {p}) = SumFunctionOnSet(fp, held) - fp[p]
    BY <1>2, <1>3, <2>1, SumLoses
  <2>3. SumFunctionOnSet(fp, held) \in Nat /\ fp[p] <= SumFunctionOnSet(fp, held)
    BY <1>2, <1>3, SumIsNat
  <2> QED BY <2>2, <2>3
<1>6. r.in_use_size = SumFunctionOnSet(fp, held) /\ r.in_use_c = Cardinality(held)
  BY DEF ShowsOf, SizeHeld
<1>7. Enough(r, size)
  <2>1. size \in Nat
    BY HistoryNumbers
  <2> QED BY <1>3, <1>4, <1>5, <1>6, <2>1 DEF Enough
<1>8. SizeHeld(pt2, locs) = SumFunctionOnSet(fp, held) - size
  BY <1>2, <1>3, <1>5 DEF SizeHeld
<1>9. ShowsOf(Without(r, size), locs, mk, pt2)
  BY <1>4, <1>6, <1>8, WithoutFields DEF ShowsOf
<1> QED BY <1>7, <1>9

(* A location of which nothing was made changes nothing. *)
LEMMA ShowsUntouched ==
  ASSUME NEW mk, NEW pt, History(mk, pt), NEW loc \in Locations, Untouched(loc, mk, pt),
         NEW locs \in SUBSET Locations, loc \notin locs, NEW r
  PROVE  ShowsOf(r, locs \cup {loc}, mk, pt) <=> ShowsOf(r, locs, mk, pt)
<1> DEFINE fs == [l \in Locations |-> mk[l].size]
           fc == [l \in Locations |-> mk[l].c]
<1>1. /\ IsFiniteSet(locs) /\ fs[loc] = 0 /\ fc[loc] = 0
      /\ \A l \in locs : fs[l] \in Int /\ fc[l] \in Int
  BY HistoryNumbers, FiniteLocations DEF Untouched
<1>2. HeldBy(pt, locs \cup {loc}) = HeldBy(pt, locs)
  BY DEF HeldBy, Untouched
<1>3. SumFunctionOnSet(fs, locs \cup {loc}) = SumFunctionOnSet(fs, locs)
  <2> HIDE DEF fs, fc
  <2>1. SumFunctionOnSet(fs, locs \cup {loc}) = SumFunctionOnSet(fs, locs) + fs[loc]
    BY <1>1, SumWith
  <2>2. SumFunctionOnSet(fs, locs) \in Int
    BY <1>1, SumIsInt
  <2> QED BY <1>1, <2>1, <2>2
<1>4. SumFunctionOnSet(fc, locs \cup {loc}) = SumFunctionOnSet(fc, locs)
  <2> HIDE DEF fs, fc
  <2>1. SumFunctionOnSet(fc, locs \cup {loc}) = SumFunctionOnSet(fc, locs) + fc[loc]
    BY <1>1, SumWith
  <2>2. SumFunctionOnSet(fc, locs) \in Int
    BY <1>1, SumIsInt
  <2> QED BY <1>1, <2>1, <2>2
<1> QED BY <1>2, <1>3, <1>4 DEF ShowsOf, SizeMade, CountMade, SizeHeld

(* The locations an entry of the table speaks for. *)
Located(entries) == {entries[k].loc : k \in Filled(entries)}
OwnedBy(entries, k) ==
  IF k = Other THEN Locations \ Located(entries)
  ELSE IF IsBlank(entries[k]) THEN {} ELSE {entries[k].loc}
AllShow(entries, mk, pt) ==
  \A k \in Slots \cup {Other} : ShowsOf(entries[k], OwnedBy(entries, k), mk, pt)
(* Nothing was made at a place without an entry, as long as there was room. *)
UnmadeUnlessFull(entries, n, mk, pt) ==
  \A loc \in OwnedBy(entries, Other) : n > MEMORY_TABLE_SIZE \/ Untouched(loc, mk, pt)

LEMMA OwnersApart ==
  ASSUME NEW entries \in [Slots \cup {Other} -> Entries], Placed(entries)
  PROVE  /\ \A k \in Slots \cup {Other} : OwnedBy(entries, k) \in SUBSET Locations
         /\ \A k, m \in Slots \cup {Other}, loc \in Locations :
              loc \in OwnedBy(entries, k) /\ loc \in OwnedBy(entries, m) => k = m
         /\ Located(entries) \in SUBSET Locations
<1>1. \A k \in Slots : ~IsBlank(entries[k]) => entries[k].loc \in Locations
  BY DEF Entries, IsBlank, Unknown
<1>2. Located(entries) \in SUBSET Locations
  BY <1>1 DEF Located, Filled
<1>3. \A k \in Slots \cup {Other} : OwnedBy(entries, k) \in SUBSET Locations
  BY <1>1, TableSize DEF OwnedBy
<1>4. ASSUME NEW k \in Slots \cup {Other}, NEW m \in Slots \cup {Other}, NEW loc \in Locations,
             loc \in OwnedBy(entries, k), loc \in OwnedBy(entries, m)
      PROVE  k = m
  <2>1. \A j \in Slots \cup {Other} : j # Other /\ loc \in OwnedBy(entries, j) =>
          j \in Filled(entries) /\ entries[j].loc = loc /\ loc \in Located(entries)
    BY DEF OwnedBy, Filled, Located
  <2>2. loc \in OwnedBy(entries, Other) => loc \notin Located(entries)
    BY DEF OwnedBy
  <2>3. CASE k = Other \/ m = Other
    BY <1>4, <2>1, <2>2, <2>3
  <2>4. CASE k # Other /\ m # Other
    BY <1>4, <2>1, <2>4 DEF Placed, OneEach
  <2> QED BY <2>3, <2>4
<1> QED BY <1>2, <1>3, <1>4

(* The entry table_find comes to owns the location, unless it is a blank    *)
(* one.                                                                     *)
LEMMA FoundOwns ==
  ASSUME NEW s, IsTable(s), Placed(s.tab), AllHome(s.tab), NEW loc \in Locations
  PROVE  LET found == Find(s.tab, loc)
         IN /\ found \in Slots \cup {Other}
            /\ ~IsBlank(s.tab[found]) => found # Other /\ s.tab[found].loc = loc
                                         /\ loc \in OwnedBy(s.tab, found)
            /\ IsBlank(s.tab[found]) => loc \in OwnedBy(s.tab, Other)
<1> DEFINE found == Find(s.tab, loc)
<1>0. Hash[loc] \in Nat
  BY TableAssumption
<1>1. found \in Slots \cup {Other}
  BY <1>0, FindInTable
<1>2. ASSUME ~IsBlank(s.tab[found])
      PROVE  found # Other /\ s.tab[found].loc = loc /\ loc \in OwnedBy(s.tab, found)
  <2>1. found # Other
    BY <1>2 DEF Placed
  <2>2. s.tab[found].loc = loc
    BY <1>0, <1>2, <2>1, FindFinds DEF Passes
  <2> QED BY <1>2, <2>1, <2>2 DEF OwnedBy
<1>3. ASSUME IsBlank(s.tab[found]) PROVE loc \in OwnedBy(s.tab, Other)
  <2>1. ASSUME NEW k \in Filled(s.tab), s.tab[k].loc = loc PROVE FALSE
    <3>1. found = k
      BY <2>1, HomeIsFound
    <3> QED BY <1>3, <3>1 DEF Filled
  <2> QED BY <2>1 DEF OwnedBy, Located
<1> QED BY <1>1, <1>2, <1>3

(* An unlocated place with room left is an unmade one; a probe without a    *)
(* blank entry on it goes through the whole table.                          *)
LEMMA ModApart ==
  ASSUME NEW h \in Nat, NEW n \in Nat, n > 0, NEW i \in 0 .. n - 1, NEW j \in 0 .. n - 1,
         (h + i) % n = (h + j) % n
  PROVE  i = j
<1> DEFINE a == (h + i) \div n
           b == (h + j) \div n
           r == (h + i) % n
<1>1. /\ h + i = n * a + r /\ h + j = n * b + r
      /\ a \in Int /\ b \in Int /\ r \in Int
  <2>1. \A x \in Int : x = n * (x \div n) + (x % n) /\ x \div n \in Int /\ x % n \in Int
    OBVIOUS
  <2>2. h + i \in Int /\ h + j \in Int
    OBVIOUS
  <2> QED BY <2>1, <2>2
<1> HIDE DEF a, b, r
<1>2. ASSUME NEW x \in Int, NEW y \in Int, x > y PROVE n * x >= n * y + n
  <2>1. n * x = n * (x - y - 1) + n * y + n
    OBVIOUS
  <2>2. n * (x - y - 1) >= 0
    <3>1. PICK d \in Nat : d = x - y - 1
      BY <1>2
    <3>2. n * d >= 0
      OBVIOUS
    <3> QED BY <3>1, <3>2
  <2>3. n * x \in Int /\ n * y \in Int /\ n * (x - y - 1) \in Int
    OBVIOUS
  <2> QED BY <2>1, <2>2, <2>3
<1>3. n * a \in Int /\ n * b \in Int
  BY <1>1
<1>4. ~(a > b) /\ ~(b > a)
  BY <1>1, <1>2, <1>3
<1>5. a = b
  BY <1>1, <1>4
<1> QED BY <1>1, <1>3, <1>5

LEMMA ProbedWhole ==
  ASSUME NEW entries, NEW loc, Hash[loc] \in Nat,
         \A k \in Slots : ~IsBlank(entries[Probe(loc, k)])
  PROVE  Cardinality(Filled(entries)) >= N
<1> DEFINE f == [k \in Slots |-> Probe(loc, k)]
<1>1. \A k \in Slots : f[k] \in Filled(entries)
  BY ProbeInTable DEF Filled
<1>2. ASSUME NEW i \in Slots, NEW j \in Slots, f[i] = f[j] PROVE i = j
  <2>1. i \in 0 .. N - 1 /\ j \in 0 .. N - 1 /\ N \in Nat /\ N > 0
    BY TableSize DEF Slots
  <2>2. (Hash[loc] + i) % N = (Hash[loc] + j) % N
    BY <1>2 DEF Probe
  <2>3. PICK n \in Nat : n = N /\ n > 0 /\ i \in 0 .. n - 1 /\ j \in 0 .. n - 1
                         /\ (Hash[loc] + i) % n = (Hash[loc] + j) % n
    BY <2>1, <2>2
  <2> QED BY <2>3, ModApart
<1>3. f \in Injection(Slots, Filled(entries))
  BY <1>1, <1>2 DEF Injection, IsInjective
<1> HIDE DEF f
<1>4. Cardinality(Slots) <= Cardinality(Filled(entries)) /\ Cardinality(Slots) = N
  BY <1>3, FilledFinite, FS_Injection
<1> QED BY <1>4, FilledFinite, TableSize

(* What the entries show after a delete ... *)
LEMMA DeleteShows ==
  ASSUME PlacesKnown, NEW s, IsTable(s), Placed(s.tab), AllHome(s.tab),
         NEW mk, NEW pt, History(mk, pt), AllShow(s.tab, mk, pt),
         UnmadeUnlessFull(s.tab, s.in_use_c, mk, pt),
         NEW p \in Pnts, pt[p] # NoPnt, NEW pt2, pt2 = [pt EXCEPT ![p] = NoPnt],
         NEW t, t = Delete(s, pt[p].loc, pt[p].size)
  PROVE  AllShow(t.tab, mk, pt2) /\ UnmadeUnlessFull(t.tab, t.in_use_c, mk, pt2) /\ History(mk, pt2)
<1> DEFINE loc == pt[p].from
           e == DeletesAt(s, pt[p].loc)
<1>1. /\ pt[p] \in Pointers /\ loc \in Locations /\ pt[p].loc = loc /\ pt[p].size \in Nat
  <2>1. pt[p] \in Pointers
    BY DEF History
  <2> QED BY <2>1, HashedPointer, StoredAsGiven
<1>2. Deleted(s, t, e, pt[p].size)
  BY <1>1, DeleteWrites
<1>3. e \in Slots \cup {Other} /\ loc \in OwnedBy(s.tab, e)
  BY <1>1, FoundOwns DEF DeletesAt
<1> HIDE DEF e
<1>4. /\ \A k \in Slots \cup {Other} : OwnedBy(s.tab, k) \in SUBSET Locations
      /\ \A k \in Slots \cup {Other} : loc \in OwnedBy(s.tab, k) => k = e
  BY <1>1, <1>3, OwnersApart DEF IsTable
<1>5. s.tab[e] \in Entries
  BY <1>3 DEF IsTable
<1>6. ShowsOf(t.tab[e], OwnedBy(s.tab, e), mk, pt2)
  <2>1. ShowsOf(s.tab[e], OwnedBy(s.tab, e), mk, pt)
    BY <1>3 DEF AllShow
  <2>2. PICK locs \in SUBSET Locations : locs = OwnedBy(s.tab, e)
    BY <1>3, <1>4
  <2>3. Enough(s.tab[e], pt[p].size) /\ ShowsOf(Without(s.tab[e], pt[p].size), locs, mk, pt2)
    BY <1>3, <1>5, <2>1, <2>2, ShowsLost
  <2> QED BY <1>2, <2>2, <2>3 DEF Deleted
<1>7. pt2[p] = NoPnt /\ \A q \in Pnts \ {p} : pt2[q] = pt[q]
  BY DEF History
<1>8. ASSUME NEW k \in Slots \cup {Other}, k # e
      PROVE  ShowsOf(t.tab[k], OwnedBy(s.tab, k), mk, pt2)
  <2>1. PICK locs \in SUBSET Locations : locs = OwnedBy(s.tab, k)
    BY <1>4
  <2>2. loc \notin locs /\ ShowsOf(s.tab[k], locs, mk, pt) /\ t.tab[k] = s.tab[k]
    BY <1>2, <1>4, <1>8, <2>1 DEF AllShow, Deleted
  <2>3. HeldBy(pt2, locs) = HeldBy(pt, locs) /\ \A q \in HeldBy(pt, locs) : pt2[q] = pt[q]
    BY <1>7, <2>2 DEF HeldBy
  <2>4. ShowsOf(s.tab[k], locs, mk, pt2)
    <3>1. PICK mk2 : mk2 = mk
      OBVIOUS
    <3>2. \A l \in locs : mk2[l] = mk[l]
      BY <3>1
    <3>3. ShowsOf(s.tab[k], locs, mk2, pt2)
      <4>1. PICK r : r = s.tab[k]
        OBVIOUS
      <4>2. ShowsOf(r, locs, mk, pt)
        BY <2>2, <4>1
      <4>3. ShowsOf(r, locs, mk2, pt2)
        BY <2>3, <3>2, <4>2, ShowsKept
      <4> QED BY <4>1, <4>3
    <3> QED BY <3>1, <3>3
  <2> QED BY <2>1, <2>2, <2>4
<1>9. \A k \in Slots \cup {Other} : t.tab[k].loc = s.tab[k].loc
  BY <1>2, <1>5, WithoutFields DEF Deleted
<1>10. \A k \in Slots \cup {Other} : OwnedBy(t.tab, k) = OwnedBy(s.tab, k)
  <2>1. Filled(t.tab) = Filled(s.tab)
    BY <1>9 DEF Filled, IsBlank
  <2>2. Located(t.tab) = Located(s.tab)
    BY <1>9, <2>1 DEF Located, Filled
  <2> QED BY <1>9, <2>2 DEF OwnedBy, IsBlank
<1>11. AllShow(t.tab, mk, pt2)
  BY <1>6, <1>8, <1>10 DEF AllShow
<1>12. UnmadeUnlessFull(t.tab, t.in_use_c, mk, pt2)
  BY <1>2, <1>7, <1>10 DEF UnmadeUnlessFull, Untouched, Deleted
<1>13. History(mk, pt2)
  BY DEF History, Pointers
<1> QED BY <1>11, <1>12, <1>13

(* ... and after an insert: the entry shows one location more, or the one   *)
(* it had, or is the first of its location, of which nothing was made.      *)
LEMMA InsertShows ==
  ASSUME PlacesKnown, NEW s, IsTable(s), Placed(s.tab), AllHome(s.tab),
         FewFilled(s.tab, s.in_use_c),
         NEW mk, NEW pt, History(mk, pt), AllShow(s.tab, mk, pt),
         UnmadeUnlessFull(s.tab, s.in_use_c, mk, pt),
         NEW p \in Pnts, pt[p] = NoPnt, NEW loc \in Locations, NEW size \in Sizes,
         NEW mk2, mk2 = Gave(mk, loc, size), NEW pt2, pt2 = Holds(pt, p, loc, size),
         NEW t, t = Insert(s, loc, size)
  PROVE  AllShow(t.tab, mk2, pt2) /\ UnmadeUnlessFull(t.tab, t.in_use_c, mk2, pt2)
<1>1. /\ size \in Nat /\ Hash[loc] \in Nat /\ s.in_use_c \in Nat /\ N \div 2 = MEMORY_TABLE_SIZE
      /\ MEMORY_TABLE_SIZE \in Nat /\ MEMORY_TABLE_SIZE > 0
  BY TableAssumption, TableSize DEF IsTable
<1>2. PICK e : e = InsertsAt(s, loc) /\ Inserted(s, t, e, loc, size) /\ IsTable(t)
  BY <1>1, InsertWrites
<1>3. /\ e \in Slots \cup {Other} /\ s.tab[e] \in Entries
      /\ t.in_use_c = (IF e = Other THEN s.in_use_c ELSE s.in_use_c + 1)
      /\ \A k \in Slots \cup {Other} : k # e => t.tab[k] = s.tab[k]
      /\ t.tab[e] = With(s.tab[e], e, loc, size)
      /\ t.tab[e].loc = (IF e = Other THEN Unknown ELSE loc)
      /\ t.in_use_c \in Nat /\ s.in_use_c <= t.in_use_c
  <2>1. t.tab[e].loc = (IF e = Other THEN Unknown ELSE loc)
    BY <1>2 DEF Inserted, With
  <2>2. t.in_use_c = (IF e = Other THEN s.in_use_c ELSE s.in_use_c + 1)
    BY <1>2 DEF Inserted
  <2>3. t.in_use_c \in Nat /\ s.in_use_c <= t.in_use_c
    BY <1>1, <2>2
  <2> QED BY <1>2, <2>1, <2>2, <2>3 DEF Inserted, IsTable
<1>k. /\ loc.file # NoFile /\ IsBlank(s.tab[Other])
      /\ Unknown.file = NoFile
  BY DEF PlacesKnown, Placed, Unknown
<1>o. /\ \A k \in Slots \cup {Other} : OwnedBy(s.tab, k) \in SUBSET Locations
      /\ \A k, m \in Slots \cup {Other}, l \in Locations :
           l \in OwnedBy(s.tab, k) /\ l \in OwnedBy(s.tab, m) => k = m
  BY OwnersApart DEF IsTable
<1>h. /\ pt2[p].from = loc /\ pt2[p] # NoPnt /\ \A q \in Pnts \ {p} : pt2[q] = pt[q]
      /\ \A l \in Locations \ {loc} : mk2[l] = mk[l]
  <2>1. /\ pt2[p] = [loc |-> Stored(loc), from |-> loc, size |-> size] /\ pt2[p] # NoPnt
        /\ \A q \in Pnts \ {p} : pt2[q] = pt[q]
        /\ \A l \in Locations \ {loc} : mk2[l] = mk[l]
    BY HistoryGrows
  <2> QED BY <2>1
(* Entries that do not own the location. *)
<1>s. ASSUME NEW r, NEW locs \in SUBSET Locations, loc \notin locs, ShowsOf(r, locs, mk, pt)
      PROVE  ShowsOf(r, locs, mk2, pt2)
  <2>1. \A l \in locs : mk2[l] = mk[l]
    BY <1>h, <1>s
  <2>2. HeldBy(pt2, locs) = HeldBy(pt, locs) /\ \A q \in HeldBy(pt, locs) : pt2[q] = pt[q]
    BY <1>h, <1>s DEF HeldBy
  <2> QED BY <1>s, <2>1, <2>2, ShowsKept
(* The entry that does. *)
<1>g. ASSUME NEW locs \in SUBSET Locations, loc \in locs, ShowsOf(s.tab[e], locs, mk, pt)
      PROVE  ShowsOf(t.tab[e], locs, mk2, pt2)
  <2>1. PICK r : r = s.tab[e]
    OBVIOUS
  <2>2. ShowsOf(With(r, e, loc, size), locs, mk2, pt2)
    BY <1>g, <2>1, ShowsGained
  <2> QED BY <1>3, <2>1, <2>2
(* Who owns what is as before, or one location has moved. *)
<1>4. ASSUME \A k \in Slots \cup {Other} : OwnedBy(t.tab, k) = OwnedBy(s.tab, k),
             loc \in OwnedBy(s.tab, e),
             e = Other => s.in_use_c > MEMORY_TABLE_SIZE
      PROVE  AllShow(t.tab, mk2, pt2) /\ UnmadeUnlessFull(t.tab, t.in_use_c, mk2, pt2)
  <2>1. ASSUME NEW k \in Slots \cup {Other} PROVE ShowsOf(t.tab[k], OwnedBy(t.tab, k), mk2, pt2)
    <3>1. PICK locs \in SUBSET Locations : locs = OwnedBy(s.tab, k)
      BY <1>o
    <3>2. ShowsOf(s.tab[k], locs, mk, pt) /\ OwnedBy(t.tab, k) = locs
      BY <1>4, <3>1 DEF AllShow
    <3>3. CASE k = e
      BY <1>4, <1>g, <3>1, <3>2, <3>3
    <3>4. CASE k # e
      <4>1. loc \notin locs
        BY <1>3, <1>4, <1>o, <3>1, <3>4
      <4>2. PICK r : r = s.tab[k]
        OBVIOUS
      <4>3. ShowsOf(r, locs, mk2, pt2)
        BY <1>s, <3>2, <4>1, <4>2
      <4> QED BY <1>3, <3>2, <3>4, <4>2, <4>3
    <3> QED BY <3>3, <3>4
  <2>2. ASSUME NEW l \in OwnedBy(t.tab, Other)
        PROVE  t.in_use_c > MEMORY_TABLE_SIZE \/ Untouched(l, mk2, pt2)
    <3>1. l \in OwnedBy(s.tab, Other) /\ l \in Locations
      BY <1>4, <2>2 DEF OwnedBy
    <3>2. CASE s.in_use_c > MEMORY_TABLE_SIZE
      BY <1>1, <1>3, <3>2
    <3>3. CASE ~(s.in_use_c > MEMORY_TABLE_SIZE)
      <4>1. Untouched(l, mk, pt)
        BY <3>1, <3>3 DEF UnmadeUnlessFull
      <4>2. l # loc
        BY <1>3, <1>4, <1>o, <3>1, <3>3
      <4> QED BY <1>h, <3>1, <4>1, <4>2 DEF Untouched
    <3> QED BY <3>2, <3>3
  <2> QED BY <2>1, <2>2 DEF AllShow, UnmadeUnlessFull
<1>5. CASE e = Other
  <2>1. \A k \in Slots \cup {Other} : t.tab[k].loc.file = s.tab[k].loc.file /\ (k # Other => t.tab[k] = s.tab[k])
    BY <1>3, <1>5, <1>k DEF IsBlank
  <2>2. Filled(t.tab) = Filled(s.tab) /\ Located(t.tab) = Located(s.tab)
    <3>1. Filled(t.tab) = Filled(s.tab)
      BY <2>1 DEF Filled, IsBlank
    <3> QED BY <2>1, <3>1, TableSize DEF Located, Filled
  <2>3. \A k \in Slots \cup {Other} : OwnedBy(t.tab, k) = OwnedBy(s.tab, k)
    BY <2>1, <2>2 DEF OwnedBy
  <2>4. loc \in OwnedBy(s.tab, Other)
    BY <1>2, <1>5, FoundOwns DEF InsertsAt
  <2>5. s.in_use_c > MEMORY_TABLE_SIZE
    <3>1. CASE IsBlank(s.tab[Find(s.tab, loc)]) /\ s.in_use_c > N \div 2
      BY <1>1, <3>1
    <3>2. CASE Find(s.tab, loc) = Other
      <4>1. \A k \in Slots : ~IsBlank(s.tab[Probe(loc, k)])
        BY <1>1, <3>2, FindFinds, TableSize DEF Passes
      <4>2. Cardinality(Filled(s.tab)) >= N
        BY <1>1, <4>1, ProbedWhole
      <4>3. Cardinality(Filled(s.tab)) <= s.in_use_c
        BY DEF FewFilled
      <4>4. N = 2 * MEMORY_TABLE_SIZE
        BY DEF N
      <4> QED BY <1>1, <4>2, <4>3, <4>4, FilledFinite
    <3> QED BY <1>2, <1>5, <3>1, <3>2 DEF InsertsAt
  <2> QED BY <1>4, <1>5, <2>3, <2>4, <2>5
<1>6. CASE e # Other /\ ~IsBlank(s.tab[e])
  <2>1. e = Find(s.tab, loc)
    BY <1>2, <1>6 DEF InsertsAt
  <2>2. s.tab[e].loc = loc /\ loc \in OwnedBy(s.tab, e)
    BY <1>6, <2>1, FoundOwns
  <2>3. \A k \in Slots \cup {Other} : t.tab[k].loc = s.tab[k].loc
    BY <1>3, <1>6, <2>2
  <2>4. Filled(t.tab) = Filled(s.tab)
    BY <2>3 DEF Filled, IsBlank
  <2>5. Located(t.tab) = Located(s.tab)
    BY <2>3, <2>4 DEF Located, Filled
  <2>6. \A k \in Slots \cup {Other} : OwnedBy(t.tab, k) = OwnedBy(s.tab, k)
    BY <2>3, <2>5 DEF OwnedBy, IsBlank
  <2> QED BY <1>4, <1>6, <2>2, <2>6
<1>7. CASE e # Other /\ IsBlank(s.tab[e])
  <2>1. e = Find(s.tab, loc) /\ ~(s.in_use_c > MEMORY_TABLE_SIZE) /\ loc \in OwnedBy(s.tab, Other)
    BY <1>1, <1>2, <1>7, FoundOwns DEF InsertsAt
  <2>2. Untouched(loc, mk, pt)
    BY <2>1 DEF UnmadeUnlessFull
  <2>3. Filled(t.tab) = Filled(s.tab) \cup {e} /\ e \notin Filled(s.tab)
    BY <1>3, <1>7, <1>k DEF Filled, IsBlank
  <2>4. Located(t.tab) = Located(s.tab) \cup {loc}
    <3>1. \A k \in Filled(s.tab) : t.tab[k] = s.tab[k]
      BY <1>3, <1>7 DEF Filled
    <3> QED BY <1>3, <1>7, <2>3, <3>1 DEF Located
  <2>5. OwnedBy(t.tab, Other) = OwnedBy(s.tab, Other) \ {loc}
    BY <2>4 DEF OwnedBy
  <2>6. OwnedBy(t.tab, e) = {loc} /\ OwnedBy(s.tab, e) = {}
    BY <1>3, <1>7, <1>k DEF OwnedBy, IsBlank
  <2>7. ASSUME NEW k \in Slots, k # e
        PROVE  OwnedBy(t.tab, k) = OwnedBy(s.tab, k) /\ loc \notin OwnedBy(s.tab, k)
    <3>1. OwnedBy(t.tab, k) = OwnedBy(s.tab, k)
      BY <1>3, <2>7, TableSize DEF OwnedBy
    <3> QED BY <1>o, <2>1, <2>7, <3>1, TableSize
  <2>8. ASSUME NEW k \in Slots \cup {Other} PROVE ShowsOf(t.tab[k], OwnedBy(t.tab, k), mk2, pt2)
    <3>1. PICK locs \in SUBSET Locations : locs = OwnedBy(s.tab, k)
      BY <1>o
    <3>2. PICK r : r = s.tab[k]
      OBVIOUS
    <3>3. ShowsOf(r, locs, mk, pt)
      BY <3>1, <3>2 DEF AllShow
    <3>4. CASE k = e
      <4>1. locs = {} /\ loc \notin locs /\ {loc} = locs \cup {loc}
        BY <2>6, <3>1, <3>4
      <4>2. ShowsOf(r, {loc}, mk, pt)
        BY <2>2, <3>3, <4>1, ShowsUntouched
      <4> QED BY <1>g, <2>6, <3>2, <3>4, <4>2
    <3>5. CASE k = Other
      <4>1. PICK rest \in SUBSET Locations : rest = locs \ {loc}
        OBVIOUS
      <4>2. locs = rest \cup {loc} /\ loc \notin rest
        BY <2>1, <3>1, <3>5, <4>1
      <4>3. ShowsOf(r, rest, mk, pt)
        BY <2>2, <3>3, <4>2, ShowsUntouched
      <4>4. ShowsOf(r, rest, mk2, pt2)
        BY <1>s, <4>2, <4>3
      <4> QED BY <1>3, <1>7, <2>5, <3>1, <3>2, <3>5, <4>1, <4>4
    <3>6. CASE k # e /\ k # Other
      <4>1. loc \notin locs /\ OwnedBy(t.tab, k) = locs
        BY <2>7, <3>1, <3>6
      <4>2. ShowsOf(r, locs, mk2, pt2)
        BY <1>s, <3>3, <4>1
      <4> QED BY <1>3, <3>2, <3>6, <4>1, <4>2
    <3> QED BY <3>4, <3>5, <3>6
  <2>9. ASSUME NEW l \in OwnedBy(t.tab, Other) PROVE Untouched(l, mk2, pt2)
    <3>1. l \in OwnedBy(s.tab, Other) /\ l # loc /\ l \in Locations
      BY <2>5, <2>9 DEF OwnedBy
    <3>2. Untouched(l, mk, pt)
      BY <2>1, <3>1 DEF UnmadeUnlessFull
    <3> QED BY <1>h, <3>1, <3>2 DEF Untouched
  <2> QED BY <2>8, <2>9 DEF AllShow, UnmadeUnlessFull
<1> QED BY <1>5, <1>6, <1>7

(* The order of the entries is nothing to what they show. *)
LEMMA ReorderedShows ==
  ASSUME NEW old, NEW new, NEW f, Reordered(old, new, f), Placed(old),
         NEW n, NEW mk, NEW pt, AllShow(old, mk, pt), UnmadeUnlessFull(old, n, mk, pt)
  PROVE  AllShow(new, mk, pt) /\ UnmadeUnlessFull(new, n, mk, pt)
<1>1. \A k \in Slots : f[k] \in Slots /\ f[k] # Other /\ k # Other /\ new[k] = old[f[k]]
  BY TableSize DEF Reordered
<1>2. \A m \in Filled(old) : \E k \in Filled(new) : f[k] = m
  BY ReorderedPlaces
<1>3. Located(new) = Located(old)
  <2>1. \A k \in Filled(new) : f[k] \in Filled(old) /\ new[k].loc = old[f[k]].loc
    BY <1>1 DEF Filled
  <2>2. \A m \in Filled(old) : \E k \in Filled(new) : new[k].loc = old[m].loc
    BY <1>2, <2>1
  <2> QED BY <2>1, <2>2 DEF Located
<1>4. OwnedBy(new, Other) = OwnedBy(old, Other) /\ new[Other] = old[Other]
  BY <1>3 DEF OwnedBy, Reordered
<1>5. \A k \in Slots : OwnedBy(new, k) = OwnedBy(old, f[k])
  BY <1>1 DEF OwnedBy
<1>6. AllShow(new, mk, pt)
  <2>1. \A k \in Slots : ShowsOf(new[k], OwnedBy(new, k), mk, pt)
    BY <1>1, <1>5 DEF AllShow
  <2>2. ShowsOf(new[Other], OwnedBy(new, Other), mk, pt)
    BY <1>4 DEF AllShow
  <2> QED BY <2>1, <2>2 DEF AllShow
<1> QED BY <1>4, <1>6 DEF UnmadeUnlessFull

(* A sum over the entries is one over the locations, when the other         *)
(* pointers are counted or have nothing to count.                           *)
SumsOwned(v, g, entries) ==
  \A k \in Slots \cup {Other} : v[k] = SumFunctionOnSet(g, OwnedBy(entries, k))
Dispensable(others, g, entries) ==
  others = {} => \A loc \in OwnedBy(entries, Other) : g[loc] = 0

LEMMA SumOverEntries ==
  ASSUME NEW entries \in [Slots \cup {Other} -> Entries], Placed(entries),
         NEW g, \A loc \in Locations : g[loc] \in Int,
         NEW v, SumsOwned(v, g, entries),
         NEW others \in SUBSET {Other}, Dispensable(others, g, entries)
  PROVE  SumFunctionOnSet(v, Filled(entries) \cup others) = SumFunctionOnSet(g, Locations)
<1> DEFINE h == [k \in Filled(entries) |-> entries[k].loc]
           F == Filled(entries)
           L == Located(entries)
           O == OwnedBy(entries, Other)
<1>1. /\ L \in SUBSET Locations /\ O \in SUBSET Locations /\ L \cup O = Locations /\ L \cap O = {}
      /\ IsFiniteSet(F) /\ IsFiniteSet(L) /\ IsFiniteSet(O) /\ Other \notin F
  <2>1. L \in SUBSET Locations
    BY OwnersApart
  <2>2. O = Locations \ L
    BY DEF OwnedBy
  <2>3. IsFiniteSet(F) /\ Other \notin F
    BY FilledFinite, TableSize
  <2>4. IsFiniteSet(L) /\ IsFiniteSet(O)
    BY <2>1, <2>2, TableAssumption, FS_Subset
  <2> QED BY <2>1, <2>2, <2>3, <2>4
<1>2. \A loc \in Locations : SumFunctionOnSet(g, {loc}) = g[loc]
  <2>1. ASSUME NEW loc \in Locations PROVE SumFunctionOnSet(g, {} \cup {loc}) = 0 + g[loc]
    <3>1. IsFiniteSet({}) /\ loc \notin {} /\ \A x \in {} : g[x] \in Int
      BY FS_EmptySet
    <3>2. SumFunctionOnSet(g, {} \cup {loc}) = SumFunctionOnSet(g, {}) + g[loc]
      BY <3>1, SumWith
    <3> QED BY <3>2, SumOfEmpty
  <2>2. \A loc \in Locations : {} \cup {loc} = {loc} /\ 0 + g[loc] = g[loc]
    OBVIOUS
  <2> QED BY <2>1, <2>2
<1>3. \A k \in F : h[k] \in L /\ v[k] = g[h[k]]
  <2>1. ASSUME NEW k \in F PROVE h[k] \in L /\ v[k] = g[h[k]]
    <3>1. k \in Slots /\ k # Other /\ OwnedBy(entries, k) = {entries[k].loc} /\ entries[k].loc \in L
      BY TableSize DEF Filled, OwnedBy, Located
    <3>2. v[k] = g[entries[k].loc]
      BY <1>1, <1>2, <3>1 DEF SumsOwned
    <3> QED BY <3>1, <3>2
  <2> QED BY <2>1
<1>4. \A k, m \in F : h[k] = h[m] => k = m
  BY DEF Placed, OneEach
<1>5. \A z \in L : g[z] \in Int /\ \E k \in F : h[k] = z
  BY <1>1 DEF Located
<1>6. v[Other] = SumFunctionOnSet(g, O) /\ (others = {} => \A loc \in O : g[loc] = 0)
  BY DEF SumsOwned, Dispensable
<1>7. (\A loc \in L : g[loc] \in Int) /\ (\A loc \in O : g[loc] \in Int)
      /\ (\A loc \in L \cup O : g[loc] \in Int) /\ (\A k \in F : v[k] \in Int)
  BY <1>1, <1>3, <1>5
<1> HIDE DEF h, F, L, O
<1>8. SumFunctionOnSet(v, F) = SumFunctionOnSet(g, L)
  BY <1>1, <1>3, <1>4, <1>5, SumOfMoved
<1>9. SumFunctionOnSet(g, Locations) = SumFunctionOnSet(g, L) + SumFunctionOnSet(g, O)
  <2>1. SumFunctionOnSet(g, L \cup O) = SumFunctionOnSet(g, L) + SumFunctionOnSet(g, O)
    BY <1>1, <1>7, SumOfUnion
  <2> QED BY <1>1, <2>1
<1>10. SumFunctionOnSet(g, L) \in Int /\ SumFunctionOnSet(g, O) \in Int
  BY <1>1, <1>7, SumIsInt
<1>11. CASE others = {}
  <2>1. SumFunctionOnSet(g, O) = 0
    BY <1>1, <1>6, <1>11, SumOfZeros
  <2>2. SumFunctionOnSet(g, Locations) = SumFunctionOnSet(g, L)
    BY <1>9, <1>10, <2>1
  <2>3. F \cup others = F
    BY <1>11
  <2> QED BY <1>8, <2>2, <2>3 DEF F
<1>12. CASE others = {Other}
  <2>1. SumFunctionOnSet(v, F \cup {Other}) = SumFunctionOnSet(v, F) + v[Other]
    BY <1>1, <1>6, <1>7, <1>10, SumWith
  <2> QED BY <1>6, <1>8, <1>9, <1>12, <2>1 DEF F
<1> QED BY <1>11, <1>12

LEMMA TotalShown ==
  ASSUME NEW entries \in [Slots \cup {Other} -> Entries], Placed(entries), in_use_c \in Nat,
         NEW mk, NEW pt, History(mk, pt), AllShow(entries, mk, pt),
         UnmadeUnlessFull(entries, in_use_c, mk, pt)
  PROVE  /\ Report(entries).total_size = SizeMade(mk, Locations)
         /\ Report(entries).total_c = CountMade(mk, Locations)
<1> DEFINE gs == [loc \in Locations |-> mk[loc].size]
           gc == [loc \in Locations |-> mk[loc].c]
           vs == [k \in DOMAIN entries |-> entries[k].total_size]
           vc == [k \in DOMAIN entries |-> entries[k].total_c]
           others == {k \in {Other} : in_use_c >= MEMORY_TABLE_SIZE}
<1>1. \A loc \in Locations : gs[loc] \in Int /\ gc[loc] \in Int
  BY HistoryNumbers
<1>2. \A k \in Slots \cup {Other} : /\ vs[k] = SumFunctionOnSet(gs, OwnedBy(entries, k))
                                    /\ vc[k] = SumFunctionOnSet(gc, OwnedBy(entries, k))
  BY DEF AllShow, ShowsOf, SizeMade, CountMade
<1>3. others \in SUBSET {Other}
  OBVIOUS
<1>4. ASSUME others = {} PROVE \A loc \in OwnedBy(entries, Other) : gs[loc] = 0 /\ gc[loc] = 0
  <2>1. ~(in_use_c > MEMORY_TABLE_SIZE)
    BY <1>4, TableAssumption
  <2>2. \A loc \in OwnedBy(entries, Other) : loc \in Locations
    BY DEF OwnedBy
  <2> QED BY <2>1, <2>2 DEF UnmadeUnlessFull, Untouched
<1>5. /\ Report(entries).total_size = SumFunctionOnSet(vs, Filled(entries) \cup others)
      /\ Report(entries).total_c = SumFunctionOnSet(vc, Filled(entries) \cup others)
  BY DEF Report, Summed
<1>6. SizeMade(mk, Locations) = SumFunctionOnSet(gs, Locations)
      /\ CountMade(mk, Locations) = SumFunctionOnSet(gc, Locations)
  BY DEF SizeMade, CountMade
<1> HIDE DEF gs, gc, vs, vc, others
<1>7. SumFunctionOnSet(vs, Filled(entries) \cup others) = SumFunctionOnSet(gs, Locations)
  <2>1. /\ \A loc \in Locations : gs[loc] \in Int
        /\ SumsOwned(vs, gs, entries) /\ Dispensable(others, gs, entries)
    BY <1>1, <1>2, <1>4 DEF SumsOwned, Dispensable
  <2> QED BY <1>3, <2>1, SumOverEntries
<1>8. SumFunctionOnSet(vc, Filled(entries) \cup others) = SumFunctionOnSet(gc, Locations)
  <2>1. /\ \A loc \in Locations : gc[loc] \in Int
        /\ SumsOwned(vc, gc, entries) /\ Dispensable(others, gc, entries)
    BY <1>1, <1>2, <1>4 DEF SumsOwned, Dispensable
  <2> QED BY <1>3, <2>1, SumOverEntries
<1> QED BY <1>5, <1>6, <1>7, <1>8

(* What the entries show is what was made and what is held, whatever the    *)
(* order they are in; a total that is being written is that of everything.  *)
ShowInv ==
  /\ PlaceInv
  /\ AllShow(tab, made, pnts)
  /\ UnmadeUnlessFull(tab, in_use_c, made, pnts)
  /\ TotalComplete

LEMMA TotalIsMade ==
  TotalComplete <=> (pc = "unsort" => /\ total.total_size = SizeMade(made, Locations)
                                      /\ total.total_c = CountMade(made, Locations))
BY DEF TotalComplete, Made, SizeMade, CountMade

LEMMA ShowStep == PlacesKnown /\ ShowInv /\ [Next]_vars => ShowInv'
<1> SUFFICES ASSUME PlacesKnown, ShowInv, [Next]_vars PROVE ShowInv'
  OBVIOUS
<1>t. PlaceInv'
  BY PlaceStep DEF ShowInv
<1>i. /\ PlaceInv /\ TypeOK /\ IsTable(Table) /\ Placed(tab) /\ History(made, pnts)
      /\ Table.tab = tab /\ Table.in_use_c = in_use_c /\ in_use_c \in Nat
      /\ AllShow(Table.tab, made, pnts) /\ UnmadeUnlessFull(Table.tab, Table.in_use_c, made, pnts)
  BY TableIsTable DEF ShowInv, PlaceInv, TypeOK, Table, History
<1>h. ASSUME pc = "idle" PROVE Placed(Table.tab) /\ AllHome(Table.tab) /\ FewFilled(Table.tab, Table.in_use_c)
  BY <1>h, <1>i DEF PlaceInv
(* A call does not write a total. *)
<1>c. ASSUME NEW t, Becomes(t), pc' = "idle", AllShow(t.tab, made', pnts'),
             UnmadeUnlessFull(t.tab, t.in_use_c, made', pnts')
      PROVE  ShowInv'
  <2>1. AllShow(tab', made', pnts') /\ UnmadeUnlessFull(tab', in_use_c', made', pnts')
    BY <1>c DEF Becomes
  <2>2. TotalComplete'
    BY <1>c DEF TotalComplete
  <2> QED BY <1>t, <2>1, <2>2 DEF ShowInv
<1>1. ASSUME NEW p \in Pnts, NEW loc \in Locations, NEW size \in Sizes, Malloc(p, loc, size)
      PROVE  ShowInv'
  <2>1. pc = "idle" /\ pc' = "idle" /\ pnts[p] = NoPnt
    BY <1>1 DEF Malloc, Call
  <2>2. made' = Gave(made, loc, size) /\ pnts' = Holds(pnts, p, loc, size)
    BY <1>1 DEF Malloc, Held, Gave, Holds
  <2>3. PICK t : t = Insert(Table, loc, size)
    OBVIOUS
  <2>4. AllShow(t.tab, made', pnts') /\ UnmadeUnlessFull(t.tab, t.in_use_c, made', pnts')
    BY <1>i, <1>h, <2>1, <2>2, <2>3, InsertShows
  <2> QED BY <1>1, <1>c, <2>1, <2>3, <2>4 DEF Malloc
<1>2. ASSUME NEW p \in Pnts, NEW loc \in Locations, NEW size \in Sizes, Realloc(p, loc, size)
      PROVE  ShowInv'
  <2>1. /\ pc = "idle" /\ pc' = "idle" /\ size \in Nat /\ pnts[p] \in Pointers /\ pnts[p] # NoPnt
    BY <1>i, <1>2, TableAssumption DEF Realloc, Call, TypeOK
  <2>2. PICK d : d = Delete(Table, pnts[p].loc, pnts[p].size)
    OBVIOUS
  <2>3. Placed(d.tab) /\ AllHome(d.tab) /\ FewFilled(d.tab, d.in_use_c) /\ IsTable(d)
    <3>1. Placed(d.tab) /\ AllHome(d.tab) /\ FewFilled(d.tab, d.in_use_c)
      BY <1>i, <1>h, <2>1, <2>2, DeletePlaces
    <3>2. IsTable(d)
      BY <1>i, <2>1, <2>2, DeleteWrites
    <3> QED BY <3>1, <3>2
  <2>4. PICK pnts0 : pnts0 = [pnts EXCEPT ![p] = NoPnt]
    OBVIOUS
  <2>5. AllShow(d.tab, made, pnts0) /\ UnmadeUnlessFull(d.tab, d.in_use_c, made, pnts0)
        /\ History(made, pnts0)
    BY <1>i, <1>h, <2>1, <2>2, <2>4, DeleteShows
  <2>6. pnts0[p] = NoPnt
    BY <1>i, <2>4 DEF History
  <2>7. made' = Gave(made, loc, size) /\ pnts' = Holds(pnts0, p, loc, size)
    <3>1. pnts' = Holds(pnts, p, loc, size)
      BY <1>2 DEF Realloc, Held, Holds
    <3>2. Holds(pnts0, p, loc, size) = Holds(pnts, p, loc, size)
      BY <1>i, <2>4 DEF Holds, History
    <3> QED BY <1>2, <3>1, <3>2 DEF Realloc, Held, Gave
  <2>8. PICK t : t = Insert(d, loc, size)
    OBVIOUS
  <2>9. AllShow(t.tab, made', pnts') /\ UnmadeUnlessFull(t.tab, t.in_use_c, made', pnts')
    BY <2>3, <2>5, <2>6, <2>7, <2>8, InsertShows
  <2> QED BY <1>2, <1>c, <2>1, <2>2, <2>8, <2>9 DEF Realloc
<1>3. ASSUME NEW p \in Pnts, Free(p) PROVE ShowInv'
  <2>1. pc = "idle" /\ pc' = "idle" /\ pnts[p] # NoPnt /\ made' = made
    BY <1>3 DEF Free, Call
  <2>2. PICK d : d = Delete(Table, pnts[p].loc, pnts[p].size)
    OBVIOUS
  <2>3. pnts' = [pnts EXCEPT ![p] = NoPnt]
    BY <1>3 DEF Free
  <2>4. AllShow(d.tab, made, pnts') /\ UnmadeUnlessFull(d.tab, d.in_use_c, made, pnts')
    BY <1>i, <1>h, <2>1, <2>2, <2>3, DeleteShows
  <2> QED BY <1>3, <1>c, <2>1, <2>2, <2>4 DEF Free
<1>4. CASE LogInfo
  <2>1. PICK f \in [Slots -> Slots] :
          /\ IsInjective(f)
          /\ tab' = [k \in Slots \cup {Other} |-> IF k = Other THEN tab[k] ELSE tab[f[k]]]
    BY <1>4 DEF LogInfo, Orders
  <2>2. Reordered(tab, tab', f)
    BY <2>1, TableSize DEF Reordered
  <2>3. AllShow(tab', made, pnts) /\ UnmadeUnlessFull(tab', in_use_c, made, pnts)
    BY <1>i, <2>2, ReorderedShows
  <2>4. PICK entries : entries = tab'
    OBVIOUS
  <2>5. entries \in [Slots \cup {Other} -> Entries] /\ Placed(entries)
    BY <1>t, <2>4 DEF PlaceInv, TypeOK
  <2>6. /\ Report(entries).total_size = SizeMade(made, Locations)
        /\ Report(entries).total_c = CountMade(made, Locations)
    BY <1>i, <2>3, <2>4, <2>5, TotalShown
  <2>7. total' = Report(entries) /\ UNCHANGED <<in_use_c, pnts, made>>
    BY <1>4, <2>4 DEF LogInfo
  <2>8. TotalComplete'
    <3>1. /\ total'.total_size = SizeMade(made', Locations)
          /\ total'.total_c = CountMade(made', Locations)
      BY <2>6, <2>7
    <3>2. (pc = "unsort" => /\ total.total_size = SizeMade(made, Locations)
                            /\ total.total_c = CountMade(made, Locations))' => TotalComplete'
      BY TotalIsMade, PTL
    <3> QED BY <3>1, <3>2
  <2> QED BY <1>t, <2>3, <2>7, <2>8 DEF ShowInv
<1>5. CASE Swap
  <2> DEFINE p == tab[cursor].pos
             f == [k \in Slots |-> IF k = cursor THEN p ELSE IF k = p THEN cursor ELSE k]
  <2>1. Reordered(tab, tab', f)
    BY <1>i, <1>5, SwapReorders
  <2>2. AllShow(tab', made, pnts) /\ UnmadeUnlessFull(tab', in_use_c, made, pnts)
    <3> HIDE DEF f
    <3> QED BY <1>i, <2>1, ReorderedShows
  <2>3. UNCHANGED <<in_use_c, pnts, pc, total, made>>
    BY <1>5 DEF Swap
  <2>4. TotalComplete'
    BY <2>3 DEF ShowInv, TotalComplete, Made
  <2> QED BY <1>t, <2>2, <2>3, <2>4 DEF ShowInv
<1>6. ASSUME UNCHANGED <<tab, in_use_c, pnts, made>>, TotalComplete' PROVE ShowInv'
  BY <1>6, <1>t DEF ShowInv
<1>7. CASE Advance
  <2>1. UNCHANGED <<tab, in_use_c, pnts, pc, total, made>>
    BY <1>7 DEF Advance
  <2>2. TotalComplete'
    BY <2>1 DEF ShowInv, TotalComplete, Made
  <2> QED BY <1>6, <2>1, <2>2
<1>8. CASE LogDone
  <2>1. UNCHANGED <<tab, in_use_c, pnts, made>> /\ pc' = "idle"
    BY <1>8 DEF LogDone
  <2>2. TotalComplete'
    BY <2>1 DEF TotalComplete
  <2> QED BY <1>6, <2>1, <2>2
<1>9. CASE UNCHANGED vars
  <2>1. UNCHANGED <<tab, in_use_c, pnts, pc, total, made>>
    BY <1>9 DEF vars
  <2>2. TotalComplete'
    BY <2>1 DEF ShowInv, TotalComplete, Made
  <2> QED BY <1>6, <2>1, <2>2
<1> QED BY <1>1, <1>2, <1>3, <1>4, <1>5, <1>7, <1>8, <1>9 DEF Next, Unsort

LEMMA ShowInit == Init => ShowInv
<1> SUFFICES ASSUME Init PROVE ShowInv
  OBVIOUS
<1>1. PlaceInv /\ Filled(tab) = {}
  BY PlaceInit, RangeOfBlanks DEF Init, Filled
<1>2. \A k \in Slots \cup {Other} : tab[k] = Blank
  BY DEF Init
<1>3. ASSUME NEW locs \in SUBSET Locations PROVE ShowsOf(Blank, locs, made, pnts)
  <2> DEFINE gs == [loc \in Locations |-> made[loc].size]
             gc == [loc \in Locations |-> made[loc].c]
             gp == [p \in Pnts |-> pnts[p].size]
  <2>1. IsFiniteSet(locs) /\ \A loc \in locs : gs[loc] = 0 /\ gc[loc] = 0
    BY FiniteLocations DEF Init
  <2>2. HeldBy(pnts, locs) = {} /\ Cardinality(HeldBy(pnts, locs)) = 0
    BY FS_EmptySet DEF Init, HeldBy
  <2> HIDE DEF gs, gc, gp
  <2>3. /\ SumFunctionOnSet(gs, locs) = 0 /\ SumFunctionOnSet(gc, locs) = 0
    BY <2>1, SumOfZeros
  <2>4. SumFunctionOnSet(gp, {}) = 0
    BY SumOfEmpty
  <2> QED BY <2>2, <2>3, <2>4 DEF ShowsOf, SizeMade, CountMade, SizeHeld, gs, gc, gp, Blank
<1>4. \A k \in Slots \cup {Other} : OwnedBy(tab, k) \in SUBSET Locations
  BY <1>1, OwnersApart DEF PlaceInv, TypeOK
<1>5. AllShow(tab, made, pnts)
  BY <1>2, <1>3, <1>4 DEF AllShow
<1>6. UnmadeUnlessFull(tab, in_use_c, made, pnts)
  BY DEF Init, UnmadeUnlessFull, OwnedBy, Untouched
<1>7. TotalComplete
  BY DEF Init, TotalComplete
<1> QED BY <1>1, <1>5, <1>6, <1>7 DEF ShowInv

LEMMA ShowsInvariant == ASSUME PlacesKnown PROVE Spec => []ShowInv
<1>1. ShowInv /\ [Next]_vars => ShowInv'
  BY ShowStep
<1> QED BY <1>1, ShowInit, PTL DEF Spec

(* At every moment the entry of a place says how much it allocated and how  *)
(* much of it is in use, and the other pointers say it of the places        *)
(* without an entry: dmalloc_tab.c, _dmalloc_table_insert and               *)
(* _dmalloc_table_delete.                                                   *)
THEOREM EntriesShow == ASSUME PlacesKnown PROVE Spec => []EntriesTrue
<1>1. ShowInv => EntriesTrue
  <2> SUFFICES ASSUME ShowInv PROVE EntriesTrue
    OBVIOUS
  <2>1. \A e, locs : Shows(e, locs) <=> ShowsOf(e, locs, made, pnts)
    BY DEF Shows, ShowsOf, Made, InUse, SizeMade, CountMade, SizeHeld, HeldBy
  <2>2. ASSUME NEW k \in Filled(tab) PROVE ShowsOf(tab[k], {tab[k].loc}, made, pnts)
    <3>1. k \in Slots /\ k # Other /\ ~IsBlank(tab[k])
      BY TableSize DEF Filled
    <3>2. ShowsOf(tab[k], OwnedBy(tab, k), made, pnts)
      BY <3>1 DEF ShowInv, AllShow
    <3> QED BY <3>1, <3>2 DEF OwnedBy
  <2>3. ShowsOf(tab[Other], Locations \ {tab[k].loc : k \in Filled(tab)}, made, pnts)
    BY DEF ShowInv, AllShow, OwnedBy, Located
  <2> QED BY <2>1, <2>2, <2>3 DEF EntriesTrue
<1> QED BY <1>1, ShowsInvariant, PTL

(* The report's total is that of every allocation the program made, those   *)
(* of the other pointers too: dmalloc_tab.c, _dmalloc_table_log_info.       *)
THEOREM TotalTold == ASSUME PlacesKnown PROVE Spec => []TotalComplete
<1>1. ShowInv => TotalComplete
  BY DEF ShowInv
<1> QED BY <1>1, ShowsInvariant, PTL
=============================================================================
