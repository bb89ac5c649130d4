-------------------------- MODULE AddressLists_proofs --------------------------
(***************************************************************************)
(* Proofs about the lists and the heap below them: that the searches, the  *)
(* insertions and the removals keep every slot on its list at each of its  *)
(* levels, whatever levels were drawn, that slots stand for memory of      *)
(* their own, and that all this implements ChunkStore.                     *)
(***************************************************************************)
EXTENDS AddressLists, SumTheorems

-----------------------------------------------------------------------------
(* Recursive functions.  A loop that goes from state to state until it may *)
(* stop, and a number of steps from a first value on: there is a function  *)
(* that does what the equation says.                                       *)
Loops(g, C, Stop, move, out) ==
  g = [s \in C |-> IF s \in Stop THEN out[s] ELSE g[move[s]]]
LEMMA LoopExists ==
  ASSUME NEW C, NEW Stop \in SUBSET C, NEW move \in [C -> C], NEW out
  PROVE  \E g : Loops(g, C, Stop, move, out)
<1> DEFINE Within(s) == {D \in SUBSET C : s \in D /\ \A u \in D \ Stop : move[u] \in D}
           Ends(s) == {t \in Stop : \A D \in Within(s) : t \in D}
           g == [s \in C |-> out[CHOOSE t : t \in Ends(s)]]
<1>1. ASSUME NEW s \in Stop PROVE Ends(s) = {s}
  <2>1. {s} \in Within(s)
    OBVIOUS
  <2> QED BY <2>1
<1>2. ASSUME NEW s \in C, s \notin Stop PROVE Ends(s) = Ends(move[s])
  <2>1. ASSUME NEW D \in Within(move[s]) PROVE D \cup {s} \in Within(s)
    BY <1>2, <2>1
  <2>2. Within(s) \subseteq Within(move[s])
    BY <1>2
  <2>3. Ends(s) \subseteq Ends(move[s])
    BY <1>2, <2>1
  <2>4. Ends(move[s]) \subseteq Ends(s)
    BY <2>2
  <2> QED BY <2>3, <2>4
<1>3. ASSUME NEW s \in C PROVE g[s] = IF s \in Stop THEN out[s] ELSE g[move[s]]
  <2>1. CASE s \in Stop
    <3>1. (CHOOSE t : t \in Ends(s)) = s
      BY <1>1, <2>1
    <3> QED BY <2>1, <3>1
  <2>2. CASE s \notin Stop
    <3>1. move[s] \in C
      OBVIOUS
    <3>2. Ends(s) = Ends(move[s])
      BY <1>2, <2>2
    <3> HIDE DEF Ends
    <3> QED BY <2>2, <3>1, <3>2
  <2> QED BY <2>1, <2>2
<1>4. g = [s \in C |-> g[s]]
  OBVIOUS
<1> HIDE DEF g
<1>5. Loops(g, C, Stop, move, out)
  BY <1>3, <1>4 DEF Loops
<1> QED BY <1>5

Steps(g, n, base, step) == g = [k \in 0 .. n |-> IF k = 0 THEN base ELSE step[g[k - 1]]]
LEMMA StepsExist ==
  ASSUME NEW n \in Nat, NEW base, NEW step PROVE \E g : Steps(g, n, base, step)
<1> DEFINE Without == {k \in Nat : ~ \E g : Steps(g, k, base, step)}
<1> SUFFICES ASSUME n \in Without PROVE FALSE
  OBVIOUS
<1>1. PICK m \in Without : \A k \in Without : m <= k
  BY LeastNumber
<1>2. m \in Nat /\ (~ \E g : Steps(g, m, base, step))
      /\ (m > 0 => \E g : Steps(g, m - 1, base, step))
  BY <1>1
<1> HIDE DEF Without
<1>3. m > 0
  <2>1. Steps([k \in 0 .. 0 |-> base], 0, base, step)
    BY DEF Steps
  <2> QED BY <1>2, <2>1
<1>4. PICK g : Steps(g, m - 1, base, step)
  BY <1>2, <1>3
<1> DEFINE more == [k \in 0 .. m |-> IF k = m THEN step[g[m - 1]] ELSE g[k]]
<1>5. ASSUME NEW k \in 0 .. m PROVE more[k] = IF k = 0 THEN base ELSE step[more[k - 1]]
  <2>1. CASE k = m
    <3>1. m - 1 \in 0 .. m /\ m - 1 # m
      BY <1>2, <1>3
    <3> QED BY <1>3, <2>1, <3>1
  <2>2. CASE k # m
    <3>1. k \in 0 .. m - 1 /\ (k # 0 => k - 1 \in 0 .. m /\ k - 1 # m)
      BY <1>2, <2>2
    <3>2. g[k] = IF k = 0 THEN base ELSE step[g[k - 1]]
      BY <1>4, <3>1 DEF Steps
    <3> QED BY <2>2, <3>1, <3>2
  <2> QED BY <2>1, <2>2
<1>6. Steps(more, m, base, step)
  <2>1. more = [k \in 0 .. m |-> more[k]]
    OBVIOUS
  <2> HIDE DEF more
  <2> QED BY <1>5, <2>1 DEF Steps
<1> QED BY <1>2, <1>6

-----------------------------------------------------------------------------
(* Rows.  The slots of a set in the order of their ranks: m is the one that *)
(* follows rank k, and there is none if m is NIL.                          *)
Ranked(T, r) == /\ \A x \in T : r[x] \in Nat \ {0}
                /\ \A x, y \in T : r[x] = r[y] => x = y
Follows(T, r, k, m) ==
  IF m = NIL THEN \A x \in T : r[x] <= k
  ELSE /\ m \in T /\ r[m] > k
       /\ \A x \in T : r[x] <= k \/ r[m] <= r[x]

(* A list has one row per level, of the slots that are tall enough.         *)
Tall(sl, S, l) == {x \in S : sl[x].level >= l}
Links(nx) == nx \in [Nodes -> [SkipLevels -> Ids \cup {NIL}]]
Skip(S, head, r, sl, nx) ==
  /\ S \subseteq Ids /\ head \in Nodes \ Ids
  /\ r \in [Nodes -> Nat] /\ r[head] = 0 /\ Ranked(S, r)
  /\ \A x \in S : sl[x].level \in SkipLevels
  /\ \A l \in SkipLevels : \A n \in Tall(sl, S, l) \cup {head} :
       Follows(Tall(sl, S, l), r, r[n], nx[n][l])

(* What a search comes back with: at each level the last slot it went right *)
(* to, and what it found.                                                  *)
Turn(S, head, sl, nx, right, l, n) ==
  /\ n \in (Tall(sl, S, l) \cap right) \cup {head}
  /\ nx[n][l] \notin right
Hit(S, right, match, x) == x = NIL \/ x \in (S \cap match) \ right
Turned(S, head, sl, nx, right, match, t) ==
  /\ t.update \in [SkipLevels -> Nodes]
  /\ \A l \in SkipLevels : Turn(S, head, sl, nx, right, l, t.update[l])
  /\ Hit(S, right, match, t.found)
  /\ nx[t.update[0]][0] \in match => t.found = nx[t.update[0]][0]

LEMMA SomeIds == NIL \notin Ids /\ Ids \subseteq Nodes /\ 0 \in SkipLevels
                 /\ AddressList \in Nodes \ Ids /\ SizeList \in Nodes \ Ids
                 /\ AddressList # SizeList /\ NIL \notin Nodes
BY SkipListAssumption DEF NIL, Ids, Nodes, SkipLevels, AddressList, SizeList

(* The search as a loop. *)
Turning(s, n, match) == [at |-> s.at, level |-> s.level,
                         found |-> IF n \in match THEN n ELSE s.found,
                         update |-> [s.update EXCEPT ![s.level] = s.at]]
Going(g, nx, right, match) ==
  \A s \in Cursor :
    LET n == nx[s.at][s.level] IN
    /\ n \in right => g[s] = g[[s EXCEPT !.at = n]]
    /\ n \notin right /\ s.level > 0 =>
         g[s] = g[[Turning(s, n, match) EXCEPT !.level = s.level - 1]]
    /\ n \notin right /\ s.level = 0 => g[s] = Turning(s, n, match)

LEMMA CursorMoves ==
  ASSUME NEW nx, Links(nx), NEW right \in SUBSET Ids, NEW match \in SUBSET Ids, NEW s \in Cursor
  PROVE  LET n == nx[s.at][s.level] IN
         /\ n \in Ids \cup {NIL}
         /\ n \in right => [s EXCEPT !.at = n] \in Cursor
         /\ Turning(s, n, match) \in Cursor
         /\ s.level > 0 => [Turning(s, n, match) EXCEPT !.level = s.level - 1] \in Cursor
<1>1. s.at \in Nodes /\ s.level \in SkipLevels /\ s.found \in Nodes \cup {NIL}
      /\ s.update \in [SkipLevels -> Nodes]
  BY DEF Cursor
<1>2. PICK n : n = nx[s.at][s.level]
  OBVIOUS
<1>3. n \in Ids \cup {NIL}
  BY <1>1, <1>2 DEF Links
<1>4. n \in right => [s EXCEPT !.at = n] \in Cursor
  BY SomeIds, <1>1 DEF Cursor
<1>5. [s.update EXCEPT ![s.level] = s.at] \in [SkipLevels -> Nodes]
  BY <1>1
<1>6. Turning(s, n, match) \in Cursor
  BY <1>1, <1>3, <1>5, SomeIds DEF Cursor, Turning
<1>7. s.level > 0 => s.level - 1 \in SkipLevels
  BY <1>1, SkipListAssumption DEF SkipLevels
<1>8. s.level > 0 => [Turning(s, n, match) EXCEPT !.level = s.level - 1] \in Cursor
  BY <1>6, <1>7 DEF Cursor
<1> QED BY <1>2, <1>3, <1>4, <1>6, <1>8

Outset(head) == [at |-> head, level |-> MAX_SKIP_LEVEL - 1, found |-> NIL,
                 update |-> [l \in SkipLevels |-> head]]
Leads(g, nx, head, right, match) ==
  Going(g, nx, right, match) /\ Search(nx, head, right, match) = g[Outset(head)]
LEMMA SearchGoes ==
  ASSUME NEW nx, Links(nx), NEW head \in Nodes, NEW right \in SUBSET Ids, NEW match \in SUBSET Ids
  PROVE  \E g : Leads(g, nx, head, right, match)
<1> DEFINE body(g, s) ==
             LET n == nx[s.at][s.level]
                 t == [s EXCEPT !.found = IF n \in match THEN n ELSE @,
                                !.update[s.level] = s.at]
             IN CASE n \in right -> g[[s EXCEPT !.at = n]]
                  [] n \notin right /\ s.level > 0 -> g[[t EXCEPT !.level = @ - 1]]
                  [] OTHER -> t
           Goes(g) == g = [s \in Cursor |-> body(g, s)]
           after(s) == nx[s.at][s.level]
           Stop == {s \in Cursor : after(s) \notin right /\ ~(s.level > 0)}
           move == [s \in Cursor |->
                      IF after(s) \in right THEN [s EXCEPT !.at = after(s)]
                      ELSE IF s.level > 0
                      THEN [Turning(s, after(s), match) EXCEPT !.level = s.level - 1]
                      ELSE s]
           out == [s \in Cursor |-> Turning(s, after(s), match)]
<1>1. move \in [Cursor -> Cursor] /\ Stop \in SUBSET Cursor
  <2>1. ASSUME NEW s \in Cursor
        PROVE  (IF after(s) \in right THEN [s EXCEPT !.at = after(s)]
                ELSE IF s.level > 0
                THEN [Turning(s, after(s), match) EXCEPT !.level = s.level - 1]
                ELSE s) \in Cursor
    BY CursorMoves
  <2>2. Stop \in SUBSET Cursor
    OBVIOUS
  <2> HIDE DEF Stop
  <2> QED BY <2>1, <2>2
<1>2. ASSUME NEW s \in Cursor
      PROVE  [s EXCEPT !.found = IF after(s) \in match THEN after(s) ELSE @,
                       !.update[s.level] = s.at] = Turning(s, after(s), match)
  <2>1. PICK f : f = IF after(s) \in match THEN after(s) ELSE s.found
    OBVIOUS
  <2>2. PICK t : t = [s EXCEPT !.found = f, !.update[s.level] = s.at]
    OBVIOUS
  <2>3. DOMAIN s = {"at", "level", "found", "update"}
    BY DEF Cursor
  <2>4. DOMAIN t = {"at", "level", "found", "update"}
    BY <2>2, <2>3
  <2>5. t.at = s.at /\ t.level = s.level /\ t.found = f
        /\ t.update = [s.update EXCEPT ![s.level] = s.at]
    BY <2>2, <2>3
  <2>6. t = [at |-> t.at, level |-> t.level, found |-> t.found, update |-> t.update]
    <3>1. t = [x \in DOMAIN t |-> t[x]]
      BY <2>2
    <3> QED BY <2>4, <3>1
  <2> QED BY <2>1, <2>2, <2>5, <2>6 DEF Turning
<1>3. ASSUME NEW s \in Cursor
      PROVE  Turning(s, after(s), match).level = s.level
  BY DEF Turning
<1>4. ASSUME NEW g, NEW s \in Cursor
      PROVE  body(g, s) = IF s \in Stop THEN out[s] ELSE g[move[s]]
  <2>1. CASE after(s) \in right
    BY <2>1
  <2>2. CASE after(s) \notin right /\ s.level > 0
    <3>1. PICK t : t = [s EXCEPT !.found = IF after(s) \in match THEN after(s) ELSE @,
                                 !.update[s.level] = s.at]
      OBVIOUS
    <3>2. t = Turning(s, after(s), match) /\ t.level = s.level
      BY <1>2, <1>3, <3>1
    <3>3. body(g, s) = g[[t EXCEPT !.level = t.level - 1]]
      BY <2>2, <3>1
    <3>4. move[s] = [t EXCEPT !.level = t.level - 1]
      BY <2>2, <3>2
    <3> QED BY <2>2, <3>3, <3>4
  <2>3. CASE after(s) \notin right /\ ~(s.level > 0)
    BY <1>2, <2>3
  <2> QED BY <2>1, <2>2, <2>3
<1>5. PICK g : g = [s \in Cursor |-> IF s \in Stop THEN out[s] ELSE g[move[s]]]
  <2>1. PICK C, S, m, o : C = Cursor /\ S = Stop /\ m = move /\ o = out
    OBVIOUS
  <2>2. S \in SUBSET C /\ m \in [C -> C]
    BY <1>1, <2>1
  <2>3. \E g : Loops(g, C, S, m, o)
    BY <2>2, LoopExists
  <2> HIDE DEF Stop, move, out
  <2> QED BY <2>1, <2>3 DEF Loops
<1>6. Goes(g)
  <2> HIDE DEF body, Stop, move, out
  <2> QED BY <1>4, <1>5
<1> DEFINE go == CHOOSE h : Goes(h)
<1>7. Goes(go)
  <2> HIDE DEF Goes
  <2> QED BY <1>6
<1>8. Search(nx, head, right, match) = go[Outset(head)]
  BY DEF Search, Outset
<1>9. Going(go, nx, right, match)
  <2> SUFFICES ASSUME NEW s \in Cursor
               PROVE  LET n == nx[s.at][s.level] IN
                      /\ n \in right => go[s] = go[[s EXCEPT !.at = n]]
                      /\ n \notin right /\ s.level > 0 =>
                           go[s] = go[[Turning(s, n, match) EXCEPT !.level = s.level - 1]]
                      /\ n \notin right /\ s.level = 0 => go[s] = Turning(s, n, match)
    BY DEF Going
  <2>1. go[s] = body(go, s)
    <3> HIDE DEF body, go
    <3> QED BY <1>7
  <2>2. go[s] = IF s \in Stop THEN out[s] ELSE go[move[s]]
    <3> HIDE DEF body, Stop, move, out, go
    <3> QED BY <1>4, <2>1
  <2> HIDE DEF go
  <2>3. s.level = 0 => ~(s.level > 0)
    OBVIOUS
  <2> QED BY <2>2, <2>3
<1> HIDE DEF go
<1> QED BY <1>8, <1>9 DEF Leads

LEMMA RanksBounded ==
  ASSUME NEW r \in [Nodes -> Nat] PROVE \E B \in Nat : \A n \in Nodes : r[n] <= B
<1>1. IsFiniteSet(Nodes)
  <2>1. IsFiniteSet(1 .. MaxSlots)
    BY FS_Interval, SkipListAssumption
  <2>2. Nodes = (1 .. MaxSlots) \cup {AddressList} \cup {SizeList}
    BY DEF Nodes, Ids
  <2>3. IsFiniteSet((1 .. MaxSlots) \cup {AddressList})
    BY <2>1, FS_AddElement
  <2> QED BY <2>2, <2>3, FS_AddElement
<1>2. /\ SumFunctionOnSet(r, Nodes) \in Nat
      /\ \A n \in Nodes : r[n] <= SumFunctionOnSet(r, Nodes)
  BY <1>1, SumIsNat
<1> QED BY <1>2

(* However the levels fell, a search turns at each level at the last slot   *)
(* before one that is not to its left, and finds what is there at level 0.  *)
LEMMA SearchTurns ==
  ASSUME NEW S, NEW head, NEW r, NEW sl, NEW nx, Links(nx), Skip(S, head, r, sl, nx),
         NEW right \in SUBSET Ids, NEW match \in SUBSET Ids
  PROVE  Turned(S, head, sl, nx, right, match, Search(nx, head, right, match))
<1>1. PICK B \in Nat : \A n \in Nodes : r[n] <= B
  BY RanksBounded DEF Skip
<1>2. PICK g : Going(g, nx, right, match) /\ Search(nx, head, right, match) = g[Outset(head)]
  <2>1. head \in Nodes
    BY DEF Skip
  <2> QED BY <2>1, SearchGoes DEF Leads
<1> DEFINE TurnAt(l, n) == Turn(S, head, sl, nx, right, l, n)
           Fine(s) == /\ s \in Cursor
                      /\ s.at \in (Tall(sl, S, s.level) \cap right) \cup {head}
                      /\ \A l \in SkipLevels : l > s.level => TurnAt(l, s.update[l])
                      /\ Hit(S, right, match, s.found)
           Right(s) == Turned(S, head, sl, nx, right, match, g[s])
           measure(s) == s.level * (B + 1) + (B - r[s.at])
           Wrong == {measure(s) : s \in {c \in Cursor : Fine(c) /\ ~Right(c)}}
<1>3. ASSUME NEW s \in Cursor PROVE measure(s) \in Nat
  <2>1. s.level \in Nat /\ s.at \in Nodes
    BY SkipListAssumption DEF Cursor, SkipLevels
  <2>2. r[s.at] \in Nat /\ r[s.at] <= B
    BY <1>1, <2>1 DEF Skip
  <2> QED BY <2>1, <2>2
<1>4. ASSUME NEW s \in Cursor, Fine(s), ~Right(s),
             \A c \in Cursor : Fine(c) /\ measure(c) < measure(s) => Right(c)
      PROVE  FALSE
  <2> DEFINE n == nx[s.at][s.level]
             t == Turning(s, n, match)
  <2>1. /\ n \in Ids \cup {NIL} /\ (n \in right => [s EXCEPT !.at = n] \in Cursor)
        /\ t \in Cursor
        /\ s.level > 0 => [t EXCEPT !.level = s.level - 1] \in Cursor
    BY CursorMoves
  <2>2. /\ s.at \in Nodes /\ s.level \in SkipLevels /\ s.level \in Nat
        /\ s.update \in [SkipLevels -> Nodes]
    BY SkipListAssumption DEF Cursor, SkipLevels
  <2>3. Follows(Tall(sl, S, s.level), r, r[s.at], n)
    BY <1>4, <2>2 DEF Skip
  <2>4. n \in Ids => n \in Tall(sl, S, s.level) /\ r[n] > r[s.at]
    BY <2>3, SomeIds DEF Follows
  <2>5. r[s.at] \in Nat /\ (n \in Ids => r[n] \in Nat)
    BY <2>2, SomeIds DEF Skip
  <2>6. CASE n \in right
    <3>1. PICK c : c = [s EXCEPT !.at = n]
      OBVIOUS
    <3>2. c \in Cursor /\ c.at = n /\ c.level = s.level /\ c.found = s.found /\ c.update = s.update
      BY <2>1, <2>6, <3>1 DEF Cursor
    <3>3. Fine(c)
      BY <1>4, <2>4, <2>6, <3>2
    <3>4. measure(c) < measure(s)
      <4>1. r[n] > r[s.at]
        BY <2>4, <2>6
      <4>2. PICK k : k = s.level * (B + 1)
        OBVIOUS
      <4>3. k \in Nat
        BY <2>2, <4>2
      <4>4. measure(c) = k + (B - r[n]) /\ measure(s) = k + (B - r[s.at])
        BY <3>2, <4>2
      <4> QED BY <2>5, <2>6, <4>1, <4>3, <4>4
    <3>5. g[s] = g[c]
      BY <1>2, <2>6, <3>1 DEF Going
    <3> QED BY <1>4, <3>2, <3>3, <3>4, <3>5
  <2>7. t.at = s.at /\ t.level = s.level /\ t.update = [s.update EXCEPT ![s.level] = s.at]
        /\ t.found = IF n \in match THEN n ELSE s.found
    BY DEF Turning
  <2>8. ASSUME n \notin right
        PROVE  /\ \A l \in SkipLevels : l >= s.level => TurnAt(l, t.update[l])
               /\ Hit(S, right, match, t.found)
    <3>1. TurnAt(s.level, s.at)
      BY <1>4, <2>8 DEF Turn
    <3>2. ASSUME NEW l \in SkipLevels, l >= s.level PROVE TurnAt(l, t.update[l])
      <4>1. l = s.level \/ l > s.level
        BY <2>2, <3>2, SkipListAssumption DEF SkipLevels
      <4> QED BY <1>4, <2>2, <2>7, <3>1, <4>1
    <3>3. Hit(S, right, match, t.found)
      BY <1>4, <2>4, <2>7, <2>8 DEF Hit, Tall
    <3> QED BY <3>2, <3>3
  <2>9. CASE n \notin right /\ s.level > 0
    <3>1. PICK c : c = [t EXCEPT !.level = s.level - 1]
      OBVIOUS
    <3>2. /\ c \in Cursor /\ c.at = s.at /\ c.level = s.level - 1 /\ c.found = t.found
          /\ c.update = t.update
      BY <2>1, <2>7, <2>9, <3>1 DEF Cursor
    <3>3. Fine(c)
      <4>1. c.at \in (Tall(sl, S, c.level) \cap right) \cup {head}
        <5>1. ASSUME NEW x \in Tall(sl, S, s.level) PROVE x \in Tall(sl, S, s.level - 1)
          <6>1. sl[x].level \in Int
            BY SkipListAssumption DEF Skip, Tall, SkipLevels
          <6> QED BY <2>2, <6>1 DEF Tall
        <5> QED BY <1>4, <3>2, <5>1
      <4>2. ASSUME NEW l \in SkipLevels, l > c.level PROVE TurnAt(l, c.update[l])
        <5>1. l >= s.level
          BY <2>2, <3>2, <4>2, SkipListAssumption DEF SkipLevels
        <5> QED BY <2>8, <2>9, <3>2, <5>1
      <4> QED BY <2>8, <2>9, <3>2, <4>1, <4>2
    <3>4. measure(c) < measure(s)
      <4>1. PICK k : k = (s.level - 1) * (B + 1)
        OBVIOUS
      <4>2. k \in Nat /\ s.level * (B + 1) = k + (B + 1)
        BY <2>2, <2>9, <4>1
      <4>3. measure(c) = k + (B - r[s.at]) /\ measure(s) = k + (B + 1) + (B - r[s.at])
        BY <3>2, <4>1, <4>2
      <4> QED BY <2>5, <4>2, <4>3
    <3>5. g[s] = g[c]
      BY <1>2, <2>9, <3>1 DEF Going
    <3> QED BY <1>4, <3>2, <3>3, <3>4, <3>5
  <2>10. CASE n \notin right /\ s.level = 0
    <3>1. g[s] = t
      BY <1>2, <2>10 DEF Going
    <3>2. t.update \in [SkipLevels -> Nodes]
      BY <2>1 DEF Cursor
    <3>3. \A l \in SkipLevels : TurnAt(l, t.update[l])
      BY <2>8, <2>10, SkipListAssumption DEF SkipLevels
    <3>4. t.update[0] = s.at
      BY <2>2, <2>7, <2>10
    <3>5. nx[t.update[0]][0] \in match => t.found = nx[t.update[0]][0]
      BY <2>7, <2>10, <3>4
    <3> HIDE DEF t
    <3> QED BY <1>4, <2>8, <2>10, <3>1, <3>2, <3>3, <3>5 DEF Turned
  <2> QED BY <2>2, <2>6, <2>9, <2>10
<1>5. ASSUME NEW s \in Cursor, Fine(s) PROVE Right(s)
  <2> SUFFICES ASSUME ~Right(s) PROVE FALSE
    OBVIOUS
  <2>1. measure(s) \in Wrong /\ Wrong \in SUBSET Nat
    <3> HIDE DEF Fine, Right, measure
    <3> QED BY <1>3, <1>5
  <2>2. PICK m \in Wrong : \A k \in Wrong : m <= k
    <3> HIDE DEF Wrong
    <3> QED BY <2>1, LeastNumber
  <2>3. PICK c \in Cursor : m = measure(c) /\ Fine(c) /\ ~Right(c)
    <3> HIDE DEF Fine, Right, measure
    <3> QED OBVIOUS
  <2> HIDE DEF Fine, Right, measure
  <2>4. ASSUME NEW d \in Cursor, Fine(d), measure(d) < measure(c) PROVE Right(d)
    <3>1. measure(d) \in Nat /\ measure(c) \in Nat
      BY <1>3
    <3>2. measure(d) \notin Wrong
      BY <2>2, <2>3, <2>4, <3>1
    <3> QED BY <2>4, <3>2
  <2> QED BY <1>4, <2>3, <2>4
<1>6. PICK s : s = Outset(head)
  OBVIOUS
<1>7. s \in Cursor /\ Fine(s)
  <2>1. head \in Nodes /\ MAX_SKIP_LEVEL - 1 \in SkipLevels
    BY SkipListAssumption DEF Skip, SkipLevels
  <2>2. s \in Cursor
    BY <1>6, <2>1 DEF Cursor, Outset
  <2>3. \A l \in SkipLevels : ~(l > s.level)
    BY <1>6, SkipListAssumption DEF SkipLevels, Outset
  <2> QED BY <1>6, <2>2, <2>3 DEF Hit, Outset
<1> QED BY <1>2, <1>5, <1>6, <1>7

-----------------------------------------------------------------------------
(* What a row becomes when a slot is put in, taken out, or ranks change.    *)
Rank(T, r, j) == j = 0 \/ \E v \in T : r[v] = j

LEMMA FollowsIsOne ==
  ASSUME NEW T, NEW r, NIL \notin T, Ranked(T, r), NEW k \in Nat, NEW m, NEW n,
         Follows(T, r, k, m), Follows(T, r, k, n)
  PROVE  m = n
<1>1. ASSUME NEW y \in T PROVE r[y] \in Nat
  BY DEF Ranked
<1>2. m = NIL => n = NIL
  BY <1>1 DEF Follows
<1>3. n = NIL => m = NIL
  BY <1>1 DEF Follows
<1>4. ASSUME m # NIL, n # NIL PROVE m = n
  <2>1. m \in T /\ n \in T /\ r[m] > k /\ r[n] > k
    BY <1>4 DEF Follows
  <2>2. r[n] <= r[m] /\ r[m] <= r[n]
    BY <1>1, <1>4, <2>1 DEF Follows
  <2> QED BY <1>1, <2>1, <2>2 DEF Ranked
<1> QED BY <1>2, <1>3, <1>4

LEMMA FollowsInserted ==
  ASSUME NEW T, NEW r, NEW x, x \notin T, x # NIL, NIL \notin T, Ranked(T \cup {x}, r),
         NEW k \in Nat, Rank(T, r, k), NEW m, Follows(T, r, k, m),
         k < r[x], m = NIL \/ r[x] < r[m]
  PROVE  /\ Follows(T \cup {x}, r, k, x) /\ Follows(T \cup {x}, r, r[x], m)
         /\ \A j \in Nat : \A n : j # k /\ Rank(T, r, j) /\ Follows(T, r, j, n)
                              => Follows(T \cup {x}, r, j, n)
<1>1. r[x] \in Nat /\ \A y \in T : r[y] \in Nat
  BY DEF Ranked
<1>2. ASSUME NEW y \in T PROVE r[y] <= k \/ r[x] < r[y]
  <2>1. r[y] \in Nat
    BY <1>1
  <2>2. CASE m = NIL
    BY <2>2 DEF Follows
  <2>3. CASE m # NIL
    <3>1. m \in T /\ (r[y] <= k \/ r[m] <= r[y])
      BY <2>3 DEF Follows
    <3>2. r[m] \in Nat
      BY <1>1, <3>1
    <3> QED BY <1>1, <2>1, <2>3, <3>1, <3>2
  <2> QED BY <2>2, <2>3
<1>3. Follows(T \cup {x}, r, k, x)
  BY <1>1, <1>2 DEF Follows
<1>4. Follows(T \cup {x}, r, r[x], m)
  <2>1. CASE m = NIL
    BY <1>1, <2>1 DEF Follows
  <2>2. CASE m # NIL
    <3>1. m \in T /\ r[m] > r[x]
      BY <1>1, <2>2 DEF Follows
    <3>2. ASSUME NEW y \in T \cup {x} PROVE r[y] <= r[x] \/ r[m] <= r[y]
      BY <1>1, <2>2, <3>1, <3>2 DEF Follows
    <3> QED BY <2>2, <3>1, <3>2 DEF Follows
  <2> QED BY <2>1, <2>2
<1>5. ASSUME NEW j \in Nat, NEW n, j # k, Rank(T, r, j), Follows(T, r, j, n)
      PROVE  Follows(T \cup {x}, r, j, n)
  <2>1. CASE n = NIL
    <3>1. \A y \in T : r[y] <= j
      BY <1>5, <2>1 DEF Follows
    <3>2. r[x] <= j
      <4>1. k = 0 \/ k <= j
        BY <3>1 DEF Rank
      <4>2. k < j
        BY <1>5, <4>1
      <4>3. j # 0
        BY <4>2
      <4> QED BY <1>1, <1>2, <1>5, <4>2, <4>3 DEF Rank
    <3> QED BY <2>1, <3>1, <3>2 DEF Follows
  <2>2. CASE n # NIL
    <3>1. n \in T /\ r[n] > j /\ \A y \in T : r[y] <= j \/ r[n] <= r[y]
      BY <1>5, <2>2 DEF Follows
    <3>2. r[x] <= j \/ r[n] <= r[x]
      <4>1. CASE j < k
        <5>1. \E v \in T : r[v] = k
          BY <4>1 DEF Rank
        <5>2. r[n] <= k
          BY <3>1, <4>1, <5>1
        <5> QED BY <1>1, <3>1, <5>2
      <4>2. CASE k < j
        BY <1>1, <1>2, <1>5, <4>2 DEF Rank
      <4> QED BY <1>5, <4>1, <4>2
    <3> QED BY <2>2, <3>1, <3>2 DEF Follows
  <2> QED BY <2>1, <2>2
<1> QED BY <1>3, <1>4, <1>5

LEMMA FollowsRemoved ==
  ASSUME NEW T, NEW r, NEW x \in T, NIL \notin T, Ranked(T, r),
         NEW k \in Nat, Follows(T, r, k, x), NEW m, Follows(T, r, r[x], m)
  PROVE  /\ Follows(T \ {x}, r, k, m)
         /\ \A j \in Nat : \A n : n # x /\ Follows(T, r, j, n) => Follows(T \ {x}, r, j, n)
<1>1. \A y \in T : r[y] \in Nat
  BY DEF Ranked
<1>2. x # NIL /\ r[x] > k /\ \A y \in T : r[y] <= k \/ r[x] <= r[y]
  BY DEF Follows
<1>3. ASSUME NEW y \in T \ {x} PROVE r[y] <= k \/ r[x] < r[y]
  <2>1. r[y] # r[x] /\ r[y] \in Nat /\ r[x] \in Nat
    BY <1>1 DEF Ranked
  <2> QED BY <1>2, <2>1
<1>4. Follows(T \ {x}, r, k, m)
  <2>1. CASE m = NIL
    <3>1. ASSUME NEW y \in T \ {x} PROVE r[y] <= k
      BY <1>1, <1>3, <2>1 DEF Follows
    <3> QED BY <2>1, <3>1 DEF Follows
  <2>2. CASE m # NIL
    <3>1. m \in T /\ r[m] > r[x] /\ \A y \in T : r[y] <= r[x] \/ r[m] <= r[y]
      BY <2>2 DEF Follows
    <3>2. m \in T \ {x} /\ r[m] > k
      BY <1>1, <1>2, <3>1
    <3>3. ASSUME NEW y \in T \ {x} PROVE r[y] <= k \/ r[m] <= r[y]
      <4>1. r[y] \in Nat /\ r[x] \in Nat /\ r[m] \in Nat
        BY <1>1, <3>1
      <4> QED BY <1>3, <3>1, <4>1
    <3> QED BY <2>2, <3>2, <3>3 DEF Follows
  <2> QED BY <2>1, <2>2
<1>5. ASSUME NEW j \in Nat, NEW n, n # x, Follows(T, r, j, n) PROVE Follows(T \ {x}, r, j, n)
  BY <1>5 DEF Follows
<1> QED BY <1>4, <1>5

(* Only the order of the ranks matters. *)
InOrder(T, r, q) == \A x, y \in T : r[x] < r[y] => q[x] < q[y]
LEMMA FollowsReranked ==
  ASSUME NEW T, NEW r, NEW q, NIL \notin T, Ranked(T, r), Ranked(T, q), InOrder(T, r, q),
         NEW j \in Nat, NEW i \in Nat, (j = 0 /\ i = 0) \/ \E v \in T : j = r[v] /\ i = q[v],
         NEW n, Follows(T, r, j, n)
  PROVE  Follows(T, q, i, n)
<1>1. \A y \in T : r[y] \in Nat \ {0} /\ q[y] \in Nat \ {0}
  BY DEF Ranked
<1>2. ASSUME NEW y \in T PROVE (r[y] <= j) <=> (q[y] <= i)
  <2>1. CASE j = 0 /\ i = 0
    BY <1>1, <2>1
  <2>2. ASSUME NEW v \in T, j = r[v], i = q[v] PROVE (r[y] <= j) <=> (q[y] <= i)
    <3>1. r[y] \in Nat /\ q[y] \in Nat /\ r[v] \in Nat /\ q[v] \in Nat
      BY <1>1
    <3>2. r[y] = r[v] => y = v
      BY DEF Ranked
    <3>3. q[y] = q[v] => y = v
      BY DEF Ranked
    <3> QED BY <2>2, <3>1, <3>2, <3>3 DEF InOrder
  <2> QED BY <2>1, <2>2
<1>3. CASE n = NIL
  BY <1>2, <1>3 DEF Follows
<1>4. CASE n # NIL
  <2>1. n \in T /\ r[n] > j
    BY <1>4 DEF Follows
  <2>2. q[n] > i
    BY <1>1, <1>2, <2>1
  <2>3. ASSUME NEW y \in T PROVE q[y] <= i \/ q[n] <= q[y]
    <3>1. r[y] <= j \/ r[n] <= r[y]
      BY <1>4 DEF Follows
    <3>2. r[n] <= r[y] => q[n] <= q[y]
      <4>1. r[y] \in Nat /\ q[y] \in Nat /\ r[n] \in Nat /\ q[n] \in Nat
        BY <1>1, <2>1
      <4>2. r[y] = r[n] => y = n
        BY <2>1 DEF Ranked
      <4> QED BY <2>1, <4>1, <4>2 DEF InOrder
    <3> QED BY <1>2, <3>1, <3>2
  <2> QED BY <1>4, <2>1, <2>2, <2>3 DEF Follows
<1> QED BY <1>3, <1>4

-----------------------------------------------------------------------------
(* The same for a list with all its rows. *)
Row(S, head, r, sl, nx, l) ==
  \A n \in Tall(sl, S, l) \cup {head} : Follows(Tall(sl, S, l), r, r[n], nx[n][l])

LEMMA SkipParts ==
  ASSUME NEW S, NEW head, NEW r, NEW sl, NEW nx, Skip(S, head, r, sl, nx)
  PROVE  /\ S \subseteq Ids /\ head \in Nodes \ Ids /\ head \notin S /\ NIL \notin S
         /\ r \in [Nodes -> Nat] /\ r[head] = 0 /\ Ranked(S, r)
         /\ \A x \in S : sl[x].level \in SkipLevels /\ r[x] \in Nat \ {0}
         /\ \A l \in SkipLevels : Row(S, head, r, sl, nx, l)
         /\ \A l \in SkipLevels : /\ Tall(sl, S, l) \subseteq S /\ NIL \notin Tall(sl, S, l)
                                  /\ Ranked(Tall(sl, S, l), r)
                                  /\ \A n \in Tall(sl, S, l) \cup {head} :
                                       r[n] \in Nat /\ Rank(Tall(sl, S, l), r, r[n])
         /\ Tall(sl, S, 0) = S
<1>1. /\ S \subseteq Ids /\ head \in Nodes \ Ids /\ r \in [Nodes -> Nat] /\ r[head] = 0
      /\ Ranked(S, r) /\ \A x \in S : sl[x].level \in SkipLevels
      /\ \A l \in SkipLevels : Row(S, head, r, sl, nx, l)
  BY DEF Skip, Row
<1>2. head \notin S /\ NIL \notin S
  BY <1>1, SomeIds
<1>3. \A x \in S : r[x] \in Nat \ {0}
  BY <1>1 DEF Ranked
<1>4. ASSUME NEW l \in SkipLevels
      PROVE  /\ Tall(sl, S, l) \subseteq S /\ NIL \notin Tall(sl, S, l)
             /\ Ranked(Tall(sl, S, l), r)
             /\ \A n \in Tall(sl, S, l) \cup {head} :
                  r[n] \in Nat /\ Rank(Tall(sl, S, l), r, r[n])
  <2>1. Tall(sl, S, l) \subseteq S
    BY DEF Tall
  <2> QED BY <1>1, <1>2, <1>3, <2>1 DEF Ranked, Rank
<1>5. Tall(sl, S, 0) = S
  BY <1>1, SkipListAssumption DEF Tall, SkipLevels
<1> QED BY <1>1, <1>2, <1>3, <1>4, <1>5

LEMMA SkipReranked ==
  ASSUME NEW S, NEW head, NEW r, NEW sl, NEW nx, Skip(S, head, r, sl, nx),
         NEW q \in [Nodes -> Nat], q[head] = 0, Ranked(S, q), InOrder(S, r, q)
  PROVE  Skip(S, head, q, sl, nx)
<1>1. ASSUME NEW l \in SkipLevels, NEW n \in Tall(sl, S, l) \cup {head}
      PROVE  Follows(Tall(sl, S, l), q, q[n], nx[n][l])
  <2>1. Follows(Tall(sl, S, l), r, r[n], nx[n][l])
    BY DEF Skip
  <2>2. /\ Tall(sl, S, l) \subseteq S /\ NIL \notin Tall(sl, S, l)
        /\ Ranked(Tall(sl, S, l), r) /\ r[n] \in Nat
    BY SkipParts
  <2>3. Ranked(Tall(sl, S, l), q) /\ InOrder(Tall(sl, S, l), r, q)
    BY <2>2 DEF Ranked, InOrder
  <2>4. q[n] \in Nat /\ r[head] = 0
    BY <2>2, SomeIds DEF Skip
  <2>5. (r[n] = 0 /\ q[n] = 0) \/ \E v \in Tall(sl, S, l) : r[n] = r[v] /\ q[n] = q[v]
    BY <2>4
  <2> QED BY <2>1, <2>2, <2>3, <2>4, <2>5, FollowsReranked
<1> QED BY <1>1 DEF Skip

LEMMA SkipFramed ==
  ASSUME NEW S, NEW head, NEW r, NEW sl, NEW nx, Skip(S, head, r, sl, nx), NEW sm, NEW ny,
         \A x \in S : sm[x].level = sl[x].level, \A n \in S \cup {head} : ny[n] = nx[n]
  PROVE  Skip(S, head, r, sm, ny)
<1>1. \A l \in SkipLevels : Tall(sm, S, l) = Tall(sl, S, l)
  BY DEF Tall
<1>2. ASSUME NEW l \in SkipLevels, NEW n \in Tall(sm, S, l) \cup {head}
      PROVE  Follows(Tall(sm, S, l), r, r[n], ny[n][l])
  <2>1. n \in S \cup {head}
    BY DEF Tall
  <2> QED BY <1>1, <2>1 DEF Skip
<1> QED BY <1>2 DEF Skip

(* What is to the left of a place on a list is a first part of it. *)
LeftPart(S, r, right) == \A y, z \in S : z \in right /\ r[y] < r[z] => y \in right

(* A search for such a place turns right before it. *)
LEMMA TurnsBefore ==
  ASSUME NEW S, NEW head, NEW r, NEW sl, NEW nx, Skip(S, head, r, sl, nx),
         NEW right \in SUBSET Ids, LeftPart(S, r, right), NEW l \in SkipLevels,
         NEW u, Turn(S, head, sl, nx, right, l, u)
  PROVE  /\ u \in Tall(sl, S, l) \cup {head} /\ u \in Nodes
         /\ \A y \in Tall(sl, S, l) : y \in right <=> r[y] <= r[u]
         /\ nx[u][l] = NIL \/ nx[u][l] \in Tall(sl, S, l) \ right
<1> DEFINE T == Tall(sl, S, l)
           m == nx[u][l]
<1>1. u \in (T \cap right) \cup {head} /\ m \notin right
  BY DEF Turn
<1>2. Follows(T, r, r[u], m)
  BY <1>1 DEF Skip
<1>3. T \subseteq S /\ NIL \notin T /\ r[u] \in Nat /\ (\A y \in T : r[y] \in Nat \ {0})
      /\ r[head] = 0
  <2>1. u \in T \cup {head}
    BY <1>1
  <2> QED BY <2>1, SkipParts
<1>4. ASSUME NEW y \in T PROVE y \in right <=> r[y] <= r[u]
  <2>1. ASSUME r[y] <= r[u] PROVE y \in right
    <3>1. u \in T /\ u \in right
      BY <1>1, <1>3, <2>1
    <3>2. r[y] = r[u] => y = u
      BY <1>3, <3>1, SkipParts DEF Ranked
    <3> QED BY <1>3, <2>1, <3>1, <3>2 DEF LeftPart
  <2>2. ASSUME y \in right, ~(r[y] <= r[u]) PROVE FALSE
    <3>1. m # NIL
      BY <1>2, <2>2 DEF Follows
    <3>2. m \in T /\ r[m] <= r[y]
      BY <1>2, <2>2, <3>1 DEF Follows
    <3>3. m = y
      BY <1>1, <1>3, <2>2, <3>2, SkipParts DEF Ranked, LeftPart
    <3> QED BY <1>1, <2>2, <3>3
  <2> QED BY <2>1, <2>2
<1>5. m = NIL \/ m \in T \ right
  BY <1>1, <1>2 DEF Follows
<1>6. u \in Nodes
  BY <1>1, <1>3, SomeIds, SkipParts
<1> QED BY <1>1, <1>4, <1>5, <1>6

(* insert_slot puts a slot into every row it is tall enough for, behind     *)
(* what the search went past.                                              *)
Within(nx, ny, nodes) == Links(ny) /\ \A n \in Nodes \ nodes : ny[n] = nx[n]
Joined(S, head, r, sl, ny, x, right, q) ==
  /\ Skip(S \cup {x}, head, q, sl, ny) /\ InOrder(S, r, q)
  /\ \A y \in S : y \in right <=> q[y] < q[x]
LEMMA SkipInserted ==
  ASSUME NEW S, NEW head, NEW r, NEW sl, NEW nx, Skip(S, head, r, sl, nx), Links(nx),
         NEW right \in SUBSET Ids, LeftPart(S, r, right),
         NEW update \in [SkipLevels -> Nodes],
         \A l \in SkipLevels : Turn(S, head, sl, nx, right, l, update[l]),
         NEW x \in Ids, x \notin S, sl[x].level \in SkipLevels
  PROVE  /\ Within(nx, Linked(sl, nx, x, update), S \cup {head, x})
         /\ \E q : Joined(S, head, r, sl, Linked(sl, nx, x, update), x, right, q)
<1> DEFINE ny == Linked(sl, nx, x, update)
           k == r[update[0]]
           q == [n \in Nodes |-> IF n = x THEN k + 1 ELSE IF r[n] <= k THEN r[n] ELSE r[n] + 1]
           T(l) == Tall(sl, S, l)
<1>1. /\ S \subseteq Ids /\ head \in Nodes \ Ids /\ head \notin S /\ NIL \notin S
      /\ r \in [Nodes -> Nat] /\ r[head] = 0 /\ Ranked(S, r)
      /\ \A y \in S : sl[y].level \in SkipLevels /\ r[y] \in Nat \ {0}
  BY SkipParts
<1>2. x # head /\ x # NIL /\ x \in Nodes
  BY <1>1, SomeIds
<1>3. \A l \in SkipLevels :
        /\ update[l] \in T(l) \cup {head} /\ update[l] \in Nodes
        /\ \A y \in T(l) : y \in right <=> r[y] <= r[update[l]]
        /\ nx[update[l]][l] = NIL \/ nx[update[l]][l] \in T(l) \ right
        /\ update[l] \in right \cup {head}
  BY TurnsBefore DEF Turn
<1>4. \A y \in S : y \in right <=> r[y] <= k
  BY <1>3, SkipParts, SomeIds
<1>5. k \in Nat /\ q \in [Nodes -> Nat] /\ q[head] = 0 /\ q[x] = k + 1
      /\ \A y \in S : q[y] = IF r[y] <= k THEN r[y] ELSE r[y] + 1
  <2>1. k \in Nat
    BY <1>1, <1>3, SomeIds
  <2>2. q \in [Nodes -> Nat]
    BY <1>1, <2>1
  <2>3. q[head] = 0
    BY <1>1, <1>2, <2>1
  <2>4. \A y \in S : y # x /\ y \in Nodes
    BY <1>1, SomeIds
  <2> QED BY <1>2, <2>1, <2>2, <2>3, <2>4
<1> HIDE DEF k, q
<1>6. InOrder(S, r, q) /\ Ranked(S \cup {x}, q) /\ Ranked(S, q)
  <2>1. \A y \in S : r[y] \in Nat \ {0}
    BY <1>1
  <2>2. InOrder(S, r, q)
    BY <1>5, <2>1 DEF InOrder
  <2>3. \A y \in S : q[y] \in Nat \ {0} /\ q[y] # k + 1
    BY <1>5, <2>1
  <2>4. \A y, z \in S : q[y] = q[z] => r[y] = r[z]
    BY <1>5, <2>1
  <2>5. \A y, z \in S : q[y] = q[z] => y = z
    BY <1>1, <2>4 DEF Ranked
  <2> QED BY <1>5, <2>2, <2>3, <2>5 DEF Ranked
<1>7. \A y \in S : y \in right <=> q[y] < q[x]
  BY <1>1, <1>4, <1>5
<1>8. Skip(S, head, q, sl, nx)
  BY <1>5, <1>6, SkipReranked
<1>9. \A l \in SkipLevels, n \in Nodes :
        ny[n][l] = IF l > sl[x].level THEN nx[n][l]
                   ELSE IF n = x THEN nx[update[l]][l]
                   ELSE IF n = update[l] THEN x ELSE nx[n][l]
  <2>1. \A l \in SkipLevels : (l > sl[x].level) <=> ~(l <= sl[x].level)
    BY SkipListAssumption DEF SkipLevels
  <2> QED BY <2>1 DEF Linked
<1>10. Links(ny)
  <2>1. ny = [n \in Nodes |-> [l \in SkipLevels |-> ny[n][l]]]
    BY DEF Linked
  <2>2. ASSUME NEW l \in SkipLevels, NEW n \in Nodes PROVE ny[n][l] \in Ids \cup {NIL}
    <3>1. nx[n][l] \in Ids \cup {NIL} /\ nx[update[l]][l] \in Ids \cup {NIL}
      BY <1>3 DEF Links
    <3> QED BY <1>9, <3>1
  <2> HIDE DEF ny
  <2> QED BY <2>1, <2>2 DEF Links
<1>11. ASSUME NEW n \in Nodes \ (S \cup {head, x}) PROVE ny[n] = nx[n]
  <2>1. \A l \in SkipLevels : update[l] # n
    BY <1>3, <1>11 DEF Tall
  <2>2. \A l \in SkipLevels : ny[n][l] = nx[n][l]
    BY <1>9, <1>11, <2>1
  <2>3. ny[n] \in [SkipLevels -> Ids \cup {NIL}] /\ nx[n] \in [SkipLevels -> Ids \cup {NIL}]
    BY <1>10 DEF Links
  <2> HIDE DEF ny
  <2> QED BY <2>2, <2>3
<1> HIDE DEF ny
<1>12. ASSUME NEW l \in SkipLevels, NEW n \in Tall(sl, S \cup {x}, l) \cup {head}
       PROVE  Follows(Tall(sl, S \cup {x}, l), q, q[n], ny[n][l])
  <2>1. n \in Nodes
    BY <1>1, <1>2, <1>12, SomeIds DEF Tall
  <2>2. CASE l > sl[x].level
    <3>1. Tall(sl, S \cup {x}, l) = T(l)
      BY <2>2, SkipListAssumption DEF Tall, SkipLevels
    <3> QED BY <1>8, <1>9, <1>12, <2>1, <2>2, <3>1 DEF Skip
  <2>3. CASE ~(l > sl[x].level)
    <3>1. Tall(sl, S \cup {x}, l) = T(l) \cup {x}
      BY <2>3, SkipListAssumption DEF Tall, SkipLevels
    <3> DEFINE u == update[l]
               m == nx[u][l]
    <3>2. u \in T(l) \cup {head} /\ (m = NIL \/ m \in T(l) \ right) /\ u \in right \cup {head}
      BY <1>3
    <3>3. T(l) \subseteq S /\ NIL \notin T(l) /\ q[u] \in Nat /\ Rank(T(l), q, q[u])
      BY <1>8, <3>2, SkipParts
    <3>4. Follows(T(l), q, q[u], m)
      BY <1>8, <3>2 DEF Skip
    <3>5. q[u] < q[x]
      BY <1>5, <1>7, <3>2, <3>3
    <3>6. m = NIL \/ q[x] < q[m]
      <4>1. ASSUME m \in T(l) \ right PROVE q[x] < q[m]
        <5>1. m \in S /\ m \notin right
          BY <3>3, <4>1
        <5>2. ~(q[m] < q[x]) /\ q[m] # q[x] /\ q[m] \in Nat /\ q[x] \in Nat
          BY <1>6, <1>7, <5>1 DEF Ranked
        <5> QED BY <5>2
      <4> QED BY <3>2, <4>1
    <3>7. Ranked(T(l) \cup {x}, q) /\ x \notin T(l)
      BY <1>6, <3>3 DEF Ranked
    <3> HIDE DEF u, m
    <3> DEFINE R == T(l)
    <3>8. /\ Follows(R \cup {x}, q, q[u], x) /\ Follows(R \cup {x}, q, q[x], m)
          /\ \A j \in Nat : \A i : j # q[u] /\ Rank(R, q, j) /\ Follows(R, q, j, i)
                               => Follows(R \cup {x}, q, j, i)
      <4> HIDE DEF R
      <4> QED BY <1>2, <3>3, <3>4, <3>5, <3>6, <3>7, FollowsInserted DEF R
    <3>9. CASE n = x
      BY <1>9, <2>1, <2>3, <3>1, <3>8, <3>9 DEF u, m
    <3>10. CASE n # x /\ n = u
      BY <1>9, <2>1, <2>3, <3>1, <3>8, <3>10 DEF u
    <3>11. CASE n # x /\ n # u
      <4>1. n \in R \cup {head}
        BY <1>12, <3>1, <3>11
      <4>2. q[n] \in Nat /\ Rank(R, q, q[n]) /\ Follows(R, q, q[n], nx[n][l])
        <5>1. Follows(R, q, q[n], nx[n][l])
          BY <1>8, <4>1 DEF Skip
        <5>2. q[n] \in Nat /\ Rank(R, q, q[n])
          BY <1>8, <4>1, SkipParts
        <5> QED BY <5>1, <5>2
      <4>3. q[n] # q[u]
        <5>1. \A y \in S : q[y] # 0
          BY <1>8, SkipParts
        <5> QED BY <1>1, <1>5, <1>6, <3>2, <3>3, <3>11, <4>1, <5>1 DEF Ranked
      <4>4. ny[n][l] = nx[n][l]
        BY <1>9, <2>1, <2>3, <3>11 DEF u
      <4>5. Follows(R \cup {x}, q, q[n], nx[n][l])
        BY <3>8, <4>2, <4>3
      <4> QED BY <3>1, <4>4, <4>5
    <3> QED BY <3>9, <3>10, <3>11
  <2> QED BY <2>2, <2>3
<1>13. Skip(S \cup {x}, head, q, sl, ny)
  <2>1. \A y \in S \cup {x} : sl[y].level \in SkipLevels
    BY <1>1
  <2> QED BY <1>1, <1>5, <1>6, <1>12, <2>1 DEF Skip
<1>14. Within(nx, ny, S \cup {head, x})
  BY <1>10, <1>11 DEF Within
<1> QED BY <1>6, <1>7, <1>13, <1>14 DEF Joined, ny

(* remove_slot takes a slot that the search came to out of all its rows.    *)
LEMMA SkipRemoved ==
  ASSUME NEW S, NEW head, NEW r, NEW sl, NEW nx, Skip(S, head, r, sl, nx), Links(nx),
         NEW right \in SUBSET Ids, LeftPart(S, r, right),
         NEW update \in [SkipLevels -> Nodes],
         \A l \in SkipLevels : Turn(S, head, sl, nx, right, l, update[l]),
         NEW x \in S, x \notin right, nx[update[0]][0] = x
  PROVE  LET removed == RemoveSlot(nx, x, update) IN
         /\ removed.ok /\ Within(nx, removed.next, S \cup {head})
         /\ Skip(S \ {x}, head, r, sl, removed.next)
<1> DEFINE ny == RemoveSlot(nx, x, update).next
           leads == {l \in SkipLevels : \A i \in 0 .. l : nx[update[i]][i] = x}
           T(l) == Tall(sl, S, l)
<1>1. /\ S \subseteq Ids /\ head \in Nodes \ Ids /\ head \notin S /\ NIL \notin S
      /\ r \in [Nodes -> Nat] /\ r[head] = 0 /\ Ranked(S, r)
      /\ \A y \in S : sl[y].level \in SkipLevels /\ r[y] \in Nat \ {0}
  BY SkipParts
<1>2. \A l \in SkipLevels :
        /\ update[l] \in T(l) \cup {head} /\ update[l] \in Nodes
        /\ \A y \in T(l) : y \in right <=> r[y] <= r[update[l]]
        /\ nx[update[l]][l] = NIL \/ nx[update[l]][l] \in T(l) \ right
        /\ update[l] \in right \cup {head} /\ update[l] # x
  <2>1. x # head
    BY <1>1
  <2> QED BY <2>1, TurnsBefore DEF Turn
<1>3. \A y \in S \ right : r[x] <= r[y]
  <2>1. Follows(T(0), r, r[update[0]], x)
    BY <1>2, SomeIds DEF Skip
  <2>2. T(0) = S
    BY SkipParts
  <2>3. ASSUME NEW y \in S \ right PROVE r[x] <= r[y]
    <3>1. ~(r[y] <= r[update[0]])
      BY <1>2, <2>2, SomeIds
    <3> QED BY <1>1, <2>1, <2>2, <3>1 DEF Follows
  <2> QED BY <2>3
<1>4. ASSUME NEW l \in SkipLevels PROVE nx[update[l]][l] = x <=> sl[x].level >= l
  <2> DEFINE u == update[l]
             m == nx[u][l]
  <2>1. Follows(T(l), r, r[u], m)
    BY <1>2 DEF Skip
  <2>2. ASSUME x \in T(l) PROVE m = x
    <3>1. ~(r[x] <= r[u])
      BY <1>2, <2>2
    <3>2. m \in T(l) \ right /\ r[m] <= r[x]
      BY <1>2, <2>1, <2>2, <3>1 DEF Follows
    <3>3. m \in S \ right /\ r[m] \in Nat /\ r[x] \in Nat
      BY <1>1, <3>2 DEF Tall
    <3>4. r[m] = r[x]
      BY <1>3, <3>2, <3>3
    <3> QED BY <1>1, <3>3, <3>4 DEF Ranked
  <2>3. m = x => x \in T(l)
    BY <1>1, <1>2
  <2>4. x \in T(l) <=> sl[x].level >= l
    BY DEF Tall
  <2> QED BY <2>2, <2>3, <2>4
<1>5. \A l \in SkipLevels : l \in leads <=> sl[x].level >= l
  <2>1. \A l \in SkipLevels : 0 .. l \subseteq SkipLevels /\ l \in Nat /\ l \in 0 .. l
    BY SkipListAssumption DEF SkipLevels
  <2>2. sl[x].level \in Nat
    BY <1>1, <2>1
  <2>3. ASSUME NEW l \in SkipLevels, sl[x].level >= l PROVE l \in leads
    <3>1. \A i \in 0 .. l : i \in SkipLevels /\ sl[x].level >= i
      BY <2>1, <2>2, <2>3
    <3> QED BY <1>4, <3>1
  <2>4. ASSUME NEW l \in leads PROVE sl[x].level >= l
    BY <1>4, <2>1
  <2> QED BY <2>3, <2>4
<1>6. 0 \in leads /\ RemoveSlot(nx, x, update).ok
  <2>1. 0 \in leads
    BY <1>1, <1>5, SomeIds, SkipListAssumption DEF SkipLevels
  <2> QED BY <2>1 DEF RemoveSlot
<1>7. \A l \in SkipLevels, n \in Nodes :
        ny[n][l] = IF sl[x].level >= l /\ n = update[l] THEN nx[x][l] ELSE nx[n][l]
  <2>1. \A l \in SkipLevels, n \in Nodes :
          ny[n][l] = IF l \in leads /\ n = update[l] THEN nx[x][l] ELSE nx[n][l]
    BY DEF RemoveSlot
  <2> HIDE DEF ny, leads
  <2> QED BY <1>5, <2>1
<1>8. Links(ny)
  <2>1. ny = [n \in Nodes |-> [l \in SkipLevels |-> ny[n][l]]]
    BY DEF RemoveSlot
  <2>2. ASSUME NEW l \in SkipLevels, NEW n \in Nodes PROVE ny[n][l] \in Ids \cup {NIL}
    <3>1. nx[n][l] \in Ids \cup {NIL} /\ nx[x][l] \in Ids \cup {NIL}
      BY <1>1, SomeIds DEF Links
    <3> HIDE DEF ny
    <3> QED BY <1>7, <3>1
  <2> HIDE DEF ny
  <2> QED BY <2>1, <2>2 DEF Links
<1> HIDE DEF ny, leads
<1>9. ASSUME NEW n \in Nodes \ (S \cup {head}) PROVE ny[n] = nx[n]
  <2>1. \A l \in SkipLevels : update[l] # n
    BY <1>2, <1>9 DEF Tall
  <2>2. \A l \in SkipLevels : ny[n][l] = nx[n][l]
    BY <1>7, <1>9, <2>1
  <2>3. ny[n] \in [SkipLevels -> Ids \cup {NIL}] /\ nx[n] \in [SkipLevels -> Ids \cup {NIL}]
    BY <1>8 DEF Links
  <2> QED BY <2>2, <2>3
<1>10. ASSUME NEW l \in SkipLevels, NEW n \in Tall(sl, S \ {x}, l) \cup {head}
       PROVE  Follows(Tall(sl, S \ {x}, l), r, r[n], ny[n][l])
  <2>1. n \in Nodes /\ n # x
    BY <1>1, <1>10, SomeIds DEF Tall
  <2>2. n \in T(l) \cup {head} /\ Tall(sl, S \ {x}, l) = T(l) \ {x}
    BY <1>10 DEF Tall
  <2>3. Follows(T(l), r, r[n], nx[n][l])
    BY <2>2 DEF Skip
  <2>4. CASE ~(sl[x].level >= l)
    <3>1. T(l) \ {x} = T(l)
      BY <2>4 DEF Tall
    <3> QED BY <1>7, <2>1, <2>2, <2>3, <2>4, <3>1
  <2>5. CASE sl[x].level >= l
    <3> DEFINE u == update[l]
               R == T(l)
    <3>1. x \in R /\ R \subseteq S /\ NIL \notin R /\ Ranked(R, r) /\ r[u] \in Nat
          /\ r[n] \in Nat /\ u \in R \cup {head}
      <4>1. x \in R
        BY <2>5 DEF Tall
      <4> QED BY <1>2, <2>2, <4>1, SkipParts
    <3>2. Follows(R, r, r[u], x) /\ Follows(R, r, r[x], nx[x][l])
      BY <1>2, <1>4, <2>5, <3>1 DEF Skip
    <3> HIDE DEF u, R
    <3>3. /\ Follows(R \ {x}, r, r[u], nx[x][l])
          /\ \A j \in Nat : \A i : i # x /\ Follows(R, r, j, i) => Follows(R \ {x}, r, j, i)
      BY <3>1, <3>2, FollowsRemoved
    <3>4. CASE n = u
      BY <1>7, <2>1, <2>2, <2>5, <3>3, <3>4 DEF u, R
    <3>5. CASE n # u
      <4>1. nx[n][l] # x
        <5> SUFFICES ASSUME nx[n][l] = x PROVE FALSE
          OBVIOUS
        <5>1. Follows(R, r, r[n], x)
          BY <2>3 DEF R
        <5>2. r[n] < r[x] /\ r[u] < r[x] /\ r[x] \in Nat
          BY <1>1, <3>1, <3>2, <5>1 DEF Follows
        <5>3. r[n] = r[u]
          <6>1. CASE n \in R /\ u \in R
            <7>1. r[n] <= r[u] /\ r[u] <= r[n]
              BY <1>1, <3>1, <3>2, <5>1, <5>2, <6>1 DEF Follows
            <7> QED BY <3>1, <7>1
          <6>2. CASE n = head \/ u = head
            BY <1>1, <2>2, <3>1, <3>2, <5>1, <5>2, <6>2 DEF Follows, R
          <6> QED BY <2>2, <3>1, <6>1, <6>2 DEF R
        <5> QED BY <1>1, <2>2, <3>1, <3>5, <5>3 DEF Ranked, R
      <4>2. Follows(R \ {x}, r, r[n], nx[n][l])
        BY <2>3, <3>1, <3>3, <4>1 DEF R
      <4> QED BY <1>7, <2>1, <2>2, <3>5, <4>2 DEF u, R
    <3> QED BY <3>4, <3>5
  <2> QED BY <2>4, <2>5
<1>11. Skip(S \ {x}, head, r, sl, ny)
  BY <1>1, <1>10 DEF Skip, Ranked
<1> QED BY <1>6, <1>8, <1>9, <1>11 DEF Within, ny

-----------------------------------------------------------------------------
(* The two lists: one by address, one by size with the latest first.        *)
SlotType == [level : SkipLevels, mem : Nat, size : Nat, flag : {"none", "USER", "ADMIN", "FREE"}]
ByAddress(sl) == [n \in Nodes |-> IF n \in Ids THEN sl[n].mem ELSE 0]
BySize(S, r, sl) == \A x, y \in S : r[x] < r[y] => sl[x].size <= sl[y].size

LEMMA SlotFields ==
  ASSUME NEW sl \in [Ids -> SlotType], NEW x \in Ids
  PROVE  /\ sl[x].level \in SkipLevels /\ sl[x].mem \in Nat /\ sl[x].size \in Nat
         /\ sl[x].flag \in {"none", "USER", "ADMIN", "FREE"}
         /\ ByAddress(sl) \in [Nodes -> Nat] /\ ByAddress(sl)[x] = sl[x].mem
         /\ ByAddress(sl)[AddressList] = 0
<1>1. \A y \in Ids : sl[y] \in SlotType
  OBVIOUS
<1>2. \A y \in Ids : sl[y].mem \in Nat
  BY <1>1 DEF SlotType
<1> QED BY <1>1, <1>2, SomeIds DEF SlotType, ByAddress

LEMMA AddressInserted ==
  ASSUME NEW sl \in [Ids -> SlotType], NEW nx, Links(nx),
         NEW S, Skip(S, AddressList, ByAddress(sl), sl, nx),
         NEW x \in Ids, x \notin S, sl[x].mem > 0, \A y \in S : sl[y].mem # sl[x].mem
  PROVE  LET inserted == InsertSlot(sl, nx, x, AddressList) IN
         /\ inserted.ok /\ Within(nx, inserted.next, S \cup {AddressList, x})
         /\ Skip(S \cup {x}, AddressList, ByAddress(sl), sl, inserted.next)
<1> DEFINE a == sl[x].mem
           r == ByAddress(sl)
           match == {n \in Ids : sl[n].mem = a} \cup {}
           right == {n \in Ids : sl[n].mem < a} \ match
           t == Search(nx, AddressList, right, match)
<1>1. S \subseteq Ids /\ Ranked(S, r) /\ \A y \in Ids : r[y] = sl[y].mem /\ sl[y].mem \in Nat
  BY SlotFields, SkipParts
<1>2. FindAddress(sl, nx, AddressList, a, TRUE) = t
  BY DEF FindAddress
<1>3. match \in SUBSET Ids /\ right \in SUBSET Ids
  OBVIOUS
<1>4. \A y \in S : y \notin match /\ (y \in right <=> r[y] < a)
  BY <1>1
<1>5. LeftPart(S, r, right)
  BY <1>1, <1>4 DEF LeftPart
<1> HIDE DEF match, right
<1>6. Turned(S, AddressList, sl, nx, right, match, t)
  BY <1>3, SearchTurns
<1>7. t.found = NIL
  BY <1>4, <1>6 DEF Turned, Hit
<1>8. InsertSlot(sl, nx, x, AddressList) = [ok |-> TRUE, next |-> Linked(sl, nx, x, t.update)]
  BY <1>2, <1>7, SomeIds DEF InsertSlot
<1>9. PICK q : /\ Joined(S, AddressList, r, sl, Linked(sl, nx, x, t.update), x, right, q)
               /\ Within(nx, Linked(sl, nx, x, t.update), S \cup {AddressList, x})
  <2>1. sl[x].level \in SkipLevels
    BY SlotFields
  <2>2. /\ t.update \in [SkipLevels -> Nodes]
        /\ \A l \in SkipLevels : Turn(S, AddressList, sl, nx, right, l, t.update[l])
    BY <1>6 DEF Turned
  <2> HIDE DEF t, r
  <2> QED BY <1>3, <1>5, <2>1, <2>2, SkipInserted DEF r
<1>10. Ranked(S \cup {x}, r) /\ InOrder(S \cup {x}, q, r) /\ r \in [Nodes -> Nat]
       /\ r[AddressList] = 0
  <2>1. r \in [Nodes -> Nat] /\ r[AddressList] = 0
    BY SlotFields
  <2>2. r[x] = a /\ a \in Nat \ {0} /\ \A y \in S : r[y] # r[x]
    BY <1>1
  <2>3. Ranked(S \cup {x}, r)
    BY <1>1, <2>2 DEF Ranked
  <2>4. \A y \in S : (r[y] < r[x] <=> q[y] < q[x]) /\ q[y] \in Nat /\ q[x] \in Nat
    BY <1>1, <1>4, <1>9 DEF Joined, Skip, Ranked
  <2>5. \A y, z \in S : r[y] < r[z] => q[y] < q[z]
    BY <1>9 DEF Joined, InOrder
  <2>6. \A y, z \in S : q[y] < q[z] => r[y] < r[z]
    <3> SUFFICES ASSUME NEW y \in S, NEW z \in S, q[y] < q[z] PROVE r[y] < r[z]
      OBVIOUS
    <3>1. r[y] # r[z]
      BY <1>1, <2>4 DEF Ranked
    <3> QED BY <1>1, <2>4, <2>5, <3>1
  <2>7. \A y \in S : q[x] < q[y] => r[x] < r[y]
    BY <1>1, <2>2, <2>4
  <2>8. ~(q[x] < q[x])
    BY <1>9 DEF Joined, Skip, Ranked
  <2> QED BY <2>1, <2>3, <2>4, <2>6, <2>7, <2>8 DEF InOrder
<1>11. Skip(S \cup {x}, AddressList, r, sl, Linked(sl, nx, x, t.update))
  BY <1>9, <1>10, SkipReranked DEF Joined
<1> QED BY <1>8, <1>9, <1>11

LEMMA SizeInserted ==
  ASSUME NEW sl \in [Ids -> SlotType], NEW nx, Links(nx),
         NEW S, NEW r, Skip(S, SizeList, r, sl, nx), BySize(S, r, sl),
         NEW x \in Ids, x \notin S
  PROVE  LET inserted == InsertSlot(sl, nx, x, SizeList) IN
         /\ inserted.ok /\ Within(nx, inserted.next, S \cup {SizeList, x})
         /\ \E q : /\ Skip(S \cup {x}, SizeList, q, sl, inserted.next)
                   /\ BySize(S \cup {x}, q, sl)
                   /\ InOrder(S, r, q)
                   /\ \A y \in S : sl[y].size < sl[x].size <=> q[y] < q[x]
<1> DEFINE a == sl[x].size
           match == {n \in Ids : sl[n].size = a}
           right == {n \in Ids : sl[n].size < a}
           t == Search(nx, SizeList, right, match)
<1>1. S \subseteq Ids /\ Ranked(S, r) /\ \A y \in Ids : sl[y].size \in Nat
  BY SlotFields, SkipParts
<1>2. FindFreeSize(sl, nx, a) = t
  BY DEF FindFreeSize
<1>3. match \in SUBSET Ids /\ right \in SUBSET Ids
  OBVIOUS
<1>4. \A y \in S : y \in right <=> sl[y].size < a
  BY <1>1
<1>5. LeftPart(S, r, right)
  BY <1>1, <1>4 DEF LeftPart, BySize
<1> HIDE DEF match, right
<1>6. Turned(S, SizeList, sl, nx, right, match, t)
  BY <1>3, SearchTurns
<1>8. InsertSlot(sl, nx, x, SizeList) = [ok |-> TRUE, next |-> Linked(sl, nx, x, t.update)]
  BY <1>2, SomeIds DEF InsertSlot
<1>9. PICK q : /\ Joined(S, SizeList, r, sl, Linked(sl, nx, x, t.update), x, right, q)
               /\ Within(nx, Linked(sl, nx, x, t.update), S \cup {SizeList, x})
  <2>1. sl[x].level \in SkipLevels
    BY SlotFields
  <2>2. /\ t.update \in [SkipLevels -> Nodes]
        /\ \A l \in SkipLevels : Turn(S, SizeList, sl, nx, right, l, t.update[l])
    BY <1>6 DEF Turned
  <2> HIDE DEF t
  <2> QED BY <1>3, <1>5, <2>1, <2>2, SkipInserted
<1>10. BySize(S \cup {x}, q, sl)
  <2>1. \A y \in S \cup {x} : q[y] \in Nat /\ r[y] \in Nat
    BY <1>1, <1>9, SomeIds DEF Joined, Skip, Ranked
  <2>2. \A y, z \in S : q[y] < q[z] => sl[y].size <= sl[z].size
    <3> SUFFICES ASSUME NEW y \in S, NEW z \in S, q[y] < q[z] PROVE sl[y].size <= sl[z].size
      OBVIOUS
    <3>1. r[y] < r[z] => sl[y].size <= sl[z].size
      BY DEF BySize
    <3>2. ~(r[z] < r[y])
      BY <1>9, <2>1 DEF Joined, InOrder
    <3>3. r[y] = r[z] => y = z
      BY <1>1 DEF Ranked
    <3> QED BY <1>1, <2>1, <3>1, <3>2, <3>3
  <2>3. \A y \in S : sl[y].size < sl[x].size <=> q[y] < q[x]
    BY <1>4, <1>9 DEF Joined
  <2>4. \A y \in S : q[x] < q[y] => sl[x].size <= sl[y].size
    BY <1>1, <2>1, <2>3
  <2>5. \A y \in S : q[y] < q[x] => sl[y].size <= sl[x].size
    BY <1>1, <2>3
  <2> QED BY <1>1, <2>2, <2>4, <2>5 DEF BySize
<1>11. \A y \in S : sl[y].size < sl[x].size <=> q[y] < q[x]
  BY <1>4, <1>9 DEF Joined
<1> QED BY <1>8, <1>9, <1>10, <1>11 DEF Joined

-----------------------------------------------------------------------------
(* What the searches find. *)
MemoryOf(sl, x) == Extent(sl[x].mem, sl[x].size)
Placed(sl, S) ==
  /\ \A x \in S : sl[x].mem > 0 /\ sl[x].size > 0
  /\ \A x, y \in S : x # y => Apart(MemoryOf(sl, x), MemoryOf(sl, y))
Holds(sl, x, a) == sl[x].mem <= a /\ a < sl[x].mem + sl[x].size

(* A search that came to x: x is out of its way, and next on the list.      *)
CameTo(S, head, r, sl, nx, right, t, x) ==
  /\ right \in SUBSET Ids /\ LeftPart(S, r, right)
  /\ t.update \in [SkipLevels -> Nodes]
  /\ \A l \in SkipLevels : Turn(S, head, sl, nx, right, l, t.update[l])
  /\ x \in S /\ x \notin right /\ nx[t.update[0]][0] = x

LEMMA FirstPast ==
  ASSUME NEW S, NEW head, NEW r, NEW sl, NEW nx, Skip(S, head, r, sl, nx),
         NEW right \in SUBSET Ids, LeftPart(S, r, right),
         NEW u, Turn(S, head, sl, nx, right, 0, u), NEW x \in S \ right
  PROVE  nx[u][0] \in S \ right /\ r[nx[u][0]] <= r[x]
<1>1. Tall(sl, S, 0) = S /\ 0 \in SkipLevels
  BY SkipParts, SomeIds
<1>2. /\ u \in S \cup {head} /\ \A y \in S : y \in right <=> r[y] <= r[u]
      /\ nx[u][0] = NIL \/ nx[u][0] \in S \ right
  BY <1>1, TurnsBefore
<1>3. Follows(S, r, r[u], nx[u][0])
  BY <1>1, <1>2 DEF Skip
<1> QED BY <1>2, <1>3 DEF Follows

LEMMA SizeFound ==
  ASSUME NEW sl \in [Ids -> SlotType], NEW nx, Links(nx),
         NEW S, NEW r, Skip(S, SizeList, r, sl, nx), BySize(S, r, sl), NEW a \in Nat
  PROVE  LET t == FindFreeSize(sl, nx, a) IN
         IF t.found = NIL THEN \A x \in S : sl[x].size # a
         ELSE /\ t.found \in S /\ sl[t.found].size = a
              /\ \E right : CameTo(S, SizeList, r, sl, nx, right, t, t.found)
              /\ \A y \in S : sl[y].size = a => r[t.found] <= r[y]
<1> DEFINE match == {n \in Ids : sl[n].size = a}
           right == {n \in Ids : sl[n].size < a}
           t == Search(nx, SizeList, right, match)
           m == nx[t.update[0]][0]
<1>1. S \subseteq Ids /\ Ranked(S, r) /\ \A y \in Ids : sl[y].size \in Nat
  BY SlotFields, SkipParts
<1>2. FindFreeSize(sl, nx, a) = t
  BY DEF FindFreeSize
<1>3. match \in SUBSET Ids /\ right \in SUBSET Ids
  OBVIOUS
<1>4. \A y \in S : (y \in right <=> sl[y].size < a) /\ (y \in match <=> sl[y].size = a)
  BY <1>1
<1>5. LeftPart(S, r, right)
  BY <1>1, <1>4 DEF LeftPart, BySize
<1> HIDE DEF match, right
<1>6. Turned(S, SizeList, sl, nx, right, match, t)
  BY <1>3, SearchTurns
<1> HIDE DEF t
<1>7. ASSUME NEW x \in S, sl[x].size = a
      PROVE  m \in S \ right /\ m \in match /\ t.found = m /\ r[m] <= r[x]
  <2>1. x \in S \ right
    BY <1>1, <1>4, <1>7
  <2>2. m \in S \ right /\ r[m] <= r[x]
    BY <1>3, <1>5, <1>6, <2>1, SomeIds, FirstPast DEF Turned
  <2>3. sl[m].size <= sl[x].size
    <3>1. r[m] = r[x] => m = x
      BY <1>1, <2>2 DEF Ranked
    <3>2. r[m] \in Nat /\ r[x] \in Nat
      BY <1>1, <2>2 DEF Ranked
    <3>3. sl[m].size \in Nat /\ sl[x].size \in Nat
      BY <1>1, <2>2
    <3> QED BY <2>2, <3>1, <3>2, <3>3 DEF BySize
  <2>4. sl[m].size = a
    BY <1>1, <1>4, <1>7, <2>2, <2>3
  <2> QED BY <1>4, <1>6, <2>2, <2>4 DEF Turned
<1>8. CASE t.found = NIL
  BY <1>1, <1>2, <1>7, <1>8, SomeIds
<1>9. CASE t.found # NIL
  <2>1. t.found \in S /\ sl[t.found].size = a
    BY <1>4, <1>6, <1>9 DEF Turned, Hit
  <2>2. m = t.found /\ m \in S \ right
    BY <1>7, <2>1
  <2>3. CameTo(S, SizeList, r, sl, nx, right, t, t.found)
    BY <1>3, <1>5, <1>6, <2>1, <2>2 DEF CameTo, Turned
  <2>4. \A y \in S : sl[y].size = a => r[t.found] <= r[y]
    BY <1>7, <2>2
  <2> QED BY <1>2, <1>9, <2>1, <2>3, <2>4
<1> QED BY <1>8, <1>9

LEMMA AddressFound ==
  ASSUME NEW sl \in [Ids -> SlotType], NEW nx, Links(nx),
         NEW S, Skip(S, AddressList, ByAddress(sl), sl, nx), Placed(sl, S), NEW a \in Nat
  PROVE  LET t == FindAddress(sl, nx, AddressList, a, FALSE) IN
         IF t.found = NIL THEN \A x \in S : ~Holds(sl, x, a)
         ELSE /\ t.found \in S /\ Holds(sl, t.found, a)
              /\ \E right : CameTo(S, AddressList, ByAddress(sl), sl, nx, right, t, t.found)
<1> DEFINE within == {n \in Ids : sl[n].mem < a /\ a < sl[n].mem + sl[n].size}
           match == {n \in Ids : sl[n].mem = a} \cup within
           right == {n \in Ids : sl[n].mem < a} \ match
           t == Search(nx, AddressList, right, match)
           m == nx[t.update[0]][0]
           r == ByAddress(sl)
<1>1. /\ S \subseteq Ids /\ Ranked(S, r)
      /\ \A y \in Ids : r[y] = sl[y].mem /\ sl[y].mem \in Nat /\ sl[y].size \in Nat
  BY SlotFields, SkipParts
<1>2. FindAddress(sl, nx, AddressList, a, FALSE) = t
  BY DEF FindAddress
<1>3. match \in SUBSET Ids /\ right \in SUBSET Ids
  OBVIOUS
<1>4. \A y \in S : /\ y \in match <=> Holds(sl, y, a)
                   /\ y \in right <=> sl[y].mem < a /\ ~Holds(sl, y, a)
  <2>1. \A y \in S : y \in match <=> Holds(sl, y, a)
    BY <1>1 DEF Placed, Holds
  <2> HIDE DEF match
  <2> QED BY <1>1, <2>1
<1> HIDE DEF match, right, r
<1>5. \A y, z \in S : y # z => sl[y].mem + sl[y].size <= sl[z].mem \/ sl[z].mem + sl[z].size <= sl[y].mem
  BY DEF Placed, Apart, MemoryOf, Extent
<1>6. LeftPart(S, r, right)
  <2> SUFFICES ASSUME NEW y \in S, NEW z \in S, z \in right, r[y] < r[z] PROVE y \in right
    BY DEF LeftPart
  <2>1. sl[y].mem < sl[z].mem /\ sl[z].mem < a /\ y # z
    BY <1>1, <1>4
  <2>2. ~Holds(sl, y, a)
    BY <1>1, <1>5, <2>1 DEF Holds
  <2> QED BY <1>1, <1>4, <2>1, <2>2
<1>7. Turned(S, AddressList, sl, nx, right, match, t)
  BY <1>3, SearchTurns DEF r
<1> HIDE DEF t
<1>8. ASSUME NEW x \in S, Holds(sl, x, a) PROVE m = x /\ x \notin right /\ t.found = x
  <2>1. x \in S \ right
    BY <1>4, <1>8
  <2>2. m \in S \ right /\ r[m] <= r[x]
    <3>1. Turn(S, AddressList, sl, nx, right, 0, t.update[0])
      BY <1>7, SomeIds DEF Turned
    <3> QED BY <1>3, <1>6, <2>1, <3>1, FirstPast DEF r
  <2>3. m = x
    <3> SUFFICES ASSUME m # x PROVE FALSE
      OBVIOUS
    <3>1. m \in Ids /\ x \in Ids /\ m \in S
      BY <1>1, <2>2
    <3>2. sl[m].mem <= sl[x].mem /\ sl[m].size > 0 /\ sl[x].size > 0
      BY <1>1, <2>2, <3>1 DEF Placed
    <3>3. sl[m].mem + sl[m].size <= sl[x].mem
      <4>1. sl[m].mem \in Nat /\ sl[m].size \in Nat /\ sl[x].mem \in Nat /\ sl[x].size \in Nat
        BY <1>1, <3>1
      <4>2. sl[m].mem + sl[m].size <= sl[x].mem \/ sl[x].mem + sl[x].size <= sl[m].mem
        BY <1>5, <3>1
      <4> QED BY <3>2, <4>1, <4>2
    <3>4. sl[m].mem < a
      BY <1>1, <1>8, <3>1, <3>2, <3>3 DEF Holds
    <3>5. Holds(sl, m, a)
      BY <1>4, <2>2, <3>4
    <3> QED BY <1>1, <1>8, <3>1, <3>3, <3>5 DEF Holds
  <2>4. m \in match
    BY <1>4, <1>8, <2>3
  <2> QED BY <1>7, <2>1, <2>3, <2>4 DEF Turned
<1>9. CASE t.found = NIL
  BY <1>1, <1>2, <1>8, <1>9, SomeIds
<1>10. CASE t.found # NIL
  <2>1. t.found \in S /\ Holds(sl, t.found, a)
    BY <1>4, <1>7, <1>10 DEF Turned, Hit
  <2>2. m = t.found /\ m \notin right
    BY <1>8, <2>1
  <2>3. CameTo(S, AddressList, r, sl, nx, right, t, t.found)
    BY <1>3, <1>6, <1>7, <2>1, <2>2 DEF CameTo, Turned
  <2> QED BY <1>2, <1>10, <2>1, <2>3 DEF r
<1> QED BY <1>9, <1>10

LEMMA StrayFound ==
  ASSUME NEW sl, NEW nx, Links(nx), NEW S, NEW r, Skip(S, SizeList, r, sl, nx), NEW a
  PROVE  LET found == FindAddress(sl, nx, SizeList, a, FALSE).found IN
         found = NIL \/ (found \in S /\ (sl[found].mem = a \/ (sl[found].mem < a /\ a < sl[found].mem + sl[found].size)))
<1> DEFINE within == {n \in Ids : sl[n].mem < a /\ a < sl[n].mem + sl[n].size}
           match == {n \in Ids : sl[n].mem = a} \cup within
           right == {n \in Ids : sl[n].mem < a} \ match
           t == Search(nx, SizeList, right, match)
<1>1. FindAddress(sl, nx, SizeList, a, FALSE) = t
  BY DEF FindAddress
<1>2. match \in SUBSET Ids /\ right \in SUBSET Ids
  OBVIOUS
<1>3. \A n \in match : sl[n].mem = a \/ (sl[n].mem < a /\ a < sl[n].mem + sl[n].size)
  OBVIOUS
<1> HIDE DEF match, right
<1>4. Turned(S, SizeList, sl, nx, right, match, t)
  BY <1>2, SearchTurns
<1>5. Hit(S, right, match, t.found)
  BY <1>4 DEF Turned
<1> QED BY <1>1, <1>3, <1>5 DEF Hit

-----------------------------------------------------------------------------
(* Queues: the wait list and the unused slots, linked at level 0 alone.     *)
Queue(T, q, nx, front) ==
  /\ T \subseteq Ids /\ Ranked(T, q)
  /\ Follows(T, q, 0, front)
  /\ \A n \in T : Follows(T, q, q[n], nx[n][0])

LEMMA QueueFramed ==
  ASSUME NEW T, NEW q, NEW nx, NEW front, Queue(T, q, nx, front), NEW ny,
         \A n \in T : ny[n][0] = nx[n][0]
  PROVE  Queue(T, q, ny, front)
BY DEF Queue

LEMMA QueueFirst ==
  ASSUME NEW T, NEW q, NEW nx, NEW front, Queue(T, q, nx, front)
  PROVE  /\ front = NIL <=> T = {}
         /\ front # NIL => front \in T /\ Queue(T \ {front}, q, nx, nx[front][0])
         /\ front # NIL => \A n \in T : q[front] <= q[n]
<1>1. NIL \notin T /\ \A n \in T : q[n] \in Nat \ {0}
  BY SomeIds DEF Queue, Ranked
<1>2. front = NIL <=> T = {}
  BY <1>1 DEF Queue, Follows
<1>3. ASSUME front # NIL PROVE front \in T /\ Queue(T \ {front}, q, nx, nx[front][0])
  <2>1. front \in T
    BY <1>3 DEF Queue, Follows
  <2> DEFINE m == nx[front][0]
  <2>2. Follows(T, q, q[front], m)
    BY <2>1 DEF Queue
  <2> HIDE DEF m
  <2>3. /\ Follows(T \ {front}, q, 0, m)
        /\ \A j \in Nat : \A i : i # front /\ Follows(T, q, j, i) => Follows(T \ {front}, q, j, i)
    BY <1>1, <2>1, <2>2, FollowsRemoved DEF Queue
  <2>4. ASSUME NEW n \in T \ {front} PROVE Follows(T \ {front}, q, q[n], nx[n][0])
    <3>1. Follows(T, q, q[n], nx[n][0]) /\ q[n] \in Nat
      BY <1>1 DEF Queue
    <3>2. nx[n][0] # front
      <4> SUFFICES ASSUME nx[n][0] = front PROVE FALSE
        OBVIOUS
      <4>1. q[front] > q[n]
        BY <1>3, <3>1 DEF Follows
      <4>2. q[front] <= q[n]
        BY <1>1, <1>3 DEF Queue, Follows
      <4> QED BY <1>1, <2>1, <4>1, <4>2
    <3> QED BY <2>3, <3>1, <3>2
  <2>5. Ranked(T \ {front}, q) /\ T \ {front} \subseteq Ids
    BY DEF Queue, Ranked
  <2> QED BY <2>1, <2>3, <2>4, <2>5 DEF Queue, m
<1>4. ASSUME front # NIL, NEW n \in T PROVE q[front] <= q[n]
  BY <1>1, <1>4 DEF Queue, Follows
<1> QED BY <1>2, <1>3, <1>4

(* The wait list with its tail. *)
Waiting(W, q, nx, head, tail) ==
  /\ Queue(W, q, nx, head)
  /\ head # NIL => tail \in W /\ \A x \in W : q[x] <= q[tail]

PutLast(W, q, x, p) == InOrder(W, q, p) /\ \A y \in W : p[y] < p[x]
LEMMA WaitingAppended ==
  ASSUME NEW W, NEW q, NEW nx, NEW head, NEW tail, Waiting(W, q, nx, head, tail),
         NEW x \in Ids, x \notin W, NEW ny, ny[x][0] = NIL,
         head # NIL => ny[tail][0] = x,
         \A n \in W : n # tail => ny[n][0] = nx[n][0]
  PROVE  \E p : Waiting(W \cup {x}, p, ny, IF head = NIL THEN x ELSE head, x) /\ PutLast(W, q, x, p)
<1> DEFINE last == IF head = NIL THEN 0 ELSE q[tail]
           p == [n \in Ids |-> IF n = x THEN last + 1 ELSE q[n]]
<1>1. /\ W \subseteq Ids /\ Ranked(W, q) /\ NIL \notin W /\ x # NIL
      /\ \A n \in W : q[n] \in Nat \ {0}
  BY SomeIds DEF Waiting, Queue, Ranked
<1>2. head = NIL <=> W = {}
  BY QueueFirst DEF Waiting
<1>3. last \in Nat /\ \A n \in W : q[n] <= last
  BY <1>1, <1>2 DEF Waiting
<1>4. p[x] = last + 1 /\ \A n \in W : p[n] = q[n] /\ n # x
  BY <1>1
<1> HIDE DEF p
<1>5. Ranked(W \cup {x}, p) /\ Ranked(W, p) /\ InOrder(W, q, p)
  BY <1>1, <1>3, <1>4 DEF Ranked, InOrder
<1>6. \A n \in W : p[n] <= p[x] /\ p[n] < p[x]
  BY <1>1, <1>3, <1>4
<1>7. CASE head = NIL
  <2>1. W \cup {x} = {x}
    BY <1>2, <1>7
  <2>2. Follows({x}, p, 0, x) /\ Follows({x}, p, p[x], NIL)
    BY <1>1, <1>3, <1>4 DEF Follows
  <2>3. Queue(W \cup {x}, p, ny, x)
    BY <1>5, <2>1, <2>2 DEF Queue
  <2>4. p[x] <= p[x]
    BY <1>3, <1>4
  <2>5. PutLast(W, q, x, p)
    BY <1>5, <1>6 DEF PutLast
  <2> QED BY <1>7, <2>1, <2>3, <2>4, <2>5 DEF Waiting
<1>8. CASE head # NIL
  <2>1. tail \in W /\ \A n \in W : q[n] <= q[tail]
    BY <1>8 DEF Waiting
  <2>2. Follows(W, p, p[tail], NIL)
    BY <1>4, <2>1 DEF Follows
  <2>3. p[tail] \in Nat /\ Rank(W, p, p[tail]) /\ p[tail] < p[x]
    BY <1>1, <1>3, <1>4, <1>8, <2>1 DEF Rank
  <2>4. /\ Follows(W \cup {x}, p, p[tail], x) /\ Follows(W \cup {x}, p, p[x], NIL)
        /\ \A j \in Nat : \A i : j # p[tail] /\ Rank(W, p, j) /\ Follows(W, p, j, i)
                              => Follows(W \cup {x}, p, j, i)
    BY <1>1, <1>5, <2>2, <2>3, FollowsInserted
  <2>5. Follows(W \cup {x}, p, 0, head)
    <3>1. Follows(W, q, 0, head)
      BY DEF Waiting, Queue
    <3>2. Follows(W, p, 0, head)
      BY <1>4, <1>8, <3>1 DEF Follows
    <3>3. 0 # p[tail]
      BY <1>1, <1>4, <2>1
    <3> QED BY <2>4, <3>2, <3>3 DEF Rank
  <2>6. ASSUME NEW n \in W \cup {x} PROVE Follows(W \cup {x}, p, p[n], ny[n][0])
    <3>1. CASE n = x
      BY <2>4, <3>1
    <3>2. CASE n = tail
      BY <1>8, <2>4, <3>2
    <3>3. CASE n # x /\ n # tail
      <4>1. n \in W /\ ny[n][0] = nx[n][0]
        BY <3>3
      <4>2. Follows(W, q, q[n], nx[n][0])
        BY <4>1 DEF Waiting, Queue
      <4>3. Follows(W, p, p[n], nx[n][0])
        BY <1>4, <4>1, <4>2 DEF Follows
      <4>4. p[n] # p[tail] /\ p[n] \in Nat /\ Rank(W, p, p[n])
        BY <1>5, <2>1, <3>3, <4>1 DEF Ranked, Rank
      <4> QED BY <2>4, <4>1, <4>3, <4>4
    <3> QED BY <3>1, <3>2, <3>3
  <2>7. Queue(W \cup {x}, p, ny, head)
    BY <1>1, <1>5, <2>5, <2>6 DEF Queue
  <2>8. p[x] <= p[x]
    BY <1>3, <1>4
  <2>9. PutLast(W, q, x, p)
    BY <1>5, <1>6 DEF PutLast
  <2> QED BY <1>6, <1>8, <2>7, <2>8, <2>9 DEF Waiting
<1> QED BY <1>7, <1>8

-----------------------------------------------------------------------------
(* All lists together: what is in use, what is free by size, what waits,    *)
(* and the unused slots of each height.                                     *)
InUse(sl) == {x \in Ids : sl[x].flag \in {"USER", "ADMIN"}}
Freed(sl) == {x \in Ids : sl[x].flag = "FREE"}
Taken(sl) == {x \in Ids : sl[x].flag # "none"}
Blank(sl, m, h) == {x \in 1 .. m : sl[x].flag = "none" /\ sl[x].level = h}
Down == [x \in Ids |-> MaxSlots + 1 - x]

Slots(sl, m) ==
  /\ sl \in [Ids -> SlotType] /\ m \in 0 .. MaxSlots
  /\ \A x \in Ids : /\ sl[x].flag # "none" => x <= m
                    /\ x <= m => sl[x].level \in Heights
Sizewise(sl, nx, F) == \E r : Skip(F, SizeList, r, sl, nx) /\ BySize(F, r, sl)
Waitwise(nx, W, wh, wt) == \E q : Waiting(W, q, nx, wh, wt)
Stacks(sl, nx, ef, m) ==
  /\ ef \in [Heights -> Ids \cup {NIL}]
  /\ \A h \in Heights : Queue(Blank(sl, m, h), Down, nx, ef[h])
Lists(sl, nx, ef, wh, wt, m, W) ==
  /\ Slots(sl, m) /\ Links(nx)
  /\ Skip(InUse(sl), AddressList, ByAddress(sl), sl, nx)
  /\ W \subseteq Freed(sl) /\ Sizewise(sl, nx, Freed(sl) \ W) /\ Waitwise(nx, W, wh, wt)
  /\ Stacks(sl, nx, ef, m)

LEMMA Kinds ==
  ASSUME NEW sl, NEW m, Slots(sl, m)
  PROVE  /\ InUse(sl) \cap Freed(sl) = {} /\ InUse(sl) \cup Freed(sl) = Taken(sl)
         /\ InUse(sl) \subseteq Ids /\ Freed(sl) \subseteq Ids
         /\ \A h \in Heights : Blank(sl, m, h) \subseteq Ids \ Taken(sl)
         /\ \A x \in Ids : x \notin Taken(sl) /\ x <= m => x \in Blank(sl, m, sl[x].level)
<1>1. \A x \in Ids : sl[x].flag \in {"none", "USER", "ADMIN", "FREE"}
  BY SlotFields DEF Slots
<1>2. m \in Nat /\ 1 .. m \subseteq Ids
  BY SkipListAssumption DEF Slots, Ids
<1>3. \A x \in Ids : x <= m => x \in 1 .. m
  BY <1>2, SkipListAssumption DEF Ids
<1> QED BY <1>1, <1>2, <1>3 DEF InUse, Freed, Taken, Blank

(* A list whose nodes are none of those that changed is as it was.          *)
LEMMA StacksFramed ==
  ASSUME NEW sl, NEW m, Slots(sl, m), NEW nx, NEW ny, NEW ef, Stacks(sl, nx, ef, m),
         NEW nodes, Within(nx, ny, nodes), nodes \cap (Ids \ Taken(sl)) = {}
  PROVE  Stacks(sl, ny, ef, m)
<1>1. ASSUME NEW h \in Heights PROVE Queue(Blank(sl, m, h), Down, ny, ef[h])
  <2>1. Queue(Blank(sl, m, h), Down, nx, ef[h])
    BY DEF Stacks
  <2>2. \A n \in Blank(sl, m, h) : ny[n][0] = nx[n][0]
    BY Kinds, SomeIds DEF Within
  <2> QED BY <2>1, <2>2, QueueFramed
<1> QED BY <1>1 DEF Stacks

LEMMA WaitwiseFramed ==
  ASSUME NEW nx, NEW ny, NEW W, NEW wh, NEW wt, Waitwise(nx, W, wh, wt),
         NEW nodes, Within(nx, ny, nodes), nodes \cap W = {}
  PROVE  Waitwise(ny, W, wh, wt)
<1>1. PICK q : Waiting(W, q, nx, wh, wt)
  BY DEF Waitwise
<1>2. \A n \in W : ny[n][0] = nx[n][0]
  BY <1>1, SomeIds DEF Within, Waiting, Queue
<1>3. Queue(W, q, nx, wh)
  BY <1>1 DEF Waiting
<1>4. Queue(W, q, ny, wh)
  BY <1>2, <1>3, QueueFramed
<1> QED BY <1>1, <1>4 DEF Waiting, Waitwise

LEMMA SizewiseFramed ==
  ASSUME NEW sl, NEW sm, NEW nx, NEW ny, NEW F, Sizewise(sl, nx, F),
         \A x \in F : sm[x].level = sl[x].level /\ sm[x].size = sl[x].size,
         NEW nodes, Within(nx, ny, nodes), nodes \cap (F \cup {SizeList}) = {}
  PROVE  Sizewise(sm, ny, F)
<1>1. PICK r : Skip(F, SizeList, r, sl, nx) /\ BySize(F, r, sl)
  BY DEF Sizewise
<1>2. F \subseteq Ids
  BY <1>1 DEF Skip
<1>3. \A n \in F \cup {SizeList} : ny[n] = nx[n]
  BY <1>2, SomeIds DEF Within
<1>4. Skip(F, SizeList, r, sm, ny)
  BY <1>1, <1>3, SkipFramed
<1>5. BySize(F, r, sm)
  BY <1>1 DEF BySize
<1> QED BY <1>4, <1>5 DEF Sizewise

LEMMA AddressFramed ==
  ASSUME NEW sl, NEW sm \in [Ids -> SlotType], NEW nx, NEW ny,
         NEW S, Skip(S, AddressList, ByAddress(sl), sl, nx),
         \A x \in S : sm[x].level = sl[x].level /\ sm[x].mem = sl[x].mem,
         NEW nodes, Within(nx, ny, nodes), nodes \cap (S \cup {AddressList}) = {}
  PROVE  Skip(S, AddressList, ByAddress(sm), sm, ny)
<1>1. S \subseteq Ids
  BY DEF Skip
<1>2. \A n \in S \cup {AddressList} : ny[n] = nx[n]
  BY <1>1, SomeIds DEF Within
<1>3. Skip(S, AddressList, ByAddress(sl), sm, ny)
  BY <1>2, SkipFramed
<1>4. ByAddress(sm) \in [Nodes -> Nat] /\ ByAddress(sm)[AddressList] = 0
  <2>1. \A x \in Ids : sm[x].mem \in Nat
    BY SlotFields
  <2> QED BY <2>1, SomeIds DEF ByAddress
<1>5. \A x \in S : ByAddress(sm)[x] = ByAddress(sl)[x]
  BY <1>1, SomeIds DEF ByAddress
<1>6. Ranked(S, ByAddress(sm)) /\ InOrder(S, ByAddress(sl), ByAddress(sm))
  <2>1. Ranked(S, ByAddress(sl))
    BY DEF Skip
  <2> QED BY <1>5, <2>1 DEF Ranked, InOrder
<1> QED BY <1>3, <1>4, <1>6, SkipReranked

LEMMA NothingMoved == ASSUME NEW nx, Links(nx), NEW nodes PROVE Within(nx, nx, nodes)
BY DEF Within

(* The first slot of the wait list goes to the size list. *)
LEMMA DrainKeepsLists ==
  ASSUME NEW sl, NEW nx, NEW ef, NEW wh, NEW wt, NEW m, NEW W, Lists(sl, nx, ef, wh, wt, m, W),
         wh # NIL
  PROVE  LET inserted == InsertSlot(sl, nx, wh, SizeList) IN
         /\ wh \in W
         /\ Lists(sl, inserted.next, ef, nx[wh][0], IF nx[wh][0] = NIL THEN NIL ELSE wt, m, W \ {wh})
<1>1. PICK q : Waiting(W, q, nx, wh, wt)
  BY DEF Lists, Waitwise
<1>2. PICK r : Skip(Freed(sl) \ W, SizeList, r, sl, nx) /\ BySize(Freed(sl) \ W, r, sl)
  BY DEF Lists, Sizewise
<1>3. Slots(sl, m) /\ Links(nx) /\ W \subseteq Freed(sl) /\ sl \in [Ids -> SlotType]
  BY DEF Lists, Slots
<1>4. wh \in W /\ Queue(W \ {wh}, q, nx, nx[wh][0])
  BY <1>1, QueueFirst DEF Waiting
<1>5. wh \in Ids /\ wh \in Freed(sl) /\ wh \notin Freed(sl) \ W
  BY <1>3, <1>4, Kinds
<1> DEFINE ny == InsertSlot(sl, nx, wh, SizeList).next
           F == Freed(sl) \ W
           nodes == F \cup {SizeList, wh}
<1>6. Within(nx, ny, nodes) /\ Sizewise(sl, ny, F \cup {wh})
  <2> HIDE DEF F
  <2>1. /\ Within(nx, ny, F \cup {SizeList, wh})
        /\ \E p : /\ Skip(F \cup {wh}, SizeList, p, sl, ny)
                  /\ BySize(F \cup {wh}, p, sl)
    BY <1>2, <1>3, <1>5, SizeInserted DEF F
  <2> QED BY <2>1 DEF Sizewise
<1> HIDE DEF ny
<1>7. F \cup {wh} = Freed(sl) \ (W \ {wh})
  BY <1>4, <1>5
<1>8. nodes \subseteq Freed(sl) \cup {SizeList} /\ nodes \cap (W \ {wh}) = {}
      /\ SizeList \notin Ids /\ SizeList # AddressList
      /\ InUse(sl) \cap Freed(sl) = {} /\ Freed(sl) \subseteq Taken(sl) /\ AddressList \notin Ids
      /\ Freed(sl) \subseteq Ids
  BY <1>3, <1>5, SomeIds, Kinds
<1> HIDE DEF nodes, F
<1>9. Skip(InUse(sl), AddressList, ByAddress(sl), sl, ny)
  <2>1. nodes \cap (InUse(sl) \cup {AddressList}) = {}
    BY <1>3, <1>8, Kinds
  <2>2. Skip(InUse(sl), AddressList, ByAddress(sl), sl, nx)
    BY DEF Lists
  <2> QED BY <1>3, <1>6, <2>1, <2>2, AddressFramed
<1>10. Stacks(sl, ny, ef, m)
  <2>1. nodes \cap (Ids \ Taken(sl)) = {}
    BY <1>8
  <2> QED BY <1>3, <1>6, <2>1, StacksFramed DEF Lists
<1>11. Waitwise(ny, W \ {wh}, nx[wh][0], IF nx[wh][0] = NIL THEN NIL ELSE wt)
  <2>1. PICK h, t : h = nx[wh][0] /\ t = IF nx[wh][0] = NIL THEN NIL ELSE wt
    OBVIOUS
  <2>2. h # NIL => t \in W \ {wh} /\ \A x \in W \ {wh} : q[x] <= q[t]
    <3> SUFFICES ASSUME h # NIL PROVE t \in W \ {wh} /\ \A x \in W \ {wh} : q[x] <= q[t]
      OBVIOUS
    <3>1. t = wt /\ wt \in W /\ \A x \in W : q[x] <= q[wt]
      BY <1>1, <2>1 DEF Waiting
    <3>2. h \in W \ {wh} /\ Ranked(W, q) /\ q[wh] <= q[h]
      BY <1>1, <1>4, <2>1, QueueFirst DEF Queue, Waiting
    <3>3. wt # wh
      <4> SUFFICES ASSUME wt = wh PROVE FALSE
        OBVIOUS
      <4>1. q[h] <= q[wh] /\ q[h] \in Nat /\ q[wh] \in Nat
        BY <1>4, <3>1, <3>2 DEF Ranked
      <4> QED BY <1>4, <3>2, <4>1 DEF Ranked
    <3> QED BY <3>1, <3>3
  <2>3. Waitwise(nx, W \ {wh}, h, t)
    BY <1>4, <2>1, <2>2 DEF Waiting, Waitwise
  <2>4. nodes \cap (W \ {wh}) = {}
    BY <1>8
  <2> QED BY <1>6, <2>1, <2>3, <2>4, WaitwiseFramed
<1>12. Links(ny) /\ W \ {wh} \subseteq Freed(sl)
  BY <1>3, <1>6 DEF Within
<1> QED BY <1>3, <1>4, <1>6, <1>7, <1>9, <1>10, <1>11, <1>12 DEF Lists, ny

-----------------------------------------------------------------------------
LEMMA WithinBoth ==
  ASSUME NEW nx, NEW ny, NEW nz, NEW A, NEW B, Within(nx, ny, A), Within(ny, nz, B)
  PROVE  Within(nx, nz, A \cup B)
BY DEF Within

(* A slot that changes hands: only its flag is another one. *)
Same(sl, sm, y) == sm[y].level = sl[y].level /\ sm[y].mem = sl[y].mem /\ sm[y].size = sl[y].size
Remarked(sl, sm, m, x, f) ==
  /\ Slots(sm, m)
  /\ \A y \in Ids : Same(sl, sm, y) /\ sm[y].flag = IF y = x THEN f ELSE sl[y].flag
  /\ Taken(sm) = Taken(sl) /\ \A h \in Heights : Blank(sm, m, h) = Blank(sl, m, h)
LEMMA Marked ==
  ASSUME NEW sl, NEW m, Slots(sl, m), NEW x \in Ids, sl[x].flag # "none",
         NEW f \in {"USER", "FREE"}
  PROVE  Remarked(sl, [sl EXCEPT ![x].flag = f], m, x, f)
<1> DEFINE sm == [sl EXCEPT ![x].flag = f]
<1>1. sl \in [Ids -> SlotType] /\ m \in 0 .. MaxSlots /\ 1 .. m \subseteq Ids
  BY SkipListAssumption DEF Slots, Ids
<1>2. sl[x] \in SlotType
  BY <1>1
<1>3. PICK s : s = [sl[x] EXCEPT !.flag = f]
  OBVIOUS
<1>4. s \in SlotType /\ s.level = sl[x].level /\ s.mem = sl[x].mem /\ s.size = sl[x].size
      /\ s.flag = f
  BY <1>2, <1>3 DEF SlotType
<1>5. sm = [sl EXCEPT ![x] = s]
  BY <1>1, <1>3
<1> HIDE DEF sm
<1>6. sm \in [Ids -> SlotType]
  BY <1>1, <1>4, <1>5
<1>7. \A y \in Ids : Same(sl, sm, y) /\ sm[y].flag = IF y = x THEN f ELSE sl[y].flag
  BY <1>1, <1>4, <1>5 DEF Same
<1>8. Slots(sm, m)
  BY <1>1, <1>6, <1>7 DEF Slots, Same
<1>9. Taken(sm) = Taken(sl)
  BY <1>7 DEF Taken
<1>10. \A h \in Heights : Blank(sm, m, h) = Blank(sl, m, h)
  BY <1>1, <1>7 DEF Blank, Same
<1> QED BY <1>7, <1>8, <1>9, <1>10 DEF Remarked, sm

LEMMA StacksRemarked ==
  ASSUME NEW sl, NEW sm, NEW m, NEW x, NEW f, Remarked(sl, sm, m, x, f),
         NEW nx, NEW ef, Stacks(sl, nx, ef, m)
  PROVE  Stacks(sm, nx, ef, m)
BY DEF Stacks, Remarked

(* The slot that the search for a size finds becomes a used one. *)
Reused(sl, nx, ef, wh, wt, m, W, a) ==
  LET t == FindFreeSize(sl, nx, a)
      x == t.found
      removed == RemoveSlot(nx, x, t.update)
      inserted == InsertSlot(sl, removed.next, x, AddressList)
      sm == [sl EXCEPT ![x].flag = "USER"]
  IN /\ x \in Freed(sl) \ W /\ sl[x].size = a
     /\ removed.ok /\ inserted.ok
     /\ Lists(sm, inserted.next, ef, wh, wt, m, W)
     /\ Remarked(sl, sm, m, x, "USER")
     /\ Within(removed.next, inserted.next, InUse(sl) \cup {AddressList, x})
LEMMA TakeKeepsLists ==
  ASSUME NEW sl, NEW nx, NEW ef, NEW wh, NEW wt, NEW m, NEW W, Lists(sl, nx, ef, wh, wt, m, W),
         Placed(sl, Taken(sl)), NEW a \in Nat, FindFreeSize(sl, nx, a).found # NIL
  PROVE  Reused(sl, nx, ef, wh, wt, m, W, a)
<1> DEFINE F == Freed(sl) \ W
<1>1. PICK r : Skip(F, SizeList, r, sl, nx) /\ BySize(F, r, sl)
  BY DEF Lists, Sizewise
<1>2. /\ Slots(sl, m) /\ Links(nx) /\ W \subseteq Freed(sl) /\ sl \in [Ids -> SlotType]
      /\ Skip(InUse(sl), AddressList, ByAddress(sl), sl, nx)
      /\ Stacks(sl, nx, ef, m) /\ Waitwise(nx, W, wh, wt)
  BY DEF Lists, Slots
<1> DEFINE t == FindFreeSize(sl, nx, a)
           x == t.found
           removed == RemoveSlot(nx, x, t.update)
           inserted == InsertSlot(sl, removed.next, x, AddressList)
           sm == [sl EXCEPT ![x].flag = "USER"]
<1>3. /\ x \in F /\ sl[x].size = a
      /\ \E right : CameTo(F, SizeList, r, sl, nx, right, t, x)
  <2> HIDE DEF F
  <2> QED BY <1>1, <1>2, SizeFound
<1>4. PICK right : CameTo(F, SizeList, r, sl, nx, right, t, x)
  BY <1>3
<1> HIDE DEF t, F
<1>5. /\ removed.ok /\ Within(nx, removed.next, F \cup {SizeList})
      /\ Skip(F \ {x}, SizeList, r, sl, removed.next)
  BY <1>1, <1>2, <1>4, SkipRemoved DEF CameTo
<1> DEFINE ny == removed.next
<1> HIDE DEF x, removed
<1>6. /\ F \subseteq Freed(sl) /\ x \in Ids /\ x \in Taken(sl) /\ x \notin InUse(sl)
      /\ InUse(sl) \cap Freed(sl) = {} /\ Freed(sl) \subseteq Taken(sl) /\ InUse(sl) \subseteq Taken(sl)
      /\ InUse(sl) \subseteq Ids /\ Freed(sl) \subseteq Ids
      /\ SizeList \notin Ids /\ AddressList \notin Ids /\ SizeList # AddressList
      /\ F \cap W = {}
  BY <1>2, <1>3, Kinds, SomeIds DEF F
<1>7. Skip(InUse(sl), AddressList, ByAddress(sl), sl, ny)
  <2>1. (F \cup {SizeList}) \cap (InUse(sl) \cup {AddressList}) = {}
    BY <1>6
  <2> QED BY <1>2, <1>5, <2>1, AddressFramed
<1>8. sl[x].mem > 0 /\ \A y \in InUse(sl) : sl[y].mem # sl[x].mem
  <2>1. \A y \in Taken(sl) : sl[y].mem \in Nat /\ sl[y].size \in Nat /\ sl[y].mem > 0 /\ sl[y].size > 0
    <3>1. \A y \in Taken(sl) : y \in Ids
      BY DEF Taken
    <3> QED BY <1>2, <3>1, SlotFields DEF Placed
  <2>2. ASSUME NEW y \in InUse(sl), sl[y].mem = sl[x].mem PROVE FALSE
    <3>1. y \in Taken(sl) /\ y # x
      BY <1>6
    <3>2. Apart(MemoryOf(sl, x), MemoryOf(sl, y))
      BY <1>6, <3>1 DEF Placed
    <3> QED BY <1>6, <2>1, <2>2, <3>1, <3>2 DEF Apart, MemoryOf, Extent
  <2> QED BY <1>6, <2>1, <2>2
<1>9. /\ inserted.ok /\ Within(ny, inserted.next, InUse(sl) \cup {AddressList, x})
      /\ Skip(InUse(sl) \cup {x}, AddressList, ByAddress(sl), sl, inserted.next)
  <2>1. Links(ny)
    BY <1>5 DEF Within
  <2> QED BY <1>2, <1>6, <1>7, <1>8, <2>1, AddressInserted
<1> DEFINE nz == inserted.next
<1> HIDE DEF inserted, ny
<1>10. Remarked(sl, sm, m, x, "USER")
  BY <1>2, <1>6, Marked DEF Taken
<1> HIDE DEF sm
<1>11. /\ Slots(sm, m) /\ sm \in [Ids -> SlotType] /\ \A y \in Ids : Same(sl, sm, y)
       /\ InUse(sm) = InUse(sl) \cup {x} /\ Freed(sm) = Freed(sl) \ {x}
  BY <1>6, <1>10 DEF Remarked, Slots, InUse, Freed, Taken
<1>12. Skip(InUse(sm), AddressList, ByAddress(sm), sm, nz)
  <2>1. Links(nz)
    BY <1>9 DEF Within
  <2>2. InUse(sm) \subseteq Ids
    BY <1>6, <1>11
  <2>3. Skip(InUse(sm), AddressList, ByAddress(sl), sl, nz)
    BY <1>9, <1>11
  <2>4. \A y \in InUse(sm) : sm[y].level = sl[y].level /\ sm[y].mem = sl[y].mem
    BY <1>11, <2>2 DEF Same
  <2>5. Within(nz, nz, {})
    BY <2>1, NothingMoved
  <2> QED BY <1>11, <2>3, <2>4, <2>5, AddressFramed
<1>13. Sizewise(sm, nz, Freed(sm) \ W)
  <2>1. Freed(sm) \ W = F \ {x}
    BY <1>11 DEF F
  <2>2. BySize(F \ {x}, r, sl)
    BY <1>1 DEF BySize
  <2>3. Sizewise(sl, ny, F \ {x})
    BY <1>5, <2>2 DEF Sizewise, ny
  <2>4. (InUse(sl) \cup {AddressList, x}) \cap ((F \ {x}) \cup {SizeList}) = {}
    BY <1>6
  <2>5. \A y \in F \ {x} : sm[y].level = sl[y].level /\ sm[y].size = sl[y].size
    BY <1>6, <1>11 DEF Same
  <2> QED BY <1>9, <2>1, <2>3, <2>4, <2>5, SizewiseFramed
<1>14. Within(nx, nz, (F \cup {SizeList}) \cup (InUse(sl) \cup {AddressList, x}))
  BY <1>5, <1>9, WithinBoth DEF ny
<1>15. Waitwise(nz, W, wh, wt)
  <2>1. ((F \cup {SizeList}) \cup (InUse(sl) \cup {AddressList, x})) \cap W = {}
    BY <1>2, <1>3, <1>6
  <2> QED BY <1>2, <1>14, <2>1, WaitwiseFramed
<1>16. Stacks(sm, nz, ef, m)
  <2>1. ((F \cup {SizeList}) \cup (InUse(sl) \cup {AddressList, x})) \cap (Ids \ Taken(sl)) = {}
    BY <1>6
  <2>2. Stacks(sl, nz, ef, m)
    BY <1>2, <1>14, <2>1, StacksFramed
  <2> QED BY <1>10, <2>2, StacksRemarked
<1>17. W \subseteq Freed(sm) /\ Links(nz)
  BY <1>2, <1>3, <1>6, <1>9, <1>11 DEF Within
<1>18. Lists(sm, nz, ef, wh, wt, m, W)
  BY <1>11, <1>12, <1>13, <1>15, <1>16, <1>17 DEF Lists
<1> QED BY <1>3, <1>5, <1>9, <1>10, <1>18 DEF Reused, F, t, x, removed, inserted, ny, sm

(* A used chunk that is freed goes to the end of the wait list. *)
Ended(nx, x, wh, wt) ==
  LET ended == [nx EXCEPT ![x][0] = NIL]
  IN IF wh = NIL THEN ended ELSE [ended EXCEPT ![wt][0] = x]
EndedAt(nx, ny, x, wh, wt) ==
  /\ Within(nx, ny, IF wh = NIL THEN {x} ELSE {x, wt})
  /\ ny[x][0] = NIL
  /\ wh # NIL => ny[wt][0] = x
LEMMA EndedLinks ==
  ASSUME NEW nx, Links(nx), NEW x \in Ids, NEW wh, NEW wt \in Nodes, wh # NIL => x # wt
  PROVE  EndedAt(nx, Ended(nx, x, wh, wt), x, wh, wt)
<1>1. x \in Nodes /\ 0 \in SkipLevels
  BY SomeIds
<1>2. PICK e : e = [nx EXCEPT ![x][0] = NIL]
  OBVIOUS
<1>3. Links(e) /\ e[x][0] = NIL /\ \A n \in Nodes \ {x} : e[n] = nx[n]
  BY <1>1, <1>2 DEF Links
<1>4. CASE wh = NIL
  BY <1>2, <1>3, <1>4 DEF Ended, EndedAt, Within
<1>5. CASE wh # NIL
  <2>1. PICK f : f = [e EXCEPT ![wt][0] = x]
    OBVIOUS
  <2>2. Links(f) /\ f[wt][0] = x /\ \A n \in Nodes \ {wt} : f[n] = e[n]
    BY <1>1, <1>3, <2>1 DEF Links
  <2> QED BY <1>1, <1>2, <1>3, <1>5, <2>1, <2>2 DEF Ended, EndedAt, Within
<1> QED BY <1>4, <1>5

(* The wait list is longer by its last one, and the size list as it was.    *)
Lengthened(sl, nx, wh, W, x, ny, front) ==
  /\ \E q, p : Queue(W, q, nx, wh) /\ Queue(W \cup {x}, p, ny, front) /\ PutLast(W, q, x, p)
  /\ \E nodes : Within(nx, ny, nodes) /\ nodes \cap ((Freed(sl) \ W) \cup {SizeList}) = {}
Released(sl, nx, ef, wh, wt, m, W, a) ==
  LET t == FindAddress(sl, nx, AddressList, a, FALSE)
      x == t.found
      removed == RemoveSlot(nx, x, t.update)
      sm == [sl EXCEPT ![x].flag = "FREE"]
  IN /\ x \in InUse(sl) /\ Holds(sl, x, a) /\ removed.ok
     /\ Lists(sm, Ended(removed.next, x, wh, wt), ef, IF wh = NIL THEN x ELSE wh, x, m, W \cup {x})
     /\ Remarked(sl, sm, m, x, "FREE")
     /\ Lengthened(sl, nx, wh, W, x, Ended(removed.next, x, wh, wt), IF wh = NIL THEN x ELSE wh)
LEMMA FreeKeepsLists ==
  ASSUME NEW sl, NEW nx, NEW ef, NEW wh, NEW wt, NEW m, NEW W, Lists(sl, nx, ef, wh, wt, m, W),
         Placed(sl, Taken(sl)), NEW a \in Nat, FindAddress(sl, nx, AddressList, a, FALSE).found # NIL
  PROVE  Released(sl, nx, ef, wh, wt, m, W, a)
<1> DEFINE U == InUse(sl)
<1>1. PICK q : Waiting(W, q, nx, wh, wt)
  BY DEF Lists, Waitwise
<1>2. /\ Slots(sl, m) /\ Links(nx) /\ W \subseteq Freed(sl) /\ sl \in [Ids -> SlotType]
      /\ Skip(U, AddressList, ByAddress(sl), sl, nx)
      /\ Stacks(sl, nx, ef, m) /\ Sizewise(sl, nx, Freed(sl) \ W)
  BY DEF Lists, Slots
<1>3. /\ U \cap Freed(sl) = {} /\ Freed(sl) \subseteq Taken(sl) /\ U \subseteq Taken(sl)
      /\ U \subseteq Ids /\ Freed(sl) \subseteq Ids
      /\ SizeList \notin Ids /\ AddressList \notin Ids /\ SizeList # AddressList
      /\ Ids \subseteq Nodes /\ AddressList \in Nodes
  BY <1>2, Kinds, SomeIds
<1>4. Placed(sl, U)
  BY <1>3 DEF Placed
<1> DEFINE t == FindAddress(sl, nx, AddressList, a, FALSE)
           x == t.found
           removed == RemoveSlot(nx, x, t.update)
           ny == Ended(removed.next, x, wh, wt)
           sm == [sl EXCEPT ![x].flag = "FREE"]
<1>5. /\ x \in U /\ Holds(sl, x, a)
      /\ \E right : CameTo(U, AddressList, ByAddress(sl), sl, nx, right, t, x)
  <2> HIDE DEF U
  <2> QED BY <1>2, <1>4, AddressFound
<1>6. PICK right : CameTo(U, AddressList, ByAddress(sl), sl, nx, right, t, x)
  BY <1>5
<1> HIDE DEF t, U
<1>7. /\ removed.ok /\ Within(nx, removed.next, U \cup {AddressList})
      /\ Skip(U \ {x}, AddressList, ByAddress(sl), sl, removed.next)
  BY <1>2, <1>6, SkipRemoved DEF CameTo
<1> DEFINE nr == removed.next
<1> HIDE DEF x, removed
<1>8. wh # NIL => wt \in W /\ wt \in Ids /\ x # wt
  BY <1>1, <1>2, <1>3, <1>5 DEF Waiting
<1> DEFINE E == IF wh = NIL THEN {x} ELSE {x, wt}
<1>9. Within(nr, ny, E) /\ ny[x][0] = NIL /\ (wh # NIL => ny[wt][0] = x)
  <2>1. Links(nr) /\ x \in Ids
    BY <1>3, <1>5, <1>7 DEF Within
  <2>2. PICK w : w \in Nodes /\ (wh # NIL => w = wt)
    BY <1>3, <1>8
  <2>3. Ended(nr, x, wh, wt) = Ended(nr, x, wh, w)
    BY <2>2 DEF Ended
  <2>4. wh # NIL => x # w
    BY <1>8, <2>2
  <2>5. EndedAt(nr, Ended(nr, x, wh, w), x, wh, w)
    BY <2>1, <2>2, <2>4, EndedLinks
  <2>6. ny = Ended(nr, x, wh, w)
    BY <2>3
  <2> QED BY <2>2, <2>5, <2>6 DEF EndedAt
<1> HIDE DEF ny, nr
<1>10. E \subseteq W \cup {x}
  BY <1>8
<1> HIDE DEF E
<1>11. Within(nx, ny, U \cup {AddressList} \cup E)
  <2>1. Within(nx, nr, U \cup {AddressList})
    BY <1>7 DEF nr
  <2> QED BY <1>9, <2>1, WithinBoth
<1>12. Remarked(sl, sm, m, x, "FREE")
  BY <1>2, <1>3, <1>5, Marked DEF Taken
<1> HIDE DEF sm
<1>13. /\ Slots(sm, m) /\ sm \in [Ids -> SlotType] /\ \A y \in Ids : Same(sl, sm, y)
       /\ InUse(sm) = U \ {x} /\ Freed(sm) = Freed(sl) \cup {x}
  BY <1>3, <1>5, <1>12 DEF Remarked, Slots, InUse, Freed, Taken, U
<1>14. Skip(InUse(sm), AddressList, ByAddress(sm), sm, ny)
  <2>1. E \cap (InUse(sm) \cup {AddressList}) = {}
    BY <1>2, <1>3, <1>5, <1>10, <1>13
  <2>2. \A y \in InUse(sm) : sm[y].level = sl[y].level /\ sm[y].mem = sl[y].mem
    BY <1>3, <1>13 DEF Same
  <2>3. Skip(InUse(sm), AddressList, ByAddress(sl), sl, nr)
    BY <1>7, <1>13 DEF nr
  <2>4. Within(nr, ny, E) /\ sm \in [Ids -> SlotType]
    BY <1>9, <1>13
  <2> QED BY <2>1, <2>2, <2>3, <2>4, AddressFramed
<1>15. Sizewise(sm, ny, Freed(sm) \ (W \cup {x}))
  <2>1. Freed(sm) \ (W \cup {x}) = Freed(sl) \ W
    BY <1>3, <1>5, <1>13
  <2>2. (U \cup {AddressList} \cup E) \cap ((Freed(sl) \ W) \cup {SizeList}) = {}
    BY <1>2, <1>3, <1>5, <1>10
  <2>3. \A y \in Freed(sl) \ W : sm[y].level = sl[y].level /\ sm[y].size = sl[y].size
    BY <1>3, <1>13 DEF Same
  <2> QED BY <1>2, <1>11, <2>1, <2>2, <2>3, SizewiseFramed
<1>16. /\ Waitwise(ny, W \cup {x}, IF wh = NIL THEN x ELSE wh, x)
       /\ Lengthened(sl, nx, wh, W, x, ny, IF wh = NIL THEN x ELSE wh)
  <2>1. x \in Ids /\ x \notin W
    BY <1>2, <1>3, <1>5
  <2>2. \A n \in W : n # wt => ny[n][0] = nx[n][0]
    <3> SUFFICES ASSUME NEW n \in W, n # wt PROVE ny[n][0] = nx[n][0]
      OBVIOUS
    <3>1. n \in Nodes \ (U \cup {AddressList}) /\ n # x
      BY <1>2, <1>3, <2>1
    <3>2. n \notin E
      BY <3>1 DEF E
    <3> QED BY <1>11, <3>1, <3>2 DEF Within
  <2>4. ny[x][0] = NIL /\ (wh # NIL => ny[wt][0] = x)
    BY <1>9
  <2>3. PICK p : /\ Waiting(W \cup {x}, p, ny, IF wh = NIL THEN x ELSE wh, x)
                 /\ PutLast(W, q, x, p)
    BY <1>1, <2>1, <2>2, <2>4, WaitingAppended
  <2>5. (U \cup {AddressList} \cup E) \cap ((Freed(sl) \ W) \cup {SizeList}) = {}
    BY <1>2, <1>3, <1>5, <1>10
  <2>6. Lengthened(sl, nx, wh, W, x, ny, IF wh = NIL THEN x ELSE wh)
    BY <1>1, <1>11, <2>3, <2>5 DEF Lengthened, Waiting
  <2> QED BY <2>3, <2>6 DEF Waitwise
<1>17. Stacks(sm, ny, ef, m)
  <2>1. (U \cup {AddressList} \cup E) \cap (Ids \ Taken(sl)) = {}
    BY <1>2, <1>3, <1>5, <1>10
  <2>2. Stacks(sl, ny, ef, m)
    BY <1>2, <1>11, <2>1, StacksFramed
  <2> QED BY <1>12, <2>2, StacksRemarked
<1>18. W \cup {x} \subseteq Freed(sm) /\ Links(ny)
  BY <1>2, <1>11, <1>13 DEF Within
<1>19. Lists(sm, ny, ef, IF wh = NIL THEN x ELSE wh, x, m, W \cup {x})
  BY <1>13, <1>14, <1>15, <1>16, <1>17, <1>18 DEF Lists
<1> QED BY <1>5, <1>7, <1>12, <1>16, <1>19 DEF Released, U, t, x, removed, nr, ny, sm

(* An unused slot of a height is cleared, filled in and inserted.           *)
Filled(sl, sm, m, x, h, address, bytes, flag) ==
  /\ Slots(sm, m)
  /\ \A y \in Ids \ {x} : sm[y] = sl[y]
  /\ sm[x].mem = address /\ sm[x].size = bytes /\ sm[x].flag = flag
  /\ sm[x].level = sl[x].level
  /\ \A g \in Heights : Blank(sm, m, g) = Blank(sl, m, g) \ {x}
  /\ Taken(sm) = Taken(sl) \cup {x}
Fill(sl, x, address, bytes, flag) ==
  [sl EXCEPT ![x].mem = address, ![x].size = bytes, ![x].flag = flag]
LEMMA Filling ==
  ASSUME NEW sl, NEW m, Slots(sl, m), NEW x \in Ids, x <= m,
         NEW h, NEW address \in Nat, NEW bytes \in Nat, NEW flag \in {"USER", "ADMIN", "FREE"}
  PROVE  Filled(sl, Fill(sl, x, address, bytes, flag), m, x, h, address, bytes, flag)
<1>1. sl \in [Ids -> SlotType] /\ m \in 0 .. MaxSlots /\ 1 .. m \subseteq Ids
  BY SkipListAssumption DEF Slots, Ids
<1>2. PICK sm : sm = [sl EXCEPT ![x].mem = address, ![x].size = bytes, ![x].flag = flag]
  OBVIOUS
<1>3. PICK s : s = [sl[x] EXCEPT !.mem = address, !.size = bytes, !.flag = flag]
  OBVIOUS
<1>4. sl[x] \in SlotType
  BY <1>1
<1>5. s \in SlotType /\ s.mem = address /\ s.size = bytes /\ s.flag = flag /\ s.level = sl[x].level
  BY <1>3, <1>4 DEF SlotType
<1>6. sm = [sl EXCEPT ![x] = s]
  BY <1>1, <1>2, <1>3
<1>7. sm \in [Ids -> SlotType] /\ sm[x] = s /\ \A y \in Ids \ {x} : sm[y] = sl[y]
  BY <1>1, <1>5, <1>6
<1>8. \A y \in Ids : sm[y].level = sl[y].level
  BY <1>5, <1>7
<1>9. Slots(sm, m)
  BY <1>1, <1>5, <1>7, <1>8 DEF Slots
<1>10. Taken(sm) = Taken(sl) \cup {x}
  BY <1>5, <1>7 DEF Taken
<1>11. \A g \in Heights : Blank(sm, m, g) = Blank(sl, m, g) \ {x}
  BY <1>1, <1>5, <1>7, <1>8 DEF Blank
<1>12. Filled(sl, sm, m, x, h, address, bytes, flag)
  BY <1>5, <1>7, <1>9, <1>10, <1>11 DEF Filled
<1> QED BY <1>2, <1>12 DEF Fill

Inserted(sl, nx, ef, wh, wt, m, W, h, address, flag, bytes) ==
  LET x == ef[h]
      filled == Fill(sl, x, address, bytes, flag)
      cleared == [nx EXCEPT ![x] = [l \in SkipLevels |-> NIL]]
      inserted == InsertSlot(filled, cleared, x,
                             IF flag = "FREE" THEN SizeList ELSE AddressList)
  IN /\ x \in Ids \ Taken(sl)
     /\ inserted.ok
     /\ Lists(filled, inserted.next, [ef EXCEPT ![h] = nx[x][0]], wh, wt, m, W)
     /\ Filled(sl, filled, m, x, h, address, bytes, flag)
     /\ flag # "FREE" => Within(nx, inserted.next, InUse(sl) \cup {AddressList, x})
LEMMA InsertKeepsLists ==
  ASSUME NEW sl, NEW nx, NEW ef, NEW wh, NEW wt, NEW m, NEW W, Lists(sl, nx, ef, wh, wt, m, W),
         NEW h \in Heights, ef[h] # NIL, NEW address \in Nat \ {0}, NEW bytes \in Nat,
         NEW flag \in {"USER", "ADMIN", "FREE"}, \A y \in Taken(sl) : sl[y].mem # address
  PROVE  Inserted(sl, nx, ef, wh, wt, m, W, h, address, flag, bytes)
<1> DEFINE x == ef[h]
           F == Freed(sl) \ W
           sm == Fill(sl, x, address, bytes, flag)
           nc == [nx EXCEPT ![x] = [l \in SkipLevels |-> NIL]]
           inserted == InsertSlot(sm, nc, x, IF flag = "FREE" THEN SizeList ELSE AddressList)
           ny == inserted.next
           eg == [ef EXCEPT ![h] = nx[x][0]]
<1>1. /\ Slots(sl, m) /\ Links(nx) /\ W \subseteq Freed(sl) /\ sl \in [Ids -> SlotType]
      /\ Skip(InUse(sl), AddressList, ByAddress(sl), sl, nx)
      /\ Stacks(sl, nx, ef, m) /\ Sizewise(sl, nx, F) /\ Waitwise(nx, W, wh, wt)
      /\ ef \in [Heights -> Ids \cup {NIL}]
      /\ \A g \in Heights : Queue(Blank(sl, m, g), Down, nx, ef[g])
  BY DEF Lists, Slots, Stacks
<1>2. x \in Blank(sl, m, h) /\ Queue(Blank(sl, m, h) \ {x}, Down, nx, nx[x][0])
  <2>1. Queue(Blank(sl, m, h), Down, nx, x)
    BY <1>1
  <2> HIDE DEF x
  <2> QED BY <2>1, QueueFirst DEF x
<1>3. /\ x \in Ids /\ x \notin Taken(sl) /\ x <= m /\ sl[x].level = h
      /\ InUse(sl) \cap Freed(sl) = {} /\ InUse(sl) \cup Freed(sl) = Taken(sl)
      /\ InUse(sl) \subseteq Ids /\ Freed(sl) \subseteq Ids
      /\ \A g \in Heights : Blank(sl, m, g) \subseteq Ids \ Taken(sl)
      /\ SizeList \notin Ids /\ AddressList \notin Ids /\ SizeList # AddressList
      /\ Ids \subseteq Nodes
  <2>1. m \in Nat
    BY <1>1, SkipListAssumption DEF Slots
  <2>2. x <= m /\ sl[x].level = h
    BY <1>2, <2>1 DEF Blank
  <2> QED BY <1>1, <1>2, <2>2, Kinds, SomeIds
<1>4. Filled(sl, sm, m, x, h, address, bytes, flag)
  <2> HIDE DEF x
  <2>1. x \in Ids /\ x <= m /\ Slots(sl, m) /\ address \in Nat
    BY <1>1, <1>3
  <2> QED BY <2>1, Filling
<1>5. Within(nx, nc, {x})
  <2> HIDE DEF x
  <2>1. [l \in SkipLevels |-> NIL] \in [SkipLevels -> Ids \cup {NIL}]
    OBVIOUS
  <2> QED BY <1>1, <1>3, <2>1 DEF Links, Within
<1>6. /\ Slots(sm, m) /\ sm \in [Ids -> SlotType] /\ Links(nc) /\ sm[x].flag = flag
      /\ sm[x].mem = address
      /\ \A y \in Taken(sl) : sm[y] = sl[y]
  <2>1. \A y \in Taken(sl) : y \in Ids \ {x}
    BY <1>3
  <2> HIDE DEF x, sm, nc
  <2> QED BY <1>3, <1>4, <1>5, <2>1 DEF Filled, Slots, Within
<1> HIDE DEF x, sm, nc, F
<1>7. Sizewise(sm, nc, F)
  <2>1. {x} \cap (F \cup {SizeList}) = {}
    BY <1>3 DEF F
  <2>2. \A y \in F : sm[y].level = sl[y].level /\ sm[y].size = sl[y].size
    BY <1>3, <1>6 DEF F
  <2> QED BY <1>1, <1>5, <2>1, <2>2, SizewiseFramed
<1>8. Skip(InUse(sl), AddressList, ByAddress(sm), sm, nc)
  <2>1. {x} \cap (InUse(sl) \cup {AddressList}) = {}
    BY <1>3
  <2>2. \A y \in InUse(sl) : sm[y].level = sl[y].level /\ sm[y].mem = sl[y].mem
    BY <1>3, <1>6
  <2> QED BY <1>1, <1>5, <1>6, <2>1, <2>2, AddressFramed
<1>9. /\ flag = "FREE" => InUse(sm) = InUse(sl) /\ Freed(sm) = Freed(sl) \cup {x}
      /\ flag # "FREE" => InUse(sm) = InUse(sl) \cup {x} /\ Freed(sm) = Freed(sl)
  <2>1. \A y \in Ids : sm[y].flag = IF y = x THEN flag ELSE sl[y].flag
    BY <1>3, <1>4 DEF Filled
  <2>2. sl[x].flag = "none"
    BY <1>3 DEF Taken
  <2> QED BY <1>3, <2>1, <2>2 DEF InUse, Freed
<1> DEFINE N == F \cup {SizeList, x}
           A == InUse(sl) \cup {AddressList, x}
<1>10. /\ inserted.ok /\ Sizewise(sm, ny, Freed(sm) \ W)
       /\ Skip(InUse(sm), AddressList, ByAddress(sm), sm, ny)
       /\ Within(nx, ny, N \cup A) /\ (flag # "FREE" => Within(nx, ny, A))
  <2>1. CASE flag = "FREE"
    <3>1. PICK r : Skip(F, SizeList, r, sm, nc) /\ BySize(F, r, sm)
      BY <1>7 DEF Sizewise
    <3>2. inserted = InsertSlot(sm, nc, x, SizeList)
      BY <2>1
    <3> HIDE DEF inserted
    <3>3. x \notin F
      BY <1>3 DEF F
    <3>4. /\ inserted.ok /\ Within(nc, ny, F \cup {SizeList, x})
          /\ \E p : Skip(F \cup {x}, SizeList, p, sm, ny) /\ BySize(F \cup {x}, p, sm)
      BY <1>3, <1>6, <3>1, <3>2, <3>3, SizeInserted
    <3>5. Freed(sm) \ W = F \cup {x}
      BY <1>1, <1>3, <1>9, <2>1 DEF F
    <3>6. Sizewise(sm, ny, Freed(sm) \ W)
      BY <3>4, <3>5 DEF Sizewise
    <3>7. Skip(InUse(sm), AddressList, ByAddress(sm), sm, ny)
      <4>1. (F \cup {SizeList, x}) \cap (InUse(sl) \cup {AddressList}) = {}
        BY <1>3 DEF F
      <4>2. Skip(InUse(sl), AddressList, ByAddress(sm), sm, ny)
        <5> HIDE DEF ny
        <5> QED BY <1>6, <1>8, <3>4, <4>1, AddressFramed
      <4> QED BY <1>9, <2>1, <4>2
    <3>8. Within(nx, ny, N \cup A)
      BY <1>5, <3>4 DEF Within
    <3> QED BY <2>1, <3>4, <3>6, <3>7, <3>8
  <2>2. CASE flag # "FREE"
    <3>1. inserted = InsertSlot(sm, nc, x, AddressList)
      BY <2>2
    <3> HIDE DEF inserted
    <3>2. sm[x].mem > 0 /\ \A y \in InUse(sl) : sm[y].mem # sm[x].mem
      BY <1>3, <1>6
    <3>3. /\ inserted.ok /\ Within(nc, ny, InUse(sl) \cup {AddressList, x})
          /\ Skip(InUse(sl) \cup {x}, AddressList, ByAddress(sm), sm, ny)
      BY <1>3, <1>6, <1>8, <3>1, <3>2, AddressInserted
    <3>4. Skip(InUse(sm), AddressList, ByAddress(sm), sm, ny)
      BY <1>9, <2>2, <3>3
    <3>5. Sizewise(sm, ny, Freed(sm) \ W)
      <4>1. (InUse(sl) \cup {AddressList, x}) \cap (F \cup {SizeList}) = {}
        BY <1>3 DEF F
      <4>2. \A y \in F : sm[y].level = sm[y].level /\ sm[y].size = sm[y].size
        OBVIOUS
      <4>3. Sizewise(sm, ny, F)
        <5> HIDE DEF ny
        <5> QED BY <1>7, <3>3, <4>1, <4>2, SizewiseFramed
      <4> QED BY <1>9, <2>2, <4>3 DEF F
    <3>6. Within(nx, ny, N \cup A) /\ Within(nx, ny, A)
      BY <1>5, <3>3 DEF Within
    <3> QED BY <3>3, <3>4, <3>5, <3>6
  <2> QED BY <2>1, <2>2
<1> HIDE DEF inserted, ny
<1>11. N \cup A \subseteq (Taken(sl) \ W) \cup {x, SizeList, AddressList} /\ x \notin W
       /\ W \subseteq Ids
  BY <1>1, <1>3 DEF F
<1> HIDE DEF N, A
<1>12. Waitwise(ny, W, wh, wt)
  <2>1. (N \cup A) \cap W = {}
    BY <1>3, <1>11
  <2> QED BY <1>1, <1>10, <2>1, WaitwiseFramed
<1>13. Stacks(sm, ny, eg, m)
  <2>1. eg \in [Heights -> Ids \cup {NIL}] /\ eg[h] = nx[x][0]
        /\ \A g \in Heights \ {h} : eg[g] = ef[g]
    <3>1. nx[x][0] \in Ids \cup {NIL}
      BY <1>1, <1>3, SomeIds DEF Links
    <3> QED BY <1>1, <3>1
  <2> HIDE DEF eg
  <2>2. ASSUME NEW g \in Heights PROVE Queue(Blank(sm, m, g), Down, ny, eg[g])
    <3>1. Blank(sm, m, g) = Blank(sl, m, g) \ {x}
      BY <1>4 DEF Filled
    <3>2. Queue(Blank(sm, m, g), Down, nx, eg[g])
      <4>1. CASE g = h
        BY <1>2, <2>1, <3>1, <4>1
      <4>2. CASE g # h
        <5>1. x \notin Blank(sl, m, g)
          BY <1>3, <4>2 DEF Blank
        <5>2. Blank(sm, m, g) = Blank(sl, m, g)
          BY <3>1, <5>1
        <5> QED BY <1>1, <2>1, <4>2, <5>2
      <4> QED BY <4>1, <4>2
    <3>3. \A n \in Blank(sm, m, g) : ny[n][0] = nx[n][0]
      <4>1. \A n \in Blank(sm, m, g) : n \in Nodes \ (N \cup A)
        BY <1>3, <1>11, <3>1
      <4> QED BY <1>10, <4>1 DEF Within
    <3> QED BY <3>2, <3>3, QueueFramed
  <2> QED BY <2>1, <2>2 DEF Stacks
<1>14. W \subseteq Freed(sm) /\ Links(ny)
  BY <1>1, <1>9, <1>10 DEF Within
<1>15. Lists(sm, ny, eg, wh, wt, m, W)
  BY <1>6, <1>10, <1>12, <1>13, <1>14 DEF Lists
<1>16. /\ x \in Ids \ Taken(sl) /\ inserted.ok
       /\ flag # "FREE" => Within(nx, ny, InUse(sl) \cup {AddressList, x})
  BY <1>3, <1>10 DEF A
<1> QED BY <1>4, <1>15, <1>16 DEF Inserted, x, sm, nc, inserted, ny, eg

(* A block of new slots becomes the list of the unused ones of a height.    *)
Cut(sl, m, h, count) ==
  [x \in Ids |-> IF x \in m + 1 .. m + count THEN [sl[x] EXCEPT !.level = h] ELSE sl[x]]
Threaded(nx, m, front, count) ==
  [n \in Nodes |-> IF n \in m + 1 .. m + count
                   THEN [nx[n] EXCEPT ![0] = IF n = m + 1 THEN front ELSE n - 1]
                   ELSE nx[n]]
LEMMA FreshQueue ==
  ASSUME NEW m \in Nat, NEW count \in Nat \ {0}, m + count <= MaxSlots,
         NEW ny, \A n \in m + 1 .. m + count : ny[n][0] = IF n = m + 1 THEN NIL ELSE n - 1
  PROVE  Queue(m + 1 .. m + count, Down, ny, m + count)
<1> DEFINE fresh == m + 1 .. m + count
<1>1. MaxSlots \in Nat /\ fresh \subseteq Ids /\ NIL \notin fresh /\ m + count # NIL
      /\ m + count \in fresh
  BY SkipListAssumption DEF Ids, NIL
<1>2. \A x \in fresh : Down[x] = MaxSlots + 1 - x
  BY <1>1 DEF Down
<1>3. \A x \in fresh : Down[x] \in Nat \ {0} /\ x \in Nat
  BY <1>1, <1>2
<1>4. \A x, y \in fresh : Down[x] <= Down[y] <=> y <= x
  BY <1>1, <1>2, <1>3
<1>5. Ranked(fresh, Down)
  BY <1>1, <1>2, <1>3 DEF Ranked
<1>6. Follows(fresh, Down, 0, m + count)
  <2>1. \A x \in fresh : Down[m + count] <= Down[x]
    <3>1. \A x \in fresh : x <= m + count
      OBVIOUS
    <3> HIDE DEF fresh
    <3> QED BY <1>1, <1>4, <3>1
  <2>2. Down[m + count] > 0
    BY <1>1, <1>3
  <2> HIDE DEF fresh
  <2> QED BY <1>1, <2>1, <2>2 DEF Follows
<1>7. ASSUME NEW n \in fresh PROVE Follows(fresh, Down, Down[n], ny[n][0])
  <2>1. CASE n = m + 1
    <3>1. ny[n][0] = NIL
      BY <2>1
    <3>2. \A x \in fresh : Down[x] <= Down[n]
      <4>1. \A x \in fresh : n <= x
        BY <2>1
      <4> HIDE DEF fresh
      <4> QED BY <1>4, <4>1
    <3> HIDE DEF fresh
    <3> QED BY <3>1, <3>2 DEF Follows
  <2>2. CASE n # m + 1
    <3>1. ny[n][0] = n - 1 /\ n - 1 \in fresh /\ n - 1 # NIL /\ n \in Nat
      BY <1>1, <2>2
    <3>2. Down[n - 1] > Down[n]
      BY <1>1, <1>2, <3>1
    <3>3. \A x \in fresh : Down[x] <= Down[n] \/ Down[n - 1] <= Down[x]
      <4> HIDE DEF fresh
      <4> QED BY <1>3, <1>4, <3>1
    <3> HIDE DEF fresh
    <3> QED BY <3>1, <3>2, <3>3 DEF Follows
  <2> QED BY <2>1, <2>2
<1> HIDE DEF fresh
<1>8. Queue(fresh, Down, ny, m + count)
  BY <1>1, <1>5, <1>6, <1>7 DEF Queue
<1> QED BY <1>8 DEF fresh

LEMMA AllocKeepsLists ==
  ASSUME NEW sl, NEW nx, NEW ef, NEW wh, NEW wt, NEW m, NEW W, Lists(sl, nx, ef, wh, wt, m, W),
         NEW h \in Heights, ef[h] = NIL, NEW count \in Nat \ {0}, m + count <= MaxSlots
  PROVE  /\ Lists(Cut(sl, m, h, count), Threaded(nx, m, ef[h], count),
                  [ef EXCEPT ![h] = m + count], wh, wt, m + count, W)
         /\ \A y \in Ids : /\ Cut(sl, m, h, count)[y].mem = sl[y].mem
                           /\ Cut(sl, m, h, count)[y].size = sl[y].size
                           /\ Cut(sl, m, h, count)[y].flag = sl[y].flag
         /\ \E nodes : /\ Within(nx, Threaded(nx, m, ef[h], count), nodes)
                       /\ nodes \cap (Taken(sl) \cup {SizeList}) = {}
         /\ \A y \in Taken(sl) : Cut(sl, m, h, count)[y] = sl[y]
<1> DEFINE fresh == m + 1 .. m + count
           sm == Cut(sl, m, h, count)
           ny == Threaded(nx, m, ef[h], count)
           eg == [ef EXCEPT ![h] = m + count]
           k == m + count
<1>1. /\ Slots(sl, m) /\ Links(nx) /\ W \subseteq Freed(sl) /\ sl \in [Ids -> SlotType]
      /\ Skip(InUse(sl), AddressList, ByAddress(sl), sl, nx)
      /\ Stacks(sl, nx, ef, m) /\ Sizewise(sl, nx, Freed(sl) \ W) /\ Waitwise(nx, W, wh, wt)
      /\ ef \in [Heights -> Ids \cup {NIL}]
      /\ \A g \in Heights : Queue(Blank(sl, m, g), Down, nx, ef[g])
      /\ \A x \in Ids : sl[x].flag # "none" => x <= m
  BY DEF Lists, Slots, Stacks
<1>2. /\ m \in Nat /\ MaxSlots \in Nat /\ Ids \subseteq Nat /\ fresh \subseteq Ids /\ k \in 0 .. MaxSlots
      /\ k \in Ids /\ h \in SkipLevels /\ 0 \in SkipLevels /\ m <= k
      /\ \A x \in Ids : x \in fresh <=> ~(x <= m) /\ x <= k
      /\ Ids \subseteq Nodes /\ AddressList \notin Ids /\ SizeList \notin Ids
      /\ \A x \in fresh : x # m + 1 => x - 1 \in Ids
      /\ NIL \notin fresh
  <2>1. m \in Nat /\ MaxSlots \in Nat
    BY <1>1, SkipListAssumption DEF Slots
  <2>2. h \in SkipLevels
    BY SkipListAssumption DEF SkipLevels
  <2> QED BY <2>1, <2>2, SomeIds DEF Ids, NIL
<1>3. \A x \in Ids : /\ x \in fresh => x \notin Taken(sl) /\ sm[x].level = h
                     /\ x \notin fresh => sm[x] = sl[x]
                     /\ sm[x] \in SlotType
                     /\ sm[x].mem = sl[x].mem /\ sm[x].size = sl[x].size /\ sm[x].flag = sl[x].flag
  <2> SUFFICES ASSUME NEW x \in Ids
               PROVE  /\ x \in fresh => x \notin Taken(sl) /\ sm[x].level = h
                      /\ x \notin fresh => sm[x] = sl[x]
                      /\ sm[x] \in SlotType
                      /\ sm[x].mem = sl[x].mem /\ sm[x].size = sl[x].size
                      /\ sm[x].flag = sl[x].flag
    OBVIOUS
  <2>1. sl[x] \in SlotType
    BY <1>1
  <2>2. x \in fresh => x \notin Taken(sl)
    BY <1>1, <1>2 DEF Taken
  <2>3. CASE x \in fresh
    <3>1. PICK s : s = [sl[x] EXCEPT !.level = h]
      OBVIOUS
    <3>2. s \in SlotType /\ s.level = h /\ s.mem = sl[x].mem /\ s.size = sl[x].size
          /\ s.flag = sl[x].flag
      BY <1>2, <2>1, <3>1 DEF SlotType
    <3>3. sm[x] = s
      BY <2>3, <3>1 DEF Cut
    <3> QED BY <2>2, <2>3, <3>2, <3>3
  <2>4. CASE x \notin fresh
    <3>1. sm[x] = sl[x]
      BY <2>4 DEF Cut
    <3> QED BY <2>1, <2>4, <3>1
  <2> QED BY <2>3, <2>4
<1>4. /\ Links(ny) /\ Within(nx, ny, fresh)
      /\ \A n \in fresh : ny[n][0] = IF n = m + 1 THEN NIL ELSE n - 1
  <2>1. ASSUME NEW n \in Nodes, n \in fresh
        PROVE  ny[n] \in [SkipLevels -> Ids \cup {NIL}] /\ ny[n][0] = IF n = m + 1 THEN NIL ELSE n - 1
    <3>1. PICK i : i = IF n = m + 1 THEN NIL ELSE n - 1
      OBVIOUS
    <3>2. i \in Ids \cup {NIL}
      BY <1>2, <2>1, <3>1
    <3>3. ny[n] = [nx[n] EXCEPT ![0] = i]
      BY <2>1, <3>1 DEF Threaded
    <3>4. nx[n] \in [SkipLevels -> Ids \cup {NIL}]
      BY <1>1 DEF Links
    <3> QED BY <1>2, <3>1, <3>2, <3>3, <3>4
  <2>2. ASSUME NEW n \in Nodes, n \notin fresh PROVE ny[n] = nx[n]
    BY <2>2 DEF Threaded
  <2>3. ny = [n \in Nodes |-> ny[n]]
    BY DEF Threaded
  <2> HIDE DEF ny, fresh
  <2>4. Links(ny)
    <3>1. \A n \in Nodes : ny[n] \in [SkipLevels -> Ids \cup {NIL}]
      BY <1>1, <2>1, <2>2 DEF Links
    <3> QED BY <2>3, <3>1 DEF Links
  <2> QED BY <1>2, <2>1, <2>2, <2>4 DEF Within
<1>5. sm \in [Ids -> SlotType]
  <2>1. sm = [x \in Ids |-> sm[x]]
    BY DEF Cut
  <2> HIDE DEF sm
  <2> QED BY <1>3, <2>1
<1>6. Blank(sl, m, h) = {}
  <2>1. Queue(Blank(sl, m, h), Down, nx, NIL)
    BY <1>1
  <2> QED BY <2>1, QueueFirst
<1>7. Queue(fresh, Down, ny, k)
  BY <1>2, <1>4, FreshQueue
<1> HIDE DEF sm, ny, k
<1>8. Slots(sm, k)
  <2>1. \A x \in Ids : (sm[x].flag # "none" => x <= k) /\ (x <= k => sm[x].level \in Heights)
    BY <1>1, <1>2, <1>3 DEF Slots
  <2> QED BY <1>2, <1>5, <2>1 DEF Slots
<1>9. InUse(sm) = InUse(sl) /\ Freed(sm) = Freed(sl) /\ Taken(sm) = Taken(sl)
  BY <1>3 DEF InUse, Freed, Taken
<1>10. fresh \cap Taken(sl) = {} /\ InUse(sl) \subseteq Taken(sl) /\ Freed(sl) \subseteq Taken(sl)
       /\ InUse(sl) \subseteq Ids /\ Freed(sl) \subseteq Ids
  BY <1>1, <1>2, <1>3, Kinds
<1> HIDE DEF fresh
<1>11. ASSUME NEW g \in Heights PROVE Blank(sm, k, g) = IF g = h THEN fresh ELSE Blank(sl, m, g)
  <2>1. \A x \in Ids : x \in Blank(sm, k, g) <=> x <= k /\ sm[x].flag = "none" /\ sm[x].level = g
    BY <1>2 DEF Blank, Ids
  <2>2. \A x \in Ids : x \in Blank(sl, m, g) <=> x <= m /\ sl[x].flag = "none" /\ sl[x].level = g
    BY <1>2 DEF Blank, Ids
  <2>3. Blank(sm, k, g) \subseteq Ids /\ Blank(sl, m, g) \subseteq Ids
    BY <1>2 DEF Blank, Ids
  <2>4. \A x \in fresh : x \in Ids /\ sm[x].flag = "none" /\ sm[x].level = h
    BY <1>2, <1>3 DEF Taken
  <2>5. \A x \in Ids \ fresh : x <= k <=> x <= m
    BY <1>2, k \in Nat
  <2>6. \A x \in fresh : x <= k /\ ~(x <= m)
    BY <1>2
  <2>7. \A x \in Ids \ fresh : sm[x] = sl[x]
    BY <1>3
  <2>8. CASE g = h
    <3>1. \A x \in Ids : x \in Blank(sm, k, g) <=> x \in fresh
      BY <1>6, <2>1, <2>2, <2>4, <2>5, <2>6, <2>7, <2>8
    <3> QED BY <2>3, <2>4, <2>8, <3>1
  <2>9. CASE g # h
    <3>1. \A x \in Ids : x \in Blank(sm, k, g) <=> x \in Blank(sl, m, g)
      BY <2>1, <2>2, <2>4, <2>5, <2>6, <2>7, <2>9
    <3> QED BY <2>3, <2>9, <3>1
  <2> QED BY <2>8, <2>9
<1>12. Stacks(sm, ny, eg, k)
  <2>1. eg \in [Heights -> Ids \cup {NIL}] /\ eg[h] = k /\ \A g \in Heights \ {h} : eg[g] = ef[g]
    BY <1>1, <1>2 DEF k
  <2> HIDE DEF eg
  <2>2. ASSUME NEW g \in Heights PROVE Queue(Blank(sm, k, g), Down, ny, eg[g])
    <3>1. CASE g = h
      BY <1>7, <1>11, <2>1, <3>1
    <3>2. CASE g # h
      <4>1. Blank(sm, k, g) = Blank(sl, m, g)
        BY <1>11, <3>2
      <4>2. \A n \in Blank(sl, m, g) : n \in Nodes \ fresh
        <5>1. \A n \in Blank(sl, m, g) : n \in Ids /\ n <= m
          BY <1>2 DEF Blank, Ids
        <5> QED BY <1>2, <5>1
      <4>3. \A n \in Blank(sl, m, g) : ny[n][0] = nx[n][0]
        BY <1>4, <4>2 DEF Within
      <4>4. Queue(Blank(sl, m, g), Down, ny, ef[g])
        BY <1>1, <4>3, QueueFramed
      <4> QED BY <2>1, <3>2, <4>1, <4>4
    <3> QED BY <3>1, <3>2
  <2> QED BY <2>1, <2>2 DEF Stacks
<1>13. Skip(InUse(sm), AddressList, ByAddress(sm), sm, ny)
  <2>1. fresh \cap (InUse(sl) \cup {AddressList}) = {}
    BY <1>2, <1>10
  <2>2. \A y \in InUse(sl) : sm[y].level = sl[y].level /\ sm[y].mem = sl[y].mem
    BY <1>3, <1>10
  <2>3. Skip(InUse(sl), AddressList, ByAddress(sm), sm, ny)
    BY <1>1, <1>4, <1>5, <2>1, <2>2, AddressFramed
  <2> QED BY <1>9, <2>3
<1>14. Sizewise(sm, ny, Freed(sm) \ W)
  <2>1. fresh \cap ((Freed(sl) \ W) \cup {SizeList}) = {}
    BY <1>2, <1>10
  <2>2. \A y \in Freed(sl) \ W : sm[y].level = sl[y].level /\ sm[y].size = sl[y].size
    BY <1>3, <1>10
  <2>3. Sizewise(sm, ny, Freed(sl) \ W)
    BY <1>1, <1>4, <2>1, <2>2, SizewiseFramed
  <2> QED BY <1>9, <2>3
<1>15. Waitwise(ny, W, wh, wt)
  <2>1. fresh \cap W = {}
    BY <1>1, <1>10
  <2> QED BY <1>1, <1>4, <2>1, WaitwiseFramed
<1>16. Lists(sm, ny, eg, wh, wt, k, W)
  BY <1>1, <1>4, <1>8, <1>9, <1>12, <1>13, <1>14, <1>15 DEF Lists
<1>17. fresh \cap (Taken(sl) \cup {SizeList}) = {} /\ \A y \in Taken(sl) : sm[y] = sl[y]
  <2>1. \A y \in Taken(sl) : y \in Ids /\ y \notin fresh
    BY <1>2, <1>3 DEF Taken
  <2>2. SizeList \notin fresh
    BY <1>2
  <2>3. \A y \in Taken(sl) : sm[y] = sl[y]
    BY <1>3, <2>1
  <2> QED BY <2>1, <2>2, <2>3
<1> QED BY <1>3, <1>4, <1>16, <1>17 DEF sm, ny, eg, k

-----------------------------------------------------------------------------
(* The heap: what _dmalloc_heap_alloc returns it never returned before, and *)
(* the bounds stay true, whichever way the break moves, whatever the sizes *)
(* are and whoever else moves the break in between.                        *)
LEMMA Remainder ==
  ASSUME NEW x \in Int
  PROVE  BLOCK_SIZE - (x % BLOCK_SIZE) \in Nat \ {0}
<1>1. BLOCK_SIZE \in Nat \ {0}
  BY HeapExtendAssumption
<1>2. x % BLOCK_SIZE \in 0 .. BLOCK_SIZE - 1
  BY <1>1
<1> QED BY <1>1, <1>2

(* What an extension that succeeds adds: fresh memory within the bounds.    *)
LEMMA Extension ==
  ASSUME HInv, NEW incr \in Nat \ {0}, Extended(incr), UNCHANGED grows
  PROVE  /\ brk' \in Int /\ brk' >= 1 /\ low' \in Int /\ high' \in Int
         /\ Place(incr) \in Int /\ Place(incr) >= 1
         /\ low' # 0 /\ low' <= Place(incr) /\ Place(incr) + incr <= high'
         /\ low # 0 => low' <= low
         /\ high <= high'
         /\ IF grows = "up" THEN Place(incr) + incr <= brk' ELSE brk' <= Place(incr)
         /\ \A r \in given : /\ IF grows = "up" THEN r.lo + r.size <= brk' ELSE brk' <= r.lo
                            /\ Apart(r, Extent(Place(incr), incr))
         /\ first # 0 => IF grows = "up" THEN first + want <= brk' ELSE brk' <= first
<1> USE DEF HInv, HeapType, GivenBehind, Behind
<1>0. SystemEnd \in Nat /\ (grows = "up" \/ grows = "down")
  BY HeapExtendAssumption
<1>1. /\ brk' \in Int /\ brk' >= 1 /\ low' \in Int /\ high' \in Int
      /\ Place(incr) \in Int /\ Place(incr) >= 1
      /\ low' # 0 /\ low' <= Place(incr) /\ Place(incr) + incr <= high'
      /\ low # 0 => low' <= low
      /\ high <= high'
  BY <1>0 DEF Extended, Place, Room
<1>2. IF grows = "up" THEN Place(incr) + incr <= brk' ELSE brk' <= Place(incr)
  BY <1>0 DEF Extended, Place
<1>3. ASSUME NEW r \in given
      PROVE  /\ IF grows = "up" THEN r.lo + r.size <= brk' ELSE brk' <= r.lo
             /\ Apart(r, Extent(Place(incr), incr))
  <2>1. r.lo \in Int /\ r.size \in Nat
    OBVIOUS
  <2>2. IF grows = "up" THEN r.lo + r.size <= brk ELSE brk <= r.lo
    OBVIOUS
  <2> QED BY <1>0, <2>1, <2>2 DEF Extended, Place, Apart, Extent
<1>4. first # 0 => IF grows = "up" THEN first + want <= brk' ELSE brk' <= first
  BY <1>0 DEF Extended
<1> QED BY <1>1, <1>2, <1>3, <1>4

(* An extension that fails leaves the lower bound where something was       *)
(* given, and at most raises the upper one.                                 *)
LEMMA Refusal ==
  ASSUME HInv, NEW incr \in Nat \ {0}, Refused(incr)
  PROVE  /\ brk' = brk /\ low' \in Int /\ high' \in Int
         /\ low # 0 => low' = low
         /\ high <= high'
BY HeapExtendAssumption DEF Refused, HInv, HeapType

(* Returning a range that is apart from the others, behind the break and    *)
(* within the bounds keeps the invariant; so does returning nothing.        *)
LEMMA Returned ==
  ASSUME HInv, NEW mem \in Int, mem >= 1, want \in Nat \ {0},
         Return(mem),
         brk' \in Int, brk' >= 1, low' \in Int, high' \in Int,
         low' # 0, low # 0 => low' <= low, high <= high',
         low' <= mem, mem + want <= high',
         \A r \in given : /\ IF grows = "up" THEN r.lo + r.size <= brk' ELSE brk' <= r.lo
                         /\ Apart(r, Extent(mem, want)),
         grows' = grows, IF grows = "up" THEN mem + want <= brk' ELSE brk' <= mem
  PROVE  HInv'
<1> USE DEF HInv, HeapType, HEAP_ALLOC_ERROR
<1>1. given' = given \cup {Extent(mem, want)} /\ want' = 0 /\ first' = 0 /\ got' = mem
  BY DEF Return
<1>2. Extent(mem, want) \in [lo : Int, size : Nat \ {0}]
  BY DEF Extent
<1>3. HeapType'
  BY <1>1, <1>2
<1>4. GivenBehind'
  BY <1>1, <1>2 DEF GivenBehind, Behind, Extent
<1>5. GivenApart'
  <2> SUFFICES ASSUME NEW r \in given', NEW s \in given', r # s PROVE Apart(r, s)
    BY DEF GivenApart, Apart
  <2>1. r \in [lo : Int, size : Nat \ {0}] /\ s \in [lo : Int, size : Nat \ {0}]
    BY <1>3
  <2>2. CASE r \in given /\ s \in given
    BY <2>2 DEF GivenApart
  <2>3. CASE r \in given /\ s = Extent(mem, want)
    BY <2>3
  <2>4. CASE s \in given /\ r = Extent(mem, want)
    BY <2>1, <2>4 DEF Apart, Extent
  <2> QED BY <1>1, <2>2, <2>3, <2>4
<1>6. GivenInBounds'
  BY <1>1, <1>2 DEF GivenInBounds, GivenBehind, Extent
<1> QED BY <1>3, <1>4, <1>5, <1>6

LEMMA ReturnedNothing ==
  ASSUME HInv, NEW incr \in Nat \ {0}, Refused(incr), Return(HEAP_ALLOC_ERROR)
  PROVE  HInv'
<1>1. given' = given /\ grows' = grows /\ want' = 0 /\ first' = 0 /\ got' = 0
  BY DEF Return, HEAP_ALLOC_ERROR
<1>2. /\ brk' = brk /\ low' \in Int /\ high' \in Int
      /\ low # 0 => low' = low
      /\ high <= high'
  BY Refusal
<1>3. HeapType'
  BY <1>1, <1>2 DEF HInv, HeapType
<1>4. GivenBehind'
  BY <1>1, <1>2 DEF HInv, HeapType, GivenBehind, Behind
<1>5. GivenApart'
  BY <1>1 DEF HInv, GivenApart, Apart
<1>6. GivenInBounds'
  BY <1>1, <1>2 DEF HInv, HeapType, GivenInBounds, GivenBehind
<1> QED BY <1>3, <1>4, <1>5, <1>6 DEF HInv

LEMMA HeapInvariantStep == HInv /\ [HeapNext]_heapvars => HInv'
<1> SUFFICES ASSUME HInv, [HeapNext]_heapvars PROVE HInv'
  OBVIOUS
<1> USE DEF HInv, HeapType
<1>1. ASSUME NEW n \in Nat, HeapAlloc(n) PROVE HInv'
  BY <1>1 DEF HeapAlloc, AskHeap, GivenBehind, GivenApart, GivenInBounds, Behind, Apart
<1>2. CASE FirstExtension
  <2>0. want \in Nat \ {0} /\ first = 0
    BY <1>2 DEF FirstExtension
  <2>1. CASE Refused(want) /\ Return(HEAP_ALLOC_ERROR)
    BY <2>0, <2>1, ReturnedNothing
  <2>2. CASE Extended(want) /\ Return(Place(want))
    <3>1. grows' = grows
      BY <2>2 DEF Return
    <3> QED BY <2>0, <2>2, <3>1, Extension, Returned DEF Behind
  <2>3. CASE Extended(want) /\ first' = Place(want) /\ UNCHANGED <<grows, want, got, given>>
    <3>1. HeapType' /\ GivenApart' /\ GivenInBounds'
      BY <2>0, <2>3, Extension DEF GivenApart, GivenInBounds, GivenBehind, Apart
    <3>2. /\ first' >= 1 /\ want' = want /\ grows' = grows /\ given' = given
          /\ Place(want) = first'
      BY <2>0, <2>3, Extension
    <3>3. /\ \A r \in given' : Behind(r.lo, r.size)' /\ Apart(r, Extent(first', want'))
          /\ Behind(first, want)' /\ low' <= first' /\ first' + want' <= high'
          /\ low' # 0 /\ brk' >= 1
      BY <2>0, <2>3, <3>2, Extension DEF Behind
    <3>4. GivenBehind'
      <4>1. \A r \in given' : Apart(r, Extent(first, want))'
        BY <3>3 DEF Apart, Extent
      <4>2. first' > 0 /\ want' > 0 /\ (given' # {} => low' # 0)
        BY <2>0, <3>2, <3>3, <3>1
      <4>3. \A r \in given' : Behind(r.lo, r.size)'
        BY <3>3
      <4> QED BY <4>1, <4>2, <4>3, <3>3 DEF GivenBehind
    <3> QED BY <3>1, <3>4
  <2> QED BY <1>2, <2>1, <2>2, <2>3 DEF FirstExtension
<1>3. CASE SecondExtension
  <2> DEFINE diff == BLOCK_SIZE - (first % BLOCK_SIZE)
  <2>0. want \in Nat \ {0} /\ first \in Int /\ first > 0
    BY <1>3 DEF SecondExtension
  <2>1. diff \in Nat \ {0}
    BY <2>0, Remainder
  <2> HIDE DEF diff
  <2>2. CASE Refused(diff) /\ Return(HEAP_ALLOC_ERROR)
    BY <2>1, <2>2, ReturnedNothing
  <2>3. CASE Extended(diff) /\ Place(diff) + diff = first /\ Return(Place(diff))
    <3>1. grows' = grows
      BY <2>3 DEF Return
    <3>2. grows = "down"
      BY HeapExtendAssumption, <2>0, <2>1, <2>3 DEF GivenBehind, Behind, Place
    <3>3. \A r \in given : Apart(r, Extent(Place(diff), want))
      BY <2>0, <2>1, <2>3, <3>2 DEF GivenBehind, Behind, Place, Apart, Extent
    <3>4. Place(diff) + want <= high /\ high <= high'
      BY <2>0, <2>1, <2>3, <3>1, Extension DEF GivenBehind
    <3>5. brk' <= Place(diff)
      BY <2>3, <3>2 DEF Extended, Place
    <3> QED BY <2>0, <2>1, <2>3, <3>1, <3>2, <3>3, <3>4, <3>5, Extension, Returned
  <2>4. CASE Extended(diff) /\ first + want = Place(diff) /\ Return(first + diff)
    <3>1. grows' = grows
      BY <2>4 DEF Return
    <3>2. grows = "up"
      BY HeapExtendAssumption, <2>0, <2>1, <2>4 DEF GivenBehind, Behind, Place
    <3>3. \A r \in given : Apart(r, Extent(first + diff, want))
      BY <2>0, <2>1, <2>4, <3>2 DEF GivenBehind, Behind, Place, Apart, Extent
    <3>4. low' <= first + diff /\ first + diff + want <= high'
      BY <2>0, <2>1, <2>4, <3>1, Extension DEF GivenBehind
    <3>5. first + diff + want <= brk'
      BY <2>0, <2>1, <2>4, <3>2 DEF Extended, Place
    <3> QED BY <2>0, <2>1, <2>4, <3>1, <3>2, <3>3, <3>4, <3>5, Extension, Returned
  <2>5. CASE Extended(diff) /\ first' = 0 /\ UNCHANGED <<grows, want, got, given>>
    BY <2>1, <2>5, Extension DEF GivenBehind, GivenApart, GivenInBounds, Behind, Apart
  <2> QED BY <1>3, <2>2, <2>3, <2>4, <2>5 DEF SecondExtension, diff
<1>4. ASSUME NEW n \in Others[grows], OtherMoves(n) PROVE HInv'
  <2>1. n \in Nat \ {0} /\ SystemEnd \in Nat /\ grows \in Directions
    BY <1>4, HeapExtendAssumption
  <2>2. grows = "up" \/ grows = "down"
    BY HeapExtendAssumption
  <2> QED BY <1>4, <2>1, <2>2
          DEF OtherMoves, Room, GivenBehind, GivenApart, GivenInBounds, Behind, Apart
<1>5. CASE UNCHANGED heapvars
  BY <1>5 DEF heapvars, GivenBehind, GivenApart, GivenInBounds, Behind, Apart
<1> QED BY <1>1, <1>2, <1>3, <1>4, <1>5 DEF HeapNext, HeapStep

(* Memory is given once, behind the break and within the bounds that later  *)
(* pointer checks go by, for every block size, size and interference.       *)
THEOREM HeapInvariance == HeapSpec => []HInv
<1>1. HeapInit => HInv
  BY HeapExtendAssumption
     DEF HeapInit, HInv, HeapType, GivenBehind, GivenApart, GivenInBounds
<1> QED BY <1>1, HeapInvariantStep, PTL DEF HeapSpec

-----------------------------------------------------------------------------
LEMMA RoundedUp ==
  ASSUME NEW x \in Int
  PROVE  (x + (BLOCK_SIZE - (x % BLOCK_SIZE))) % BLOCK_SIZE = 0
<1>0. BLOCK_SIZE \in Nat \ {0}
  BY HeapExtendAssumption
<1>1. x = BLOCK_SIZE * (x \div BLOCK_SIZE) + (x % BLOCK_SIZE)
  BY <1>0, SMT
<1>2. x + (BLOCK_SIZE - (x % BLOCK_SIZE)) = BLOCK_SIZE * ((x \div BLOCK_SIZE) + 1)
  BY <1>0, <1>1, SMT
<1>3. ASSUME NEW k \in Int PROVE (BLOCK_SIZE * k) % BLOCK_SIZE = 0
  BY <1>0, SMT
<1> QED BY <1>0, <1>2, <1>3

LEMMA AlignedStep ==
  ASSUME HInv, BlocksAligned, [HeapNext]_heapvars PROVE BlocksAligned'
<1> USE DEF BlocksAligned
<1> SUFFICES ASSUME grows' = "up" PROVE \A r \in given' : r.lo % BLOCK_SIZE = 0
  OBVIOUS
<1>00. grows' = grows
  BY DEF HeapNext, HeapStep, HeapAlloc, OtherMoves, heapvars, FirstExtension, SecondExtension,
         Return
<1>0. grows = "up" /\ first \in Int /\ \A r \in given : r.lo % BLOCK_SIZE = 0
  BY <1>00 DEF HInv, HeapType
<1>1. ASSUME NEW mem \in Int, Return(mem), mem = 0 \/ mem % BLOCK_SIZE = 0
      PROVE  \A r \in given' : r.lo % BLOCK_SIZE = 0
  BY <1>0, <1>1 DEF Return, HEAP_ALLOC_ERROR, Extent
<1>2. CASE FirstExtension
  <2>1. Place(want) \in Int
    BY <1>0 DEF Place, HInv, HeapType
  <2> QED BY <1>1, <1>2, <2>1 DEF FirstExtension, HEAP_ALLOC_ERROR
<1>3. CASE SecondExtension
  <2> DEFINE diff == BLOCK_SIZE - (first % BLOCK_SIZE)
  <2>1. diff \in Nat \ {0} /\ (first + diff) % BLOCK_SIZE = 0
    BY <1>0, Remainder, RoundedUp
  <2> HIDE DEF diff
  <2>2. want \in Nat \ {0} /\ first > 0
    BY <1>3 DEF SecondExtension, HInv, HeapType
  <2>3. Place(diff) + diff # first
    BY <1>0, <2>1, <2>2 DEF Place, HInv, HeapType, GivenBehind, Behind
  <2>4. CASE Return(HEAP_ALLOC_ERROR)
    BY <1>1, <2>4 DEF HEAP_ALLOC_ERROR
  <2>5. CASE Return(first + diff)
    BY <1>0, <1>1, <2>1, <2>5
  <2>6. CASE given' = given
    BY <1>0, <2>6
  <2> QED BY <1>3, <2>3, <2>4, <2>5, <2>6 DEF SecondExtension, diff
<1>4. CASE given' = given
  BY <1>0, <1>4
<1> QED BY <1>2, <1>3, <1>4 DEF HeapNext, HeapStep, HeapAlloc, OtherMoves, heapvars

(* What _dmalloc_heap_alloc comes to: it goes on, fails, or returns memory *)
(* that is apart from all that it returned before.                         *)
Unreturned == given' = given /\ want' = want /\ got' = got
Failed == given' = given /\ want' = 0 /\ got' = HEAP_ALLOC_ERROR
Gave == /\ want' = 0 /\ got' \in Nat \ {0} /\ want \in Nat \ {0}
        /\ given' = given \cup {Extent(got', want)}
        /\ \A r \in given : Apart(r, Extent(got', want))
LEMMA HeapReturns == ASSUME HInv, HeapStep PROVE Unreturned \/ Failed \/ Gave
<1>1. ASSUME Return(HEAP_ALLOC_ERROR) PROVE Failed
  BY <1>1 DEF Return, Failed
<1>2. ASSUME NEW mem \in Int, mem >= 1, want \in Nat \ {0}, Return(mem),
             \A r \in given : Apart(r, Extent(mem, want))
      PROVE  Gave
  BY <1>2 DEF Return, Gave, HEAP_ALLOC_ERROR
<1>3. CASE FirstExtension
  <2>0. want \in Nat \ {0}
    BY <1>3 DEF FirstExtension, HInv, HeapType
  <2>1. CASE Extended(want) /\ Return(Place(want))
    <3>1. grows' = grows
      BY <2>1 DEF Return
    <3>2. /\ Place(want) \in Int /\ Place(want) >= 1
          /\ \A r \in given : Apart(r, Extent(Place(want), want))
      BY <2>0, <2>1, <3>1, Extension
    <3> QED BY <1>2, <2>0, <2>1, <3>2
  <2> QED BY <1>1, <1>3, <2>1 DEF FirstExtension, Unreturned
<1>4. CASE SecondExtension
  <2> DEFINE diff == BLOCK_SIZE - (first % BLOCK_SIZE)
  <2>0. want \in Nat \ {0} /\ first \in Int /\ first > 0
    BY <1>4 DEF SecondExtension, HInv, HeapType
  <2>1. diff \in Nat \ {0}
    BY <2>0, Remainder
  <2> HIDE DEF diff
  <2>2. CASE Extended(diff) /\ Place(diff) + diff = first /\ Return(Place(diff))
    <3>1. grows' = grows
      BY <2>2 DEF Return
    <3>2. grows = "down"
      BY HeapExtendAssumption, <2>0, <2>1, <2>2
         DEF HInv, HeapType, GivenBehind, Behind, Place
    <3>3. \A r \in given : Apart(r, Extent(Place(diff), want))
      BY <2>0, <2>1, <2>2, <3>2
         DEF HInv, HeapType, GivenBehind, Behind, Place, Apart, Extent
    <3>4. Place(diff) \in Int /\ Place(diff) >= 1
      BY <2>1, <2>2, <3>1, Extension
    <3> QED BY <1>2, <2>0, <2>2, <3>3, <3>4
  <2>3. CASE Extended(diff) /\ first + want = Place(diff) /\ Return(first + diff)
    <3>1. grows = "up"
      BY HeapExtendAssumption, <2>0, <2>1, <2>3
         DEF HInv, HeapType, GivenBehind, Behind, Place
    <3>2. \A r \in given : Apart(r, Extent(first + diff, want))
      BY <2>0, <2>1, <2>3, <3>1
         DEF HInv, HeapType, GivenBehind, Behind, Place, Apart, Extent
    <3>3. first + diff \in Int /\ first + diff >= 1
      BY <2>0, <2>1
    <3> QED BY <1>2, <2>0, <2>3, <3>2, <3>3
  <2> QED BY <1>1, <1>4, <2>2, <2>3 DEF SecondExtension, diff, Unreturned
<1> QED BY <1>3, <1>4 DEF HeapStep

-----------------------------------------------------------------------------
(* Memory: slots stand for parts of blocks, apart from each other and from  *)
(* the pieces that still need one.                                          *)
Inside(gv, e) == \E r \in gv : r.lo <= e.lo /\ e.lo + e.size <= r.lo + r.size
Clear(sl, e) == \A x \in Taken(sl) : Apart(MemoryOf(sl, x), e)
Pieced(sl, gv, td, n) ==
  \A i \in DOMAIN td :
    /\ td[i] \in Nat \ {0} /\ Inside(gv, Extent(td[i], n)) /\ Clear(sl, Extent(td[i], n))
    /\ \A j \in DOMAIN td : i # j => Apart(Extent(td[i], n), Extent(td[j], n))
Housed(sl, gv) ==
  Placed(sl, Taken(sl)) /\ \A x \in Taken(sl) : Inside(gv, MemoryOf(sl, x))
Spare(sl, gv, td, n, e) ==
  e \in gv /\ Clear(sl, e) /\ \A i \in DOMAIN td : Apart(Extent(td[i], n), e)
Blocks(gv) == gv \subseteq [lo : Int, size : Nat \ {0}] /\ \A r \in gv : r.lo > 0

LEMMA InsideApart ==
  ASSUME NEW gv, Blocks(gv), NEW e, e.lo \in Int, e.size \in Int, Inside(gv, e),
         NEW f, f.lo \in Int, f.size \in Int, \A r \in gv : Apart(r, f)
  PROVE  Apart(e, f)
<1>1. PICK r \in gv : r.lo <= e.lo /\ e.lo + e.size <= r.lo + r.size
  BY DEF Inside
<1>2. r.lo \in Int /\ r.size \in Int
  BY DEF Blocks
<1> QED BY <1>1, <1>2 DEF Apart

LEMMA InsideMore ==
  ASSUME NEW gv, NEW gw, gv \subseteq gw, NEW e, Inside(gv, e) PROVE Inside(gw, e)
BY DEF Inside

LEMMA MoreGiven ==
  ASSUME NEW sl, NEW gv, NEW gw, gv \subseteq gw, NEW td, NEW n
  PROVE  /\ Housed(sl, gv) => Housed(sl, gw)
         /\ Pieced(sl, gv, td, n) => Pieced(sl, gw, td, n)
BY InsideMore DEF Housed, Pieced

LEMMA SpareNew ==
  ASSUME NEW sl \in [Ids -> SlotType], NEW gv, Blocks(gv), NEW td, NEW n \in Nat,
         Housed(sl, gv), Pieced(sl, gv, td, n),
         NEW mem \in Nat \ {0}, NEW bytes \in Nat \ {0},
         \A r \in gv : Apart(r, Extent(mem, bytes))
  PROVE  Spare(sl, gv \cup {Extent(mem, bytes)}, td, n, Extent(mem, bytes))
<1>1. PICK f : f = Extent(mem, bytes)
  OBVIOUS
<1>2. f.lo \in Int /\ f.size \in Int /\ \A r \in gv : Apart(r, f)
  BY <1>1 DEF Extent
<1>3. ASSUME NEW x \in Taken(sl) PROVE Apart(MemoryOf(sl, x), f)
  <2>1. x \in Ids
    BY DEF Taken
  <2>2. MemoryOf(sl, x).lo \in Int /\ MemoryOf(sl, x).size \in Int
    BY <2>1, SlotFields DEF MemoryOf, Extent
  <2>3. Inside(gv, MemoryOf(sl, x))
    BY DEF Housed
  <2> QED BY <1>2, <2>2, <2>3, InsideApart
<1>4. ASSUME NEW i \in DOMAIN td PROVE Apart(Extent(td[i], n), f)
  <2>1. td[i] \in Nat /\ Inside(gv, Extent(td[i], n))
    BY DEF Pieced
  <2>2. Extent(td[i], n).lo \in Int /\ Extent(td[i], n).size \in Int
    BY <2>1 DEF Extent
  <2> QED BY <1>2, <2>1, <2>2, InsideApart
<1> QED BY <1>1, <1>3, <1>4 DEF Spare, Clear

LEMMA MemoryRemarked ==
  ASSUME NEW sl, NEW sm, NEW m, NEW x, NEW f, Remarked(sl, sm, m, x, f)
  PROVE  /\ \A gv : Housed(sl, gv) => Housed(sm, gv)
         /\ \A gv, td, n : Pieced(sl, gv, td, n) => Pieced(sm, gv, td, n)
<1>1. Taken(sm) = Taken(sl) /\ \A y \in Taken(sl) : y \in Ids
  BY DEF Remarked, Taken
<1>2. \A y \in Taken(sl) : sm[y].mem = sl[y].mem /\ sm[y].size = sl[y].size
  BY <1>1 DEF Remarked, Same
<1>3. \A y \in Taken(sl) : MemoryOf(sm, y) = MemoryOf(sl, y)
  BY <1>2 DEF MemoryOf
<1> QED BY <1>1, <1>2, <1>3 DEF Housed, Placed, Pieced, Clear

LEMMA MemorySame ==
  ASSUME NEW sl, NEW sm,
         \A y \in Ids : sm[y].mem = sl[y].mem /\ sm[y].size = sl[y].size /\ sm[y].flag = sl[y].flag
  PROVE  /\ \A gv : Housed(sl, gv) => Housed(sm, gv)
         /\ \A gv, td, n : Pieced(sl, gv, td, n) => Pieced(sm, gv, td, n)
         /\ \A gv, td, n, e : Spare(sl, gv, td, n, e) => Spare(sm, gv, td, n, e)
<1>1. Taken(sm) = Taken(sl) /\ \A y \in Taken(sl) : y \in Ids
  BY DEF Taken
<1>2. \A y \in Taken(sl) : MemoryOf(sm, y) = MemoryOf(sl, y) /\ sm[y].mem = sl[y].mem
                           /\ sm[y].size = sl[y].size
  BY <1>1 DEF MemoryOf
<1> QED BY <1>1, <1>2 DEF Housed, Placed, Pieced, Spare, Clear

LEMMA ApartBoth == ASSUME NEW e, NEW f, Apart(e, f) PROVE Apart(f, e)
BY DEF Apart

LEMMA MemoryFilled ==
  ASSUME NEW sl, NEW sm, NEW m, NEW x \in Ids \ Taken(sl), NEW h,
         NEW address \in Nat \ {0}, NEW bytes \in Nat \ {0}, NEW flag,
         Filled(sl, sm, m, x, h, address, bytes, flag),
         NEW gv, Housed(sl, gv), Inside(gv, Extent(address, bytes)),
         Clear(sl, Extent(address, bytes))
  PROVE  /\ Housed(sm, gv)
         /\ \A td, n : /\ Pieced(sl, gv, td, n)
                       /\ \A i \in DOMAIN td : Apart(Extent(td[i], n), Extent(address, bytes))
                       => Pieced(sm, gv, td, n)
<1>1. PICK e : e = Extent(address, bytes)
  OBVIOUS
<1>2. Taken(sm) = Taken(sl) \cup {x} /\ MemoryOf(sm, x) = e /\ x \notin Taken(sl)
      /\ sm[x].mem > 0 /\ sm[x].size > 0
  BY <1>1 DEF Filled, MemoryOf
<1>3. \A y \in Taken(sl) : MemoryOf(sm, y) = MemoryOf(sl, y) /\ sm[y] = sl[y]
  BY DEF Filled, Taken, MemoryOf
<1>4. Inside(gv, e) /\ \A y \in Taken(sl) : Apart(MemoryOf(sl, y), e) /\ Apart(e, MemoryOf(sl, y))
  BY <1>1, ApartBoth DEF Clear
<1>5. Housed(sm, gv)
  BY <1>2, <1>3, <1>4 DEF Housed, Placed
<1>6. ASSUME NEW td, NEW n, Pieced(sl, gv, td, n),
             \A i \in DOMAIN td : Apart(Extent(td[i], n), e)
      PROVE  Pieced(sm, gv, td, n)
  <2>1. \A i \in DOMAIN td : Clear(sm, Extent(td[i], n))
    BY <1>2, <1>3, <1>6, ApartBoth DEF Pieced, Clear
  <2> QED BY <1>6, <2>1 DEF Pieced
<1> QED BY <1>1, <1>5, <1>6

(* The pieces that a block is cut into. *)
LEMMA Times == ASSUME NEW a \in Nat, NEW b \in Nat, NEW n \in Nat, a <= b PROVE a * n <= b * n
<1>1. PICK d \in Nat : b = a + d
  <2>1. b - a \in Nat /\ b = a + (b - a)
    OBVIOUS
  <2> QED BY <2>1
<1>2. b * n = a * n + d * n /\ a * n \in Nat /\ d * n \in Nat
  BY <1>1
<1> QED BY <1>2

LEMMA Fitting ==
  ASSUME NEW b \in Nat, NEW n \in Nat \ {0}
  PROVE  b \div n \in Nat /\ (b \div n) * n <= b /\ (n <= b => b \div n >= 1)
<1>1. b = n * (b \div n) + (b % n) /\ b % n \in 0 .. n - 1 /\ b \div n \in Nat
  BY SMT
<1>2. PICK k \in Nat : k = b \div n
  BY <1>1
<1>3. b = n * k + (b % n)
  BY <1>1, <1>2
<1>4. n * k = k * n /\ k * n \in Nat
  OBVIOUS
<1>5. k * n <= b
  BY <1>1, <1>3, <1>4
<1>6. k = 0 => k * n = 0
  OBVIOUS
<1>7. n <= b => k >= 1
  <2>1. PICK r \in 0 .. n - 1 : r = b % n
    BY <1>1
  <2>2. k = 0 => b = r
    BY <1>3, <1>4, <1>6, <2>1
  <2> QED BY <2>1, <2>2
<1> QED BY <1>2, <1>5, <1>7

LEMMA CutUp ==
  ASSUME NEW sl \in [Ids -> SlotType], NEW gv, NEW mem \in Nat \ {0}, NEW b \in Nat,
         Extent(mem, b) \in gv, Clear(sl, Extent(mem, b)),
         NEW n \in Nat \ {0}, NEW count \in Nat, count * n <= b
  PROVE  Pieced(sl, gv, [i \in 1 .. count |-> mem + (i - 1) * n], n)
<1> DEFINE td == [i \in 1 .. count |-> mem + (i - 1) * n]
<1>1. ASSUME NEW i \in 1 .. count
      PROVE  /\ td[i] \in Nat \ {0} /\ mem <= td[i] /\ td[i] + n <= mem + b
             /\ \A j \in 1 .. count : i < j => td[i] + n <= td[j]
  <2>1. i - 1 \in Nat /\ i \in Nat /\ i <= count /\ td[i] = mem + (i - 1) * n
    OBVIOUS
  <2> HIDE DEF td
  <2>2. (i - 1) * n \in Nat /\ i * n = (i - 1) * n + n /\ i * n <= count * n
    BY <2>1, Times
  <2>3. ASSUME NEW j \in 1 .. count, i < j PROVE td[i] + n <= td[j]
    <3>1. j - 1 \in Nat /\ i <= j - 1 /\ td[j] = mem + (j - 1) * n
      BY <2>1, <2>3 DEF td
    <3>2. i * n <= (j - 1) * n
      BY <2>1, <3>1, Times
    <3>3. (j - 1) * n \in Nat
      BY <3>1
    <3> QED BY <2>1, <2>2, <3>1, <3>2, <3>3
  <2>4. count * n \in Nat
    OBVIOUS
  <2>5. td[i] \in Nat \ {0} /\ mem <= td[i] /\ td[i] + n <= mem + b
    BY <2>1, <2>2, <2>4
  <2> QED BY <2>3, <2>5
<1>2. DOMAIN td = 1 .. count
  OBVIOUS
<1> HIDE DEF td
<1>3. ASSUME NEW i \in 1 .. count PROVE Inside(gv, Extent(td[i], n))
  BY <1>1 DEF Inside, Extent
<1>4. ASSUME NEW i \in 1 .. count PROVE Clear(sl, Extent(td[i], n))
  <2> SUFFICES ASSUME NEW x \in Taken(sl) PROVE Apart(MemoryOf(sl, x), Extent(td[i], n))
    BY DEF Clear
  <2>1. sl[x].mem \in Nat /\ sl[x].size \in Nat
    BY SlotFields DEF Taken
  <2>2. Apart(MemoryOf(sl, x), Extent(mem, b))
    BY DEF Clear
  <2>3. sl[x].mem + sl[x].size <= mem \/ mem + b <= sl[x].mem
    BY <2>2 DEF Apart, MemoryOf, Extent
  <2>4. sl[x].mem + sl[x].size <= td[i] \/ td[i] + n <= sl[x].mem
    BY <1>1, <2>1, <2>3
  <2> QED BY <2>4 DEF Apart, MemoryOf, Extent
<1>5. ASSUME NEW i \in 1 .. count, NEW j \in 1 .. count, i # j
      PROVE  Apart(Extent(td[i], n), Extent(td[j], n))
  <2>1. i < j \/ j < i
    BY <1>5
  <2>2. td[i] + n <= td[j] \/ td[j] + n <= td[i]
    BY <1>1, <2>1
  <2> QED BY <2>2 DEF Apart, Extent
<1>6. Pieced(sl, gv, td, n)
  BY <1>1, <1>2, <1>3, <1>4, <1>5 DEF Pieced
<1> QED BY <1>6 DEF td

LEMMA PiecesFit ==
  ASSUME size \in Sizes, NEW mem \in Nat \ {0}, slot \in [Ids -> SlotType], NEW gv,
         Spare(slot, gv, <<>>, size, Extent(mem, IF Divided THEN BLOCK_SIZE ELSE size))
  PROVE  Pieced(slot, gv, Pieces(mem), size) /\ Pieces(mem) \in Seq(Nat \ {0})
         /\ Pieces(mem) # <<>>
<1>1. size \in Nat \ {0} /\ BLOCK_SIZE \in Nat \ {0}
  BY SizesAssumption, HeapExtendAssumption
<1> DEFINE count == IF Divided THEN BLOCK_SIZE \div size ELSE 1
           b == IF Divided THEN BLOCK_SIZE ELSE size
<1>2. b \in Nat /\ count \in Nat /\ count * size <= b /\ count >= 1
  <2>1. CASE Divided
    <3>1. PICK q \in Nat : q = BLOCK_SIZE \div 2
      BY <1>1, Fitting
    <3>2. q * 2 <= BLOCK_SIZE
      BY <1>1, <3>1, Fitting
    <3>3. size <= BLOCK_SIZE
      BY <1>1, <2>1, <3>1, <3>2 DEF Divided
    <3> QED BY <1>1, <2>1, <3>3, Fitting
  <2>2. CASE ~Divided
    BY <1>1, <2>2
  <2> QED BY <2>1, <2>2
<1>3. Extent(mem, b) \in gv /\ Clear(slot, Extent(mem, b))
  BY DEF Spare
<1>4. Pieces(mem) = [i \in 1 .. count |-> mem + (i - 1) * size]
  BY DEF Pieces
<1> HIDE DEF b, count
<1>5. Pieced(slot, gv, Pieces(mem), size)
  <2>1. PICK n \in Nat \ {0} : n = size
    BY <1>1
  <2>2. Pieced(slot, gv, [i \in 1 .. count |-> mem + (i - 1) * n], n)
    BY <1>2, <1>3, <2>1, CutUp
  <2> QED BY <1>4, <2>1, <2>2
<1>6. DOMAIN Pieces(mem) = 1 .. count /\ \A i \in 1 .. count : Pieces(mem)[i] \in Nat \ {0}
  BY <1>4, <1>5 DEF Pieced
<1>7. Pieces(mem) \in [1 .. count -> Nat \ {0}]
  BY <1>4, <1>6
<1>8. Pieces(mem) \in Seq(Nat \ {0}) /\ Len(Pieces(mem)) = count
  BY <1>2, <1>7
<1> QED BY <1>2, <1>5, <1>8

-----------------------------------------------------------------------------
(* The invariant: the lists, the memory that slots and pieces stand for,    *)
(* and how far the request is.                                              *)
ListsInv == ~list_error /\ \E W : Lists(slot, next, entry_free, wait_head, wait_tail, made, W)

Asked == IF pc = "heap" /\ ~Divided THEN size ELSE BLOCK_SIZE
MemoryInv ==
  /\ HInv /\ \A r \in given : r.lo > 0
  /\ Housed(slot, given) /\ Pieced(slot, given, todo, size)
  /\ pc \in {"heap", "admin"} /\ want = 0 /\ got # HEAP_ALLOC_ERROR =>
       Spare(slot, given, todo, size, Extent(got, Asked))

Height == /\ height \in Heights \cup {-1}
          /\ pc = "admin" => height \in Heights
          /\ pc \notin {"insert", "admin"} => height = -1
Todo == todo \in Seq(Nat \ {0}) /\ (todo # <<>> <=> pc \in {"insert", "admin"})
Wanted == want # 0 => pc \in {"heap", "admin"} /\ want = Asked
SlotsCome == pc = "admin" => IF entry_free[height] = NIL
                             THEN made + SlotsPerBlock[height] <= MaxSlots
                             ELSE want = 0 /\ got # HEAP_ALLOC_ERROR
RequestInv ==
  /\ pc \in {"idle", "reuse", "heap", "insert", "admin", "retake"}
  /\ IF pc = "idle" THEN size = 0 ELSE size \in Sizes
  /\ Height /\ Todo /\ Wanted /\ SlotsCome
RInv == ListsInv /\ MemoryInv /\ RequestInv

LEMMA Parts ==
  ASSUME RInv
  PROVE  /\ slot \in [Ids -> SlotType] /\ Links(next) /\ Blocks(given) /\ size \in Nat
         /\ want \in Nat /\ BLOCK_SIZE \in Nat \ {0}
         /\ pc # "idle" => size \in Nat \ {0}
         /\ ~list_error /\ Placed(slot, Taken(slot))
<1>1. slot \in [Ids -> SlotType] /\ Links(next) /\ ~list_error
  BY DEF RInv, ListsInv, Lists, Slots
<1>2. Blocks(given) /\ want \in Nat /\ Placed(slot, Taken(slot))
  BY DEF RInv, MemoryInv, HInv, HeapType, Blocks, Housed
<1>3. IF pc = "idle" THEN size = 0 ELSE size \in Sizes
  BY DEF RInv, RequestInv
<1>4. \A n \in Sizes : n \in Nat \ {0}
  BY SizesAssumption
<1>5. size \in Nat /\ (pc # "idle" => size \in Nat \ {0})
  BY <1>3, <1>4
<1>6. BLOCK_SIZE \in Nat \ {0}
  BY HeapExtendAssumption
<1> QED BY <1>1, <1>2, <1>5, <1>6

LEMMA HeapMoves == ASSUME RInv, [Next]_vars PROVE [HeapNext]_heapvars
<1>0. (IF Divided THEN BLOCK_SIZE ELSE size) \in Nat /\ BLOCK_SIZE \in Nat
  BY Parts
<1>1. ASSUME UNCHANGED heapvars PROVE [HeapNext]_heapvars
  BY <1>1
<1>2. CASE AskBlock
  BY <1>0, <1>2 DEF AskBlock, HeapNext
<1>3. ASSUME NEW h \in Heights, AskSlots(h) PROVE [HeapNext]_heapvars
  BY <1>0, <1>3 DEF AskSlots, HeapNext
<1>4. CASE HeapRuns
  BY <1>4 DEF HeapRuns, HeapNext
<1>5. ASSUME NEW n \in Others[grows], Other(n) PROVE [HeapNext]_heapvars
  BY <1>5 DEF Other, HeapNext
<1>6. ASSUME NEW n \in Sizes, Request(n) PROVE UNCHANGED heapvars
  BY <1>6 DEF Request
<1>7. CASE DrainWaiting
  BY <1>1, <1>7 DEF DrainWaiting
<1>8. CASE Reuse \/ GotBlock \/ GotSlots \/ InsertAdmin
  BY <1>1, <1>8 DEF Reuse, GotBlock, GotSlots, InsertAdmin
<1>9. ASSUME NEW h \in Heights, InsertNext(h) PROVE UNCHANGED heapvars
  BY <1>9 DEF InsertNext
<1>10. ASSUME NEW pnt, FreePointer(pnt) PROVE UNCHANGED heapvars
  BY <1>10 DEF FreePointer
<1>11. CASE UNCHANGED vars
  BY <1>1, <1>11 DEF vars
<1> QED BY <1>1, <1>2, <1>3, <1>4, <1>5, <1>6, <1>7, <1>8, <1>9, <1>10, <1>11 DEF Next

LEMMA HeapKeeps == ASSUME RInv, [Next]_vars PROVE HInv'
BY HeapMoves, HeapInvariantStep DEF RInv, MemoryInv

LEMMA RequestKeeps == ASSUME RInv, HInv', NEW n \in Sizes, Request(n) PROVE RInv'
<1> USE DEF Request, RInv
<1>1. todo = <<>> /\ want = 0 /\ height = -1
  BY DEF RequestInv, Todo, Wanted, Height
<1>2. Pieced(slot, given, todo, n)
  BY <1>1 DEF Pieced
<1>3. ListsInv'
  BY DEF ListsInv, listvars
<1>4. MemoryInv'
  BY <1>2 DEF MemoryInv, listvars, heapvars
<1>5. RequestInv'
  BY <1>1 DEF RequestInv, listvars, heapvars, Height, Todo, Wanted, SlotsCome
<1> QED BY <1>3, <1>4, <1>5

LEMMA DrainWaitingKeeps == ASSUME RInv, HInv', DrainWaiting PROVE RInv'
<1> USE DEF DrainWaiting, RInv
<1>1. ListsInv'
  <2>1. PICK W : Lists(slot, next, entry_free, wait_head, wait_tail, made, W)
    BY DEF ListsInv
  <2>2. /\ wait_head # NIL
        /\ wait_head' = next[wait_head][0]
        /\ wait_tail' = IF next[wait_head][0] = NIL THEN NIL ELSE wait_tail
        /\ next' = InsertSlot(slot, next, wait_head, SizeList).next
        /\ slot' = slot /\ entry_free' = entry_free /\ made' = made /\ list_error' = list_error
    BY DEF Drain
  <2>3. Lists(slot, InsertSlot(slot, next, wait_head, SizeList).next, entry_free,
              next[wait_head][0], IF next[wait_head][0] = NIL THEN NIL ELSE wait_tail,
              made, W \ {wait_head})
    BY <2>1, <2>2, DrainKeepsLists
  <2>4. Lists(slot', next', entry_free', wait_head', wait_tail', made', W \ {wait_head})
    BY <2>2, <2>3
  <2> QED BY <2>2, <2>4 DEF ListsInv
<1>2. MemoryInv'
  BY DEF MemoryInv, heapvars, request, Drain
<1>3. RequestInv'
  BY DEF RequestInv, heapvars, request, Height, Todo, Wanted, SlotsCome, Asked, Divided
<1> QED BY <1>1, <1>2, <1>3

LEMMA OtherKeeps == ASSUME RInv, HInv', NEW n, Other(n) PROVE RInv'
<1> USE DEF Other, OtherMoves, RInv
<1>1. ListsInv'
  BY DEF ListsInv, listvars
<1>2. MemoryInv'
  BY DEF MemoryInv, listvars, request, Asked, Divided
<1>3. RequestInv'
  BY DEF RequestInv, listvars, request, Height, Todo, Wanted, SlotsCome, Asked, Divided
<1> QED BY <1>1, <1>2, <1>3

LEMMA StutterKeeps == ASSUME RInv, UNCHANGED vars PROVE RInv'
<1> USE DEF vars, RInv
<1>1. HInv'
  <2>1. HInv /\ [HeapNext]_heapvars
    BY DEF MemoryInv
  <2> QED BY <2>1, HeapInvariantStep
<1>2. ListsInv'
  BY DEF ListsInv, listvars
<1>3. MemoryInv'
  BY <1>1 DEF MemoryInv, listvars, heapvars, request, Asked, Divided
<1>4. RequestInv'
  BY DEF RequestInv, listvars, heapvars, request, Height, Todo, Wanted, SlotsCome, Asked, Divided
<1> QED BY <1>2, <1>3, <1>4

LEMMA ReuseKeeps == ASSUME RInv, HInv', Reuse PROVE RInv'
<1> USE DEF RInv
<1>1. PICK W : Lists(slot, next, entry_free, wait_head, wait_tail, made, W)
  BY DEF ListsInv
<1>2. Take(size) /\ pc \in {"reuse", "retake"} /\ pc' = "idle" /\ size' = 0
      /\ UNCHANGED heapvars /\ height' = height /\ todo' = todo
  BY DEF Reuse, Done
<1>3. size \in Nat /\ Placed(slot, Taken(slot)) /\ ~list_error
  BY Parts
<1> DEFINE t == FindFreeSize(slot, next, size)
           x == t.found
           removed == RemoveSlot(next, x, t.update)
           inserted == InsertSlot(slot, removed.next, x, AddressList)
           sm == [slot EXCEPT ![x].flag = "USER"]
<1>4. /\ x # NIL /\ slot' = sm /\ next' = inserted.next
      /\ list_error' = (list_error \/ ~removed.ok \/ ~inserted.ok)
      /\ UNCHANGED <<entry_free, wait_head, wait_tail, made>>
  BY <1>2, Zenon DEF Take
<1>5. Reused(slot, next, entry_free, wait_head, wait_tail, made, W, size)
  <2>1. FindFreeSize(slot, next, size).found # NIL
    BY <1>4
  <2> QED BY <1>1, <1>3, <2>1, TakeKeepsLists
<1>6. /\ removed.ok /\ inserted.ok
      /\ Lists(sm, inserted.next, entry_free, wait_head, wait_tail, made, W)
      /\ Remarked(slot, sm, made, x, "USER")
  BY <1>5 DEF Reused
<1> HIDE DEF t, x, removed, inserted, sm
<1>7. ListsInv'
  BY <1>3, <1>4, <1>6 DEF ListsInv
<1>8. todo = <<>> /\ want = 0 /\ height = -1
  BY <1>2 DEF RequestInv, Todo, Height, Wanted, MemoryInv
<1>9. MemoryInv'
  <2>1. Housed(slot', given')
    BY <1>2, <1>4, <1>6, MemoryRemarked DEF MemoryInv, heapvars
  <2>2. Pieced(slot', given', todo', size')
    BY <1>2, <1>8 DEF Pieced
  <2>3. \A r \in given' : r.lo > 0
    BY <1>2 DEF MemoryInv, heapvars
  <2> QED BY <1>2, <2>1, <2>2, <2>3 DEF MemoryInv
<1>10. RequestInv'
  BY <1>2, <1>8 DEF RequestInv, heapvars, Height, Todo, Wanted, SlotsCome
<1> QED BY <1>7, <1>9, <1>10

LEMMA AskBlockKeeps == ASSUME RInv, HInv', AskBlock PROVE RInv'
<1> USE DEF RInv
<1>1. /\ pc = "reuse" /\ pc' = "heap" /\ UNCHANGED <<listvars, size, height, todo>>
      /\ want' = (IF Divided THEN BLOCK_SIZE ELSE size) /\ want' > 0
      /\ UNCHANGED <<got, given>>
  BY DEF AskBlock, HeapAlloc, AskHeap
<1>2. ListsInv'
  BY <1>1 DEF ListsInv, listvars
<1>3. MemoryInv'
  BY <1>1 DEF MemoryInv, listvars
<1>4. want' = Asked'
  BY <1>1 DEF Asked, Divided
<1>5. Height' /\ Todo' /\ SlotsCome'
  BY <1>1 DEF RequestInv, Height, Todo, SlotsCome
<1>6. RequestInv'
  BY <1>1, <1>4, <1>5 DEF RequestInv, Wanted
<1> QED BY <1>2, <1>3, <1>6

LEMMA AskSlotsKeeps == ASSUME RInv, HInv', NEW h \in Heights, AskSlots(h) PROVE RInv'
<1> USE DEF RInv
<1>1. /\ pc = "insert" /\ pc' = "admin" /\ UNCHANGED <<listvars, size, todo>>
      /\ height' = h /\ entry_free[h] = NIL /\ made + SlotsPerBlock[h] <= MaxSlots
      /\ want' = BLOCK_SIZE /\ want' > 0 /\ UNCHANGED <<got, given>>
  BY DEF AskSlots, HeapAlloc, AskHeap
<1>2. ListsInv'
  BY <1>1 DEF ListsInv, listvars
<1>3. MemoryInv'
  BY <1>1 DEF MemoryInv, listvars
<1>4. want' = Asked'
  BY <1>1 DEF Asked
<1>5. Height' /\ Todo' /\ SlotsCome'
  BY <1>1 DEF RequestInv, Height, Todo, SlotsCome, listvars
<1>6. RequestInv'
  BY <1>1, <1>4, <1>5 DEF RequestInv, Wanted
<1> QED BY <1>2, <1>3, <1>6

LEMMA HeapRunsKeeps == ASSUME RInv, HInv', HeapRuns PROVE RInv'
<1> USE DEF RInv
<1>1. pc \in {"heap", "admin"} /\ HeapStep /\ UNCHANGED <<listvars, request>>
  BY DEF HeapRuns
<1>2. want # 0 /\ want = Asked
  <2>1. want > 0
    BY <1>1 DEF HeapStep, FirstExtension, SecondExtension
  <2> QED BY <2>1 DEF RequestInv, Wanted
<1>3. Unreturned \/ Failed \/ Gave
  BY <1>1, HeapReturns DEF MemoryInv
<1>4. ListsInv'
  BY <1>1 DEF ListsInv, listvars
<1>5. Asked' = Asked
  BY <1>1 DEF Asked, Divided, request
<1>6. RequestInv'
  <2>1. pc = "admin" => entry_free[height] = NIL
    BY <1>2 DEF RequestInv, SlotsCome
  <2>2. want' # 0 => want' = want
    BY <1>3 DEF Unreturned, Failed, Gave
  <2>3. Height' /\ Todo'
    BY <1>1 DEF RequestInv, Height, Todo, request
  <2>4. SlotsCome'
    BY <1>1, <2>1 DEF RequestInv, SlotsCome, request, listvars
  <2>5. Wanted'
    BY <1>1, <1>2, <1>5, <2>2 DEF Wanted, request
  <2> QED BY <1>1, <2>3, <2>4, <2>5 DEF RequestInv, request
<1>7. MemoryInv'
  <2>0. slot' = slot /\ todo' = todo /\ size' = size
    BY <1>1 DEF request, listvars
  <2>1. CASE Unreturned \/ Failed
    <3>1. given' = given /\ ~(want' = 0 /\ got' # HEAP_ALLOC_ERROR)
      BY <1>2, <2>1 DEF Unreturned, Failed
    <3> QED BY <2>0, <3>1 DEF MemoryInv
  <2>2. CASE Gave
    <3>1. /\ got' \in Nat \ {0} /\ want \in Nat \ {0}
          /\ given' = given \cup {Extent(got', want)}
          /\ \A r \in given : Apart(r, Extent(got', want))
      BY <2>2 DEF Gave
    <3>2. slot \in [Ids -> SlotType] /\ Blocks(given) /\ size \in Nat
      BY Parts
    <3>3. Housed(slot, given) /\ Pieced(slot, given, todo, size)
      BY DEF MemoryInv
    <3>4. Spare(slot, given \cup {Extent(got', want)}, todo, size, Extent(got', want))
      <4>1. PICK mem : mem = got'
        OBVIOUS
      <4>2. Spare(slot, given \cup {Extent(mem, want)}, todo, size, Extent(mem, want))
        BY <3>1, <3>2, <3>3, <4>1, SpareNew
      <4> QED BY <4>1, <4>2
    <3>5. Housed(slot, given') /\ Pieced(slot, given', todo, size)
      BY <3>1, <3>3, MoreGiven
    <3>6. \A r \in given' : r.lo > 0
      BY <3>1 DEF MemoryInv, Extent
    <3>7. Spare(slot', given', todo', size', Extent(got', Asked'))
      BY <1>2, <1>5, <2>0, <3>1, <3>4
    <3>8. Housed(slot', given') /\ Pieced(slot', given', todo', size')
      BY <2>0, <3>5
    <3>9. Extent(got, Asked)' = Extent(got', Asked')
      BY DEF Extent
    <3> QED BY <3>6, <3>7, <3>8, <3>9 DEF MemoryInv
  <2> QED BY <1>3, <2>1, <2>2
<1> QED BY <1>4, <1>6, <1>7

LEMMA GotBlockKeeps == ASSUME RInv, HInv', GotBlock PROVE RInv'
<1> USE DEF RInv
<1>1. pc = "heap" /\ want = 0 /\ UNCHANGED <<listvars, heapvars, height>>
  BY DEF GotBlock
<1>2. todo = <<>> /\ height = -1
  BY <1>1 DEF RequestInv, Todo, Height
<1>3. ListsInv'
  BY <1>1 DEF ListsInv, listvars
<1>4. \A r \in given' : r.lo > 0
  BY <1>1 DEF MemoryInv, heapvars
<1>5. slot' = slot /\ given' = given /\ want' = 0
  BY <1>1 DEF listvars, heapvars
<1>6. Housed(slot', given')
  BY <1>5 DEF MemoryInv
<1>7. CASE got = HEAP_ALLOC_ERROR
  <2>1. pc' = "idle" /\ size' = 0 /\ todo' = todo
    BY <1>7 DEF GotBlock, Done
  <2>2. MemoryInv'
    <3>1. Pieced(slot', given', todo', size')
      BY <1>2, <2>1 DEF Pieced
    <3> QED BY <1>4, <1>6, <2>1, <3>1 DEF MemoryInv
  <2>3. RequestInv'
    BY <1>1, <1>2, <1>5, <2>1 DEF RequestInv, Height, Todo, Wanted, SlotsCome
  <2> QED BY <1>3, <2>2, <2>3
<1>8. CASE got # HEAP_ALLOC_ERROR
  <2>1. pc' = "insert" /\ todo' = Pieces(got) /\ size' = size
    BY <1>8 DEF GotBlock
  <2>2. size \in Sizes
    BY <1>1 DEF RequestInv
  <2>3. Spare(slot, given, <<>>, size, Extent(got, IF Divided THEN BLOCK_SIZE ELSE size))
    <3>1. Asked = IF Divided THEN BLOCK_SIZE ELSE size
      BY <1>1 DEF Asked
    <3> QED BY <1>1, <1>2, <1>8, <3>1 DEF MemoryInv
  <2>4. got \in Nat \ {0}
    <3>1. PICK e : e = Extent(got, IF Divided THEN BLOCK_SIZE ELSE size)
      OBVIOUS
    <3>2. e \in given /\ e.lo = got
      BY <2>3, <3>1 DEF Spare, Extent
    <3>3. got \in Int /\ got > 0
      BY <3>2, Parts DEF MemoryInv, HInv, HeapType
    <3> QED BY <3>3
  <2>5. Pieced(slot, given, Pieces(got), size) /\ Pieces(got) \in Seq(Nat \ {0}) /\ Pieces(got) # <<>>
    BY <2>2, <2>3, <2>4, Parts, PiecesFit
  <2>6. MemoryInv'
    <3>1. Pieced(slot', given', todo', size')
      BY <1>5, <2>1, <2>5
    <3> QED BY <1>4, <1>6, <2>1, <3>1 DEF MemoryInv
  <2>7. RequestInv'
    <3>1. Todo'
      BY <2>1, <2>5 DEF Todo
    <3> QED BY <1>1, <1>2, <1>5, <2>1, <2>2, <3>1 DEF RequestInv, Height, Wanted, SlotsCome
  <2> QED BY <1>3, <2>6, <2>7
<1> QED BY <1>7, <1>8

LEMMA GotSlotsKeeps == ASSUME RInv, HInv', GotSlots PROVE RInv'
<1> USE DEF RInv
<1>1. pc = "admin" /\ want = 0 /\ entry_free[height] = NIL /\ UNCHANGED heapvars
      /\ height \in Heights /\ made + SlotsPerBlock[height] <= MaxSlots
  BY DEF GotSlots, RequestInv, Height, SlotsCome
<1>2. given' = given /\ got' = got /\ want' = 0 /\ \A r \in given' : r.lo > 0
  BY <1>1 DEF heapvars, MemoryInv
<1>3. CASE got = HEAP_ALLOC_ERROR
  <2>1. pc' = "idle" /\ size' = 0 /\ height' = -1 /\ todo' = <<>> /\ UNCHANGED listvars
    BY <1>3 DEF GotSlots, Done
  <2>2. ListsInv'
    BY <2>1 DEF ListsInv, listvars
  <2>3. MemoryInv'
    <3>1. Pieced(slot', given', todo', size')
      BY <2>1 DEF Pieced
    <3>2. Housed(slot', given')
      BY <1>2, <2>1 DEF MemoryInv, listvars
    <3> QED BY <1>2, <2>1, <3>1, <3>2 DEF MemoryInv
  <2>4. Height' /\ Todo' /\ Wanted' /\ SlotsCome'
    BY <1>2, <2>1 DEF Height, Todo, Wanted, SlotsCome
  <2>5. RequestInv'
    BY <2>1, <2>4 DEF RequestInv
  <2> QED BY <2>2, <2>3, <2>5
<1>4. CASE got # HEAP_ALLOC_ERROR
  <2> DEFINE count == SlotsPerBlock[height]
  <2>1. count \in Nat \ {0}
    BY <1>1, SizesAssumption
  <2>2. AllocSlots(height, count) /\ UNCHANGED request
    BY <1>4 DEF GotSlots
  <2>3. /\ made' = made + count /\ slot' = Cut(slot, made, height, count)
        /\ next' = Threaded(next, made, entry_free[height], count)
        /\ entry_free' = [entry_free EXCEPT ![height] = made + count]
        /\ UNCHANGED <<wait_head, wait_tail, list_error>>
    BY <2>2 DEF AllocSlots, Cut, Threaded
  <2> HIDE DEF count
  <2>4. PICK W : Lists(slot, next, entry_free, wait_head, wait_tail, made, W)
    BY DEF ListsInv
  <2>5. made + count <= MaxSlots
    BY <1>1 DEF count
  <2>6. /\ Lists(slot', next', entry_free', wait_head, wait_tail, made', W)
        /\ \A y \in Ids : /\ slot'[y].mem = slot[y].mem /\ slot'[y].size = slot[y].size
                          /\ slot'[y].flag = slot[y].flag
    <3>1. /\ Lists(Cut(slot, made, height, count), Threaded(next, made, entry_free[height], count),
                   [entry_free EXCEPT ![height] = made + count], wait_head, wait_tail,
                   made + count, W)
          /\ \A y \in Ids : /\ Cut(slot, made, height, count)[y].mem = slot[y].mem
                            /\ Cut(slot, made, height, count)[y].size = slot[y].size
                            /\ Cut(slot, made, height, count)[y].flag = slot[y].flag
      BY <1>1, <2>1, <2>4, <2>5, AllocKeepsLists
    <3> QED BY <2>3, <3>1
  <2>7. ListsInv'
    <3>1. ~list_error'
      BY <2>3 DEF ListsInv
    <3>2. Lists(slot', next', entry_free', wait_head', wait_tail', made', W)
      BY <2>3, <2>6
    <3> QED BY <3>1, <3>2 DEF ListsInv
  <2>8. todo' = todo /\ size' = size /\ pc' = pc /\ height' = height
    BY <2>2 DEF request
  <2>9. MemoryInv'
    <3>1. /\ Housed(slot, given) /\ Pieced(slot, given, todo, size)
          /\ Spare(slot, given, todo, size, Extent(got, Asked))
      BY <1>1, <1>4 DEF MemoryInv
    <3>2. PICK sm : sm = slot'
      OBVIOUS
    <3>3. /\ Housed(sm, given) /\ Pieced(sm, given, todo, size)
          /\ Spare(sm, given, todo, size, Extent(got, Asked))
      BY <2>6, <3>1, <3>2, MemorySame
    <3>4. Extent(got, Asked)' = Extent(got, Asked)
      BY <1>2, <2>8 DEF Extent, Asked, Divided
    <3> QED BY <1>2, <2>8, <3>2, <3>3, <3>4 DEF MemoryInv
  <2>10. Height' /\ Todo' /\ Wanted' /\ SlotsCome'
    <3>1. entry_free'[height'] # NIL
      <4>1. made \in Nat /\ entry_free \in [Heights -> Ids \cup {NIL}]
        BY <2>4, SkipListAssumption DEF Lists, Slots, Stacks
      <4>2. made + count # NIL
        BY <2>1, <4>1 DEF NIL
      <4> QED BY <1>1, <2>3, <2>8, <4>1, <4>2
    <3>2. Height' /\ Todo' /\ Wanted'
      BY <1>2, <2>8 DEF RequestInv, Height, Todo, Wanted
    <3>3. SlotsCome'
      BY <1>2, <1>4, <3>1 DEF SlotsCome
    <3> QED BY <3>2, <3>3
  <2>11. RequestInv'
    BY <2>8, <2>10 DEF RequestInv
  <2> QED BY <2>7, <2>9, <2>11
<1> QED BY <1>3, <1>4

(* What an insertion comes to, when the address starts memory of its own.   *)
Insertion(h, address, bytes, flag) ==
  /\ ListsInv' /\ entry_free[h] \in Ids \ Taken(slot)
  /\ Filled(slot, slot', made, entry_free[h], h, address, bytes, flag)
LEMMA InsertAddressKeeps ==
  ASSUME RInv, NEW h \in Heights, NEW address \in Nat \ {0}, NEW bytes \in Nat \ {0},
         NEW flag \in {"USER", "ADMIN", "FREE"}, Clear(slot, Extent(address, bytes)),
         InsertAddress(h, address, flag, bytes)
  PROVE  Insertion(h, address, bytes, flag)
<1>1. PICK W : Lists(slot, next, entry_free, wait_head, wait_tail, made, W)
  BY DEF RInv, ListsInv
<1>2. \A y \in Taken(slot) : slot[y].mem # address
  <2> SUFFICES ASSUME NEW y \in Taken(slot), slot[y].mem = address PROVE FALSE
    OBVIOUS
  <2>1. slot[y].size > 0 /\ slot[y].size \in Nat /\ slot[y].mem \in Nat
    BY Parts, SlotFields DEF Placed, Taken
  <2>2. Apart(MemoryOf(slot, y), Extent(address, bytes))
    BY DEF Clear
  <2> QED BY <2>1, <2>2 DEF Apart, MemoryOf, Extent
<1> DEFINE x == entry_free[h]
           filled == Fill(slot, x, address, bytes, flag)
           cleared == [next EXCEPT ![x] = [l \in SkipLevels |-> NIL]]
           inserted == InsertSlot(filled, cleared, x,
                                  IF flag = "FREE" THEN SizeList ELSE AddressList)
<1>3. /\ x # NIL /\ entry_free' = [entry_free EXCEPT ![h] = next[x][0]]
      /\ slot' = filled /\ next' = inserted.next
      /\ list_error' = (list_error \/ ~inserted.ok)
      /\ UNCHANGED <<wait_head, wait_tail, made>>
  BY Zenon DEF InsertAddress, Fill
<1>4. Inserted(slot, next, entry_free, wait_head, wait_tail, made, W, h, address, flag, bytes)
  <2>1. entry_free[h] # NIL
    BY <1>3
  <2> QED BY <1>1, <1>2, <2>1, InsertKeepsLists
<1>5. /\ x \in Ids \ Taken(slot) /\ inserted.ok
      /\ Lists(filled, inserted.next, [entry_free EXCEPT ![h] = next[x][0]],
               wait_head, wait_tail, made, W)
      /\ Filled(slot, filled, made, x, h, address, bytes, flag)
  BY <1>4, Zenon DEF Inserted
<1> HIDE DEF x, filled, cleared, inserted
<1>6. Lists(slot', next', entry_free', wait_head', wait_tail', made', W)
  BY <1>3, <1>5
<1>7. ~list_error'
  BY <1>3, <1>5, Parts
<1>8. ListsInv'
  BY <1>6, <1>7 DEF ListsInv
<1>9. Filled(slot, slot', made, x, h, address, bytes, flag)
  BY <1>3, <1>5
<1> QED BY <1>5, <1>8, <1>9 DEF Insertion, x

LEMMA InsertAdminKeeps == ASSUME RInv, HInv', InsertAdmin PROVE RInv'
<1> USE DEF RInv
<1>1. /\ pc = "admin" /\ want = 0 /\ entry_free[height] # NIL /\ pc' = "insert"
      /\ InsertAddress(height, got, "ADMIN", BLOCK_SIZE)
      /\ UNCHANGED <<heapvars, size, height, todo>>
  BY DEF InsertAdmin
<1>2. /\ height \in Heights /\ got # HEAP_ALLOC_ERROR /\ todo # <<>> /\ size \in Sizes
      /\ Spare(slot, given, todo, size, Extent(got, BLOCK_SIZE))
      /\ BLOCK_SIZE \in Nat \ {0}
  <2>1. height \in Heights /\ got # HEAP_ALLOC_ERROR /\ todo # <<>> /\ size \in Sizes
    BY <1>1 DEF RequestInv, Height, SlotsCome, Todo
  <2>2. Asked = BLOCK_SIZE
    BY <1>1 DEF Asked
  <2>3. Spare(slot, given, todo, size, Extent(got, BLOCK_SIZE))
    BY <1>1, <2>1, <2>2 DEF MemoryInv
  <2> QED BY <2>1, <2>3, Parts
<1>3. got \in Nat \ {0}
  <2>1. PICK e : e = Extent(got, BLOCK_SIZE)
    OBVIOUS
  <2>2. e \in given /\ e.lo = got
    BY <1>2, <2>1 DEF Spare, Extent
  <2> QED BY <2>2, Parts DEF MemoryInv, HInv, HeapType
<1>4. Clear(slot, Extent(got, BLOCK_SIZE)) /\ Inside(given, Extent(got, BLOCK_SIZE))
      /\ \A i \in DOMAIN todo : Apart(Extent(todo[i], size), Extent(got, BLOCK_SIZE))
  <2>1. PICK e : e = Extent(got, BLOCK_SIZE)
    OBVIOUS
  <2>2. e \in given /\ e.lo \in Int /\ e.size \in Int
    BY <1>2, <1>3, <2>1 DEF Spare, Extent
  <2>3. Inside(given, e)
    BY <2>2 DEF Inside
  <2> QED BY <1>2, <2>1, <2>3 DEF Spare
<1>5. Insertion(height, got, BLOCK_SIZE, "ADMIN")
  BY <1>1, <1>2, <1>3, <1>4, InsertAddressKeeps
<1>6. ListsInv'
  BY <1>5 DEF Insertion
<1>7. given' = given /\ want' = 0 /\ got' = got /\ todo' = todo /\ size' = size /\ height' = height
  BY <1>1 DEF heapvars
<1>8. MemoryInv'
  <2>1. PICK sm : sm = slot'
    OBVIOUS
  <2>2. Filled(slot, sm, made, entry_free[height], height, got, BLOCK_SIZE, "ADMIN")
        /\ entry_free[height] \in Ids \ Taken(slot)
    BY <1>5, <2>1 DEF Insertion
  <2>3. Housed(slot, given) /\ Pieced(slot, given, todo, size)
    BY DEF MemoryInv
  <2>4. Housed(sm, given) /\ Pieced(sm, given, todo, size)
    BY <1>2, <1>3, <1>4, <2>2, <2>3, MemoryFilled
  <2>5. \A r \in given' : r.lo > 0
    BY <1>7 DEF MemoryInv
  <2> QED BY <1>1, <1>7, <2>1, <2>4, <2>5 DEF MemoryInv
<1>9. RequestInv'
  <2>1. Height' /\ Todo' /\ Wanted' /\ SlotsCome'
    BY <1>1, <1>2, <1>7 DEF RequestInv, Height, Todo, Wanted, SlotsCome
  <2> QED BY <1>1, <1>2, <1>7, <2>1 DEF RequestInv
<1> QED BY <1>6, <1>8, <1>9

LEMMA PiecedTail ==
  ASSUME NEW sl, NEW gv, NEW td \in Seq(Nat \ {0}), td # <<>>, NEW n, Pieced(sl, gv, td, n)
  PROVE  /\ Tail(td) \in Seq(Nat \ {0}) /\ Head(td) \in Nat \ {0}
         /\ Clear(sl, Extent(Head(td), n)) /\ Inside(gv, Extent(Head(td), n))
         /\ Pieced(sl, gv, Tail(td), n)
         /\ \A i \in DOMAIN Tail(td) : Apart(Extent(Tail(td)[i], n), Extent(Head(td), n))
<1>1. Tail(td) \in Seq(Nat \ {0}) /\ Head(td) \in Nat \ {0} /\ Head(td) = td[1] /\ 1 \in DOMAIN td
  OBVIOUS
<1>2. \A i \in DOMAIN Tail(td) : Tail(td)[i] = td[i + 1] /\ i + 1 \in DOMAIN td /\ i + 1 # 1
                                 /\ i \in Nat
  OBVIOUS
<1>3. Clear(sl, Extent(Head(td), n)) /\ Inside(gv, Extent(Head(td), n))
  BY <1>1 DEF Pieced
<1>4. PICK tl : tl = Tail(td)
  OBVIOUS
<1>5. \A i \in DOMAIN tl : tl[i] = td[i + 1] /\ i + 1 \in DOMAIN td /\ i + 1 # 1 /\ i \in Nat
  BY <1>2, <1>4
<1>6. \A i, j \in DOMAIN tl : i # j => i + 1 # j + 1
  BY <1>5
<1>7. Pieced(sl, gv, tl, n)
  <2> SUFFICES ASSUME NEW i \in DOMAIN tl
               PROVE  /\ tl[i] \in Nat \ {0} /\ Inside(gv, Extent(tl[i], n))
                      /\ Clear(sl, Extent(tl[i], n))
                      /\ \A j \in DOMAIN tl : i # j => Apart(Extent(tl[i], n), Extent(tl[j], n))
    BY DEF Pieced
  <2>1. PICK k : k = i + 1
    OBVIOUS
  <2>2. tl[i] = td[k] /\ k \in DOMAIN td
    BY <1>5, <2>1
  <2>3. \A j \in DOMAIN tl : i # j => k # j + 1 /\ j + 1 \in DOMAIN td /\ tl[j] = td[j + 1]
    BY <1>5, <1>6, <2>1
  <2> QED BY <2>2, <2>3 DEF Pieced
<1>8. \A i \in DOMAIN tl : Apart(Extent(tl[i], n), Extent(Head(td), n))
  BY <1>1, <1>5 DEF Pieced
<1> QED BY <1>1, <1>3, <1>4, <1>7, <1>8

LEMMA InsertNextKeeps == ASSUME RInv, HInv', NEW h \in Heights, InsertNext(h) PROVE RInv'
<1> USE DEF RInv
<1>1. /\ pc = "insert" /\ height' = -1 /\ todo' = Tail(todo) /\ UNCHANGED heapvars
      /\ InsertAddress(h, Head(todo), Flag, size)
      /\ \/ todo' # <<>> /\ pc' = pc /\ size' = size
         \/ todo' = <<>> /\ Divided /\ pc' = "retake" /\ size' = size
         \/ todo' = <<>> /\ pc' = "idle" /\ size' = 0
  BY DEF InsertNext, Done
<1>2. todo \in Seq(Nat \ {0}) /\ todo # <<>> /\ size \in Nat \ {0} /\ size \in Sizes /\ want = 0
  <2>1. pc # "idle" /\ size \in Sizes /\ todo \in Seq(Nat \ {0}) /\ todo # <<>> /\ want = 0
    BY <1>1 DEF RequestInv, Todo, Wanted
  <2> QED BY <2>1, Parts
<1>3. Flag \in {"USER", "ADMIN", "FREE"}
  BY DEF Flag
<1>4. PICK e, td : e = Extent(Head(todo), size) /\ td = Tail(todo)
  OBVIOUS
<1>5. /\ td \in Seq(Nat \ {0}) /\ Head(todo) \in Nat \ {0}
      /\ Clear(slot, e) /\ Inside(given, e) /\ Pieced(slot, given, td, size)
      /\ \A i \in DOMAIN td : Apart(Extent(td[i], size), e)
  BY <1>2, <1>4, PiecedTail DEF MemoryInv
<1>6. Insertion(h, Head(todo), size, Flag)
  BY <1>1, <1>2, <1>3, <1>4, <1>5, InsertAddressKeeps
<1>7. ListsInv'
  BY <1>6 DEF Insertion
<1>8. given' = given /\ want' = 0 /\ got' = got
  BY <1>1, <1>2 DEF heapvars
<1>9. MemoryInv'
  <2>1. PICK sm : sm = slot'
    OBVIOUS
  <2>2. Filled(slot, sm, made, entry_free[h], h, Head(todo), size, Flag)
        /\ entry_free[h] \in Ids \ Taken(slot)
    BY <1>6, <2>1 DEF Insertion
  <2>3. Housed(sm, given) /\ Pieced(sm, given, td, size)
    BY <1>2, <1>4, <1>5, <2>2, MemoryFilled DEF MemoryInv
  <2>4. Pieced(sm, given, todo', size')
    <3>1. CASE size' = size
      BY <1>1, <1>4, <2>3, <3>1
    <3>2. CASE todo' = <<>>
      BY <3>2 DEF Pieced
    <3> QED BY <1>1, <3>1, <3>2
  <2>5. \A r \in given' : r.lo > 0
    BY <1>8 DEF MemoryInv
  <2>6. pc' \notin {"heap", "admin"}
    BY <1>1
  <2> QED BY <1>8, <2>1, <2>3, <2>4, <2>5, <2>6 DEF MemoryInv
<1>10. RequestInv'
  <2>1. Todo'
    BY <1>1, <1>4, <1>5 DEF Todo
  <2>2. Height' /\ Wanted' /\ SlotsCome'
    BY <1>1, <1>8 DEF Height, Wanted, SlotsCome
  <2> QED BY <1>1, <1>2, <2>1, <2>2 DEF RequestInv
<1> QED BY <1>7, <1>9, <1>10

LEMMA FreePointerKeeps == ASSUME RInv, HInv', NEW pnt \in 1 .. SystemEnd - 1, FreePointer(pnt)
                          PROVE  RInv'
<1> USE DEF RInv
<1>1. pc = "idle" /\ Free(pnt) /\ UNCHANGED <<heapvars, request>>
  BY DEF FreePointer
<1>2. PICK W : Lists(slot, next, entry_free, wait_head, wait_tail, made, W)
  BY DEF ListsInv
<1>3. pnt \in Nat
  BY HeapExtendAssumption
<1> DEFINE t == FindAddress(slot, next, AddressList, pnt, FALSE)
           x == t.found
           removed == RemoveSlot(next, x, t.update)
           sm == [slot EXCEPT ![x].flag = "FREE"]
<1>4. /\ x # NIL /\ slot' = sm
      /\ list_error' = (list_error \/ ~removed.ok)
      /\ next' = Ended(removed.next, x, wait_head, wait_tail)
      /\ wait_head' = (IF wait_head = NIL THEN x ELSE wait_head)
      /\ wait_tail' = x
      /\ UNCHANGED <<entry_free, made>>
  <2>1. CASE wait_head = NIL
    BY <1>1, <2>1, Zenon DEF Free, Ended
  <2>2. CASE wait_head # NIL
    BY <1>1, <2>2, Zenon DEF Free, Ended
  <2> QED BY <2>1, <2>2
<1>5. Released(slot, next, entry_free, wait_head, wait_tail, made, W, pnt)
  <2>1. FindAddress(slot, next, AddressList, pnt, FALSE).found # NIL
    BY <1>4
  <2> QED BY <1>2, <1>3, <2>1, Parts, FreeKeepsLists
<1>6. /\ removed.ok
      /\ Lists(sm, Ended(removed.next, x, wait_head, wait_tail), entry_free,
               IF wait_head = NIL THEN x ELSE wait_head, x, made, W \cup {x})
      /\ Remarked(slot, sm, made, x, "FREE")
  BY <1>5 DEF Released
<1> HIDE DEF t, x, removed, sm
<1>7. ListsInv'
  <2>1. Lists(slot', next', entry_free', wait_head', wait_tail', made', W \cup {x})
    BY <1>4, <1>6
  <2>2. ~list_error'
    BY <1>4, <1>6, Parts
  <2> QED BY <2>1, <2>2 DEF ListsInv
<1>8. MemoryInv'
  <2>1. Housed(slot', given') /\ Pieced(slot', given', todo', size')
    BY <1>1, <1>4, <1>6, MemoryRemarked DEF MemoryInv, heapvars, request
  <2>2. pc' = "idle" /\ \A r \in given' : r.lo > 0
    BY <1>1 DEF MemoryInv, heapvars, request
  <2> QED BY <2>1, <2>2 DEF MemoryInv
<1>9. RequestInv'
  BY <1>1 DEF RequestInv, heapvars, request, Height, Todo, Wanted, SlotsCome, Asked
<1> QED BY <1>7, <1>8, <1>9

-----------------------------------------------------------------------------
LEMMA ListsAtFirst ==
  ASSUME SkipInit PROVE Lists(slot, next, entry_free, wait_head, wait_tail, made, {})
<1> USE DEF SkipInit
<1>1. SkipLevels = 0 .. MAX_SKIP_LEVEL - 1 /\ 0 \in SkipLevels
  BY SomeIds DEF SkipLevels
<1>2. slot \in [Ids -> SlotType] /\ \A x \in Ids : slot[x].flag = "none"
  BY <1>1 DEF SlotType
<1>3. Slots(slot, 0)
  BY <1>2, SkipListAssumption DEF Slots, Ids
<1>4. Links(next)
  BY DEF Links
<1>5. InUse(slot) = {} /\ Freed(slot) = {} /\ \A h \in Heights : Blank(slot, 0, h) = {}
  BY <1>2 DEF InUse, Freed, Blank
<1>6. \A r \in [Nodes -> Nat], head \in {AddressList, SizeList} :
        r[head] = 0 => Skip({}, head, r, slot, next)
  BY SomeIds DEF Skip, Ranked, Follows, Tall
<1>7. Skip(InUse(slot), AddressList, ByAddress(slot), slot, next)
  <2>1. ByAddress(slot) \in [Nodes -> Nat] /\ ByAddress(slot)[AddressList] = 0
    BY SomeIds DEF ByAddress
  <2> QED BY <1>5, <1>6, <2>1
<1>8. Sizewise(slot, next, Freed(slot) \ {})
  <2> DEFINE r == [n \in Nodes |-> 0]
  <2>1. r \in [Nodes -> Nat] /\ r[SizeList] = 0
    BY SomeIds
  <2>2. Skip({}, SizeList, r, slot, next) /\ BySize({}, r, slot)
    BY <1>6, <2>1 DEF BySize
  <2> HIDE DEF r
  <2> QED BY <1>5, <2>2 DEF Sizewise
<1>9. \A q : Queue({}, q, next, NIL)
  BY DEF Queue, Ranked, Follows
<1>10. Waitwise(next, {}, wait_head, wait_tail) /\ Stacks(slot, next, entry_free, 0)
  BY <1>5, <1>9 DEF Waitwise, Waiting, Stacks
<1> QED BY <1>3, <1>4, <1>7, <1>8, <1>10 DEF Lists

LEMMA SoundAtFirst == ASSUME Init PROVE RInv
<1> USE DEF Init
<1>1. ListsInv
  BY ListsAtFirst DEF ListsInv, SkipInit
<1>2. HInv
  BY HeapExtendAssumption
     DEF HeapInit, HInv, HeapType, GivenBehind, GivenApart, GivenInBounds
<1>3. Taken(slot) = {}
  BY DEF SkipInit, Taken
<1>4. MemoryInv
  BY <1>2, <1>3 DEF MemoryInv, HeapInit, Housed, Placed, Pieced
<1>5. RequestInv
  BY DEF RequestInv, HeapInit, Height, Todo, Wanted, SlotsCome
<1> QED BY <1>1, <1>4, <1>5 DEF RInv

LEMMA EveryStepKeeps == ASSUME RInv, [Next]_vars PROVE RInv'
<1>1. HInv'
  BY HeapKeeps
<1>2. ASSUME NEW n \in Sizes, Request(n) PROVE RInv'
  BY <1>1, <1>2, RequestKeeps
<1>3. CASE DrainWaiting
  BY <1>1, <1>3, DrainWaitingKeeps
<1>4. CASE Reuse
  BY <1>1, <1>4, ReuseKeeps
<1>5. CASE AskBlock
  BY <1>1, <1>5, AskBlockKeeps
<1>6. CASE HeapRuns
  BY <1>1, <1>6, HeapRunsKeeps
<1>7. CASE GotBlock
  BY <1>1, <1>7, GotBlockKeeps
<1>8. CASE GotSlots
  BY <1>1, <1>8, GotSlotsKeeps
<1>9. CASE InsertAdmin
  BY <1>1, <1>9, InsertAdminKeeps
<1>10. ASSUME NEW h \in Heights, InsertNext(h) PROVE RInv'
  BY <1>1, <1>10, InsertNextKeeps
<1>11. ASSUME NEW h \in Heights, AskSlots(h) PROVE RInv'
  BY <1>1, <1>11, AskSlotsKeeps
<1>12. ASSUME NEW pnt \in 1 .. SystemEnd - 1, FreePointer(pnt) PROVE RInv'
  BY <1>1, <1>12, FreePointerKeeps
<1>13. ASSUME NEW n \in Others[grows], Other(n) PROVE RInv'
  BY <1>1, <1>13, OtherKeeps
<1>14. CASE UNCHANGED vars
  BY <1>14, StutterKeeps
<1> QED BY <1>2, <1>3, <1>4, <1>5, <1>6, <1>7, <1>8, <1>9, <1>10, <1>11, <1>12, <1>13, <1>14
        DEF Next

(* Through every order of requests, frees, draining, failures of the system *)
(* and insertions that give up half way, and however the levels fall, the   *)
(* lists of chunk.c stay lists, with each slot on the one its flag says and *)
(* at each level in the order of the one below, and slots and the pieces    *)
(* that still need one stand for memory of their own that the heap gave.    *)
THEOREM Invariance == Spec => []RInv
<1> QED BY SoundAtFirst, EveryStepKeeps, PTL DEF Spec

(* Where the break moves up, as sbrk's does, every block starts on a block  *)
(* boundary, whichever of the two extensions made up the difference and     *)
(* whoever took memory between them.                                        *)
THEOREM Alignment == Spec => []BlocksAligned
<1>1. Init => BlocksAligned
  BY DEF Init, HeapInit, BlocksAligned
<1>2. BlocksAligned /\ RInv /\ [Next]_vars => BlocksAligned'
  <2> SUFFICES ASSUME BlocksAligned, RInv, [Next]_vars PROVE BlocksAligned'
    OBVIOUS
  <2>1. HInv /\ [HeapNext]_heapvars
    BY HeapMoves DEF RInv, MemoryInv
  <2> QED BY <2>1, AlignedStep
<1> QED BY <1>1, <1>2, Invariance, PTL DEF Spec

-----------------------------------------------------------------------------
(* The sequence of slots that the properties follow along a level is the    *)
(* row of that level, from its first slot to its last.                      *)
Listed(T, q, c) == /\ c \in Seq(Ids) /\ Members(c) = T
                   /\ \A i, j \in DOMAIN c : i < j => q[c[i]] < q[c[j]]
Begun(T, q, c, k) ==
  /\ c \in Seq(Ids) /\ Len(c) <= k
  /\ \A i \in 1 .. Len(c) : c[i] \in T
  /\ \A i, j \in 1 .. Len(c) : i < j => q[c[i]] < q[c[j]]
  /\ \A y \in T : (\E i \in 1 .. Len(c) : c[i] = y) \/ \A i \in 1 .. Len(c) : q[c[i]] < q[y]
  /\ Len(c) = k \/ \A y \in T : \E i \in 1 .. Len(c) : c[i] = y
Last(q, c) == IF c = <<>> THEN 0 ELSE q[c[Len(c)]]

LEMMA BegunOn ==
  ASSUME NEW T, T \subseteq Ids, NEW q, Ranked(T, q), NEW k \in Nat, NEW c, Begun(T, q, c, k),
         NEW n, Follows(T, q, Last(q, c), n)
  PROVE  Begun(T, q, IF n = NIL THEN c ELSE Append(c, n), k + 1)
<1>1. /\ c \in Seq(Ids) /\ Len(c) \in Nat /\ Len(c) <= k
      /\ \A i \in 1 .. Len(c) : c[i] \in T
      /\ \A i, j \in 1 .. Len(c) : i < j => q[c[i]] < q[c[j]]
      /\ \A y \in T : (\E i \in 1 .. Len(c) : c[i] = y) \/ \A i \in 1 .. Len(c) : q[c[i]] < q[y]
      /\ Len(c) = k \/ \A y \in T : \E i \in 1 .. Len(c) : c[i] = y
  BY DEF Begun
<1>2. c = <<>> <=> Len(c) = 0
  BY <1>1
<1>3. \A y \in T : q[y] \in Nat \ {0}
  BY DEF Ranked
<1>4. Last(q, c) \in Nat /\ \A i \in 1 .. Len(c) : q[c[i]] <= Last(q, c)
  <2>1. CASE Len(c) = 0
    BY <1>2, <2>1 DEF Last
  <2>2. CASE Len(c) # 0
    <3>1. Len(c) \in 1 .. Len(c) /\ Last(q, c) = q[c[Len(c)]]
      BY <1>1, <1>2, <2>2 DEF Last
    <3>2. ASSUME NEW i \in 1 .. Len(c) PROVE q[c[i]] <= q[c[Len(c)]]
      <4>1. CASE i = Len(c)
        BY <1>1, <1>3, <4>1
      <4>2. CASE i # Len(c)
        <5>1. q[c[i]] < q[c[Len(c)]]
          BY <1>1, <3>1, <4>2
        <5> QED BY <1>1, <1>3, <3>1, <5>1
      <4> QED BY <4>1, <4>2
    <3> QED BY <1>1, <1>3, <3>1, <3>2
  <2> QED BY <2>1, <2>2
<1>5. ASSUME NEW y \in T, q[y] <= Last(q, c) PROVE \E i \in 1 .. Len(c) : c[i] = y
  <2> SUFFICES ASSUME ~ \E i \in 1 .. Len(c) : c[i] = y PROVE FALSE
    OBVIOUS
  <2>1. \A i \in 1 .. Len(c) : q[c[i]] < q[y]
    BY <1>1
  <2>2. CASE Len(c) = 0
    BY <1>2, <1>3, <1>5, <2>2 DEF Last
  <2>3. CASE Len(c) # 0
    <3>1. Len(c) \in 1 .. Len(c) /\ Last(q, c) = q[c[Len(c)]]
      BY <1>1, <1>2, <2>3 DEF Last
    <3>2. q[c[Len(c)]] < q[y]
      BY <2>1, <3>1
    <3> QED BY <1>3, <1>4, <1>5, <3>1, <3>2
  <2> QED BY <2>2, <2>3
<1>6. CASE n = NIL
  <2>1. \A y \in T : q[y] <= Last(q, c)
    BY <1>6 DEF Follows
  <2>2. \A y \in T : \E i \in 1 .. Len(c) : c[i] = y
    BY <1>5, <2>1
  <2> QED BY <1>1, <1>6, <2>2 DEF Begun
<1>7. CASE n # NIL
  <2> DEFINE d == Append(c, n)
  <2>1. n \in T /\ q[n] > Last(q, c) /\ \A x \in T : q[x] <= Last(q, c) \/ q[n] <= q[x]
    BY <1>7 DEF Follows
  <2>2. /\ d \in Seq(Ids) /\ Len(d) = Len(c) + 1 /\ d[Len(d)] = n
        /\ \A i \in 1 .. Len(c) : d[i] = c[i]
    BY <1>1, <2>1
  <2> HIDE DEF d
  <2>3. 1 .. Len(d) = (1 .. Len(c)) \cup {Len(d)} /\ \A i \in 1 .. Len(c) : i < Len(d)
    BY <1>1, <2>2
  <2>4. \A i \in 1 .. Len(c) : q[c[i]] < q[n]
    <3> TAKE i \in 1 .. Len(c)
    <3>1. q[c[i]] \in Nat /\ q[n] \in Nat /\ q[c[i]] <= Last(q, c)
      BY <1>1, <1>3, <1>4, <2>1
    <3> QED BY <1>4, <2>1, <3>1
  <2>5. Len(c) = k
    <3> SUFFICES ASSUME NEW i \in 1 .. Len(c), c[i] = n PROVE FALSE
      BY <1>1, <2>1
    <3> QED BY <1>3, <2>1, <2>4
  <2>6. \A i \in 1 .. Len(d) : d[i] \in T
    BY <1>1, <2>1, <2>2, <2>3
  <2>7. ASSUME NEW i \in 1 .. Len(d), NEW j \in 1 .. Len(d), i < j PROVE q[d[i]] < q[d[j]]
    <3>1. i \in 1 .. Len(c)
      BY <1>1, <2>2, <2>7
    <3>2. CASE j \in 1 .. Len(c)
      BY <1>1, <2>2, <2>7, <3>1, <3>2
    <3>3. CASE j = Len(d)
      BY <2>2, <2>4, <3>1, <3>3
    <3> QED BY <2>3, <3>2, <3>3
  <2>8. ASSUME NEW y \in T, ~ \E i \in 1 .. Len(d) : d[i] = y
        PROVE  \A i \in 1 .. Len(d) : q[d[i]] < q[y]
    <3>1. ~ \E i \in 1 .. Len(c) : c[i] = y
      BY <2>2, <2>3, <2>8
    <3>2. y # n
      BY <2>2, <2>3, <2>8
    <3>3. q[n] <= q[y]
      BY <1>5, <2>1, <3>1
    <3>4. q[n] < q[y]
      BY <1>3, <2>1, <3>2, <3>3 DEF Ranked
    <3>5. \A i \in 1 .. Len(c) : q[c[i]] < q[y]
      BY <1>1, <3>1
    <3> QED BY <2>2, <2>3, <3>4, <3>5
  <2>9. Begun(T, q, d, k + 1)
    BY <1>1, <2>2, <2>5, <2>6, <2>7, <2>8 DEF Begun
  <2> QED BY <1>7, <2>9 DEF d
<1> QED BY <1>6, <1>7

LEMMA BegunEnds ==
  ASSUME NEW T, T \subseteq Ids, NEW q, Ranked(T, q), NEW c, Begun(T, q, c, MaxSlots)
  PROVE  Listed(T, q, c)
<1>1. /\ c \in Seq(Ids) /\ MaxSlots \in Nat /\ DOMAIN c = 1 .. Len(c)
      /\ \A i \in 1 .. Len(c) : c[i] \in T
      /\ \A i, j \in 1 .. Len(c) : i < j => q[c[i]] < q[c[j]]
  BY SkipListAssumption DEF Begun
<1>2. \A y \in T : q[y] \in Nat
  BY DEF Ranked
<1>3. ASSUME NEW y \in T, ~ \E i \in 1 .. Len(c) : c[i] = y PROVE FALSE
  <2>1. Len(c) = MaxSlots
    BY <1>3 DEF Begun
  <2>2. IsFiniteSet(1 .. MaxSlots) /\ Cardinality(1 .. MaxSlots) = MaxSlots
    BY <1>1, FS_Interval
  <2>3. y \in 1 .. MaxSlots /\ MaxSlots > 0
    BY <1>1 DEF Ids
  <2>4. /\ IsFiniteSet((1 .. MaxSlots) \ {y})
        /\ Cardinality((1 .. MaxSlots) \ {y}) = MaxSlots - 1
    BY <2>2, <2>3, FS_RemoveElement
  <2>5. c \in [1 .. MaxSlots -> (1 .. MaxSlots) \ {y}]
    <3>1. \A i \in 1 .. MaxSlots : c[i] \in 1 .. MaxSlots /\ c[i] # y
      BY <1>1, <1>3, <2>1 DEF Ids
    <3>2. c \in [1 .. MaxSlots -> Ids]
      BY <1>1, <2>1
    <3> QED BY <3>1, <3>2
  <2>6. PICK i, j \in 1 .. MaxSlots : i # j /\ c[i] = c[j]
    <3>1. Cardinality((1 .. MaxSlots) \ {y}) < Cardinality(1 .. MaxSlots)
      BY <1>1, <2>2, <2>4
    <3> DEFINE places == 1 .. MaxSlots
               others == (1 .. MaxSlots) \ {y}
    <3>2. /\ IsFiniteSet(places) /\ IsFiniteSet(others)
          /\ Cardinality(others) < Cardinality(places) /\ c \in [places -> others]
      BY <2>2, <2>4, <2>5, <3>1
    <3> HIDE DEF places, others
    <3>3. \E i, j \in places : i # j /\ c[i] = c[j]
      BY <3>2, FS_PigeonHole
    <3> QED BY <3>3 DEF places
  <2>7. i < j \/ j < i
    BY <2>6
  <2> QED BY <1>1, <1>2, <2>1, <2>6, <2>7
<1>4. Members(c) = T
  BY <1>1, <1>3 DEF Members
<1> QED BY <1>1, <1>4 DEF Listed

LEMMA WalkIsRow ==
  ASSUME NEW T, T \subseteq Ids, NEW q, Ranked(T, q), NEW nx, NEW head, NEW level,
         Follows(T, q, 0, head), \A n \in T : Follows(T, q, q[n], nx[n][level])
  PROVE  Listed(T, q, Walk(nx, head, level))
<1> DEFINE longer == [chain \in Seq(Ids) |->
                        LET n == IF chain = <<>> THEN head ELSE nx[chain[Len(chain)]][level]
                        IN IF n = NIL THEN chain ELSE Append(chain, n)]
           Gone(g) == g = [k \in 0 .. MaxSlots |-> IF k = 0 THEN <<>> ELSE longer[g[k - 1]]]
           go == CHOOSE g : Gone(g)
<1>1. MaxSlots \in Nat
  BY SkipListAssumption
<1>2. ASSUME NEW c, NEW k \in Nat, Begun(T, q, c, k) PROVE Begun(T, q, longer[c], k + 1)
  <2> DEFINE n == IF c = <<>> THEN head ELSE nx[c[Len(c)]][level]
  <2>1. c \in Seq(Ids)
    BY <1>2 DEF Begun
  <2>2. longer[c] = IF n = NIL THEN c ELSE Append(c, n)
    BY <2>1
  <2>3. Follows(T, q, Last(q, c), n)
    <3>1. CASE c = <<>>
      BY <3>1 DEF Last
    <3>2. CASE c # <<>>
      <4>1. Len(c) \in 1 .. Len(c)
        BY <2>1, <3>2
      <4>2. c[Len(c)] \in T
        BY <1>2, <4>1 DEF Begun
      <4> QED BY <3>2, <4>2 DEF Last
    <3> QED BY <3>1, <3>2
  <2> HIDE DEF n, longer
  <2> QED BY <1>2, <2>2, <2>3, BegunOn
<1>3. Walk(nx, head, level) = go[MaxSlots]
  BY DEF Walk
<1> HIDE DEF longer
<1>4. \E g : Gone(g)
  <2>1. PICK g : Steps(g, MaxSlots, <<>>, longer)
    BY <1>1, StepsExist
  <2> QED BY <2>1 DEF Steps
<1>5. Gone(go)
  BY <1>4
<1> HIDE DEF go
<1>6. \A k \in 0 .. MaxSlots : go[k] = IF k = 0 THEN <<>> ELSE longer[go[k - 1]]
  BY <1>5
<1> DEFINE Wrong == {k \in Nat : k <= MaxSlots /\ ~Begun(T, q, go[k], k)}
<1>7. Wrong = {}
  <2> SUFFICES ASSUME NEW k \in Wrong PROVE FALSE
    OBVIOUS
  <2>1. PICK m \in Wrong : \A j \in Wrong : m <= j
    BY LeastNumber
  <2>2. m \in Nat /\ m <= MaxSlots /\ ~Begun(T, q, go[m], m)
        /\ (m > 0 => Begun(T, q, go[m - 1], m - 1))
    BY <1>1, <2>1
  <2>3. CASE m = 0
    <3>1. go[0] = <<>>
      BY <1>1, <1>6
    <3>2. Begun(T, q, <<>>, 0)
      BY DEF Begun
    <3> QED BY <2>2, <2>3, <3>1, <3>2
  <2>4. CASE m # 0
    <3>1. m - 1 \in Nat /\ m \in 0 .. MaxSlots /\ m > 0 /\ m - 1 + 1 = m
      BY <1>1, <2>2, <2>4
    <3>2. go[m] = longer[go[m - 1]]
      BY <1>6, <2>4, <3>1
    <3>3. Begun(T, q, longer[go[m - 1]], m - 1 + 1)
      BY <1>2, <2>2, <3>1
    <3> QED BY <2>2, <3>1, <3>2, <3>3
  <2> QED BY <2>3, <2>4
<1>8. Begun(T, q, go[MaxSlots], MaxSlots)
  BY <1>1, <1>7
<1> QED BY <1>3, <1>8, BegunEnds

LEMMA SkipWalk ==
  ASSUME NEW S, NEW head, NEW r, NEW sl, NEW nx, Skip(S, head, r, sl, nx),
         NEW level \in SkipLevels
  PROVE  Listed(Tall(sl, S, level), r, Walk(nx, nx[head][level], level))
<1>1. /\ S \subseteq Ids /\ r[head] = 0 /\ Row(S, head, r, sl, nx, level)
      /\ Tall(sl, S, level) \subseteq S /\ Ranked(Tall(sl, S, level), r)
  BY SkipParts
<1>2. Tall(sl, S, level) \subseteq Ids
  BY <1>1
<1>3. /\ Follows(Tall(sl, S, level), r, 0, nx[head][level])
      /\ \A n \in Tall(sl, S, level) : Follows(Tall(sl, S, level), r, r[n], nx[n][level])
  BY <1>1 DEF Row
<1> QED BY <1>1, <1>2, <1>3, WalkIsRow

LEMMA SkipChain ==
  ASSUME NEW S, NEW head, NEW r, Skip(S, head, r, slot, next), NEW level \in SkipLevels
  PROVE  Listed(Tall(slot, S, level), r, Chain(head, level))
BY SkipWalk DEF Chain, ChainFrom

LEMMA QueueWalk ==
  ASSUME NEW T, NEW q, NEW nx, NEW head, Queue(T, q, nx, head)
  PROVE  Listed(T, q, Walk(nx, head, 0))
BY WalkIsRow DEF Queue

LEMMA QueueChain ==
  ASSUME NEW T, NEW q, NEW head, Queue(T, q, next, head)
  PROVE  Listed(T, q, ChainFrom(head, 0))
BY QueueWalk DEF ChainFrom

LEMMA LevelledRow ==
  ASSUME NEW S, NEW head, NEW r, Skip(S, head, r, slot, next), NEW level \in SkipLevels
  PROVE  Levelled(head, level)
<1> DEFINE all == Chain(head, 0)
           part == Chain(head, level)
<1>1. Listed(Tall(slot, S, level), r, part)
  BY SkipChain
<1>2. Listed(S, r, all)
  BY SkipChain, SkipParts, SomeIds
<1>3. \A y \in S : r[y] \in Nat
  BY SkipParts
<1> HIDE DEF all, part
<1>4. Members(part) = {x \in Members(all) : slot[x].level >= level}
  BY <1>1, <1>2 DEF Listed, Tall
<1>5. ASSUME NEW i \in DOMAIN part, NEW j \in DOMAIN part, i < j
      PROVE  \E a, b \in DOMAIN all : a < b /\ all[a] = part[i] /\ all[b] = part[j]
  <2>1. part[i] \in S /\ part[j] \in S /\ r[part[i]] < r[part[j]]
    BY <1>1, <1>5 DEF Listed, Members, Tall
  <2>2. PICK a \in DOMAIN all : all[a] = part[i]
    BY <1>2, <2>1 DEF Listed, Members
  <2>3. PICK b \in DOMAIN all : all[b] = part[j]
    BY <1>2, <2>1 DEF Listed, Members
  <2>4. a \in Nat /\ b \in Nat
    BY <1>2 DEF Listed
  <2>5. ~(b < a) /\ a # b
    BY <1>2, <1>3, <2>1, <2>2, <2>3 DEF Listed
  <2> QED BY <2>2, <2>3, <2>4, <2>5
<1> QED BY <1>4, <1>5 DEF Levelled, all, part

LEMMA ListMembers ==
  ASSUME NEW W, Lists(slot, next, entry_free, wait_head, wait_tail, made, W)
  PROVE  /\ Used = InUse(slot) /\ Free0 = Freed(slot) \ W /\ Waits = W
         /\ \A h \in Heights : Members(ChainFrom(entry_free[h], 0)) = Blank(slot, made, h)
<1>1. 0 \in SkipLevels
  BY SomeIds
<1>2. Used = InUse(slot)
  <2>1. Skip(InUse(slot), AddressList, ByAddress(slot), slot, next)
    BY DEF Lists
  <2> QED BY <1>1, <2>1, SkipChain, SkipParts DEF Listed, Used
<1>3. Free0 = Freed(slot) \ W
  <2>1. PICK r : Skip(Freed(slot) \ W, SizeList, r, slot, next)
    BY DEF Lists, Sizewise
  <2> QED BY <1>1, <2>1, SkipChain, SkipParts DEF Listed, Free0
<1>4. Waits = W
  <2>1. PICK q : Queue(W, q, next, wait_head)
    BY DEF Lists, Waitwise, Waiting
  <2> QED BY <2>1, QueueChain DEF Listed, Waits
<1>5. ASSUME NEW h \in Heights
      PROVE  Members(ChainFrom(entry_free[h], 0)) = Blank(slot, made, h)
  <2>1. Queue(Blank(slot, made, h), Down, next, entry_free[h])
    BY DEF Lists, Stacks
  <2> QED BY <2>1, QueueChain DEF Listed
<1> QED BY <1>2, <1>3, <1>4, <1>5

(* At every moment, also between the steps of an insertion that needs a new *)
(* admin block, each slot is on the list its flag says and on no other: the *)
(* slots alloc_slots cut are unused, in use, free by size or waiting, and   *)
(* the wait list ends in its tail.                                          *)
THEOREM SlotsOnOneList == Spec => []OneListEach
<1>1. RInv => OneListEach
  <2> SUFFICES ASSUME RInv PROVE OneListEach
    OBVIOUS
  <2>1. PICK W : Lists(slot, next, entry_free, wait_head, wait_tail, made, W)
    BY DEF RInv, ListsInv
  <2>2. /\ Used = InUse(slot) /\ Free0 = Freed(slot) \ W /\ Waits = W
        /\ \A h \in Heights : Members(ChainFrom(entry_free[h], 0)) = Blank(slot, made, h)
    BY <2>1, ListMembers
  <2>3. Slots(slot, made) /\ W \subseteq Freed(slot)
    BY <2>1 DEF Lists
  <2>4. Unused = {x \in 1 .. made : slot[x].flag = "none"}
    <3>1. \A x \in 1 .. made : slot[x].level \in Heights
      BY <2>3, SkipListAssumption DEF Slots, Ids
    <3> QED BY <2>2, <3>1 DEF Unused, Blank
  <2>5. Used = {x \in Ids : slot[x].flag \in {"USER", "ADMIN"}}
    BY <2>2 DEF InUse
  <2>6. Free0 \cup Waits = {x \in Ids : slot[x].flag = "FREE"} /\ Free0 \cap Waits = {}
    BY <2>2, <2>3 DEF Freed
  <2>7. ASSUME wait_head # NIL PROVE wait_tail \in Waits /\ next[wait_tail][0] = NIL
    <3>1. PICK q : Waiting(W, q, next, wait_head, wait_tail)
      BY <2>1 DEF Lists, Waitwise
    <3>2. wait_tail \in W /\ \A x \in W : q[x] <= q[wait_tail] /\ q[x] \in Nat
      BY <2>7, <3>1 DEF Waiting, Queue, Ranked
    <3>3. Follows(W, q, q[wait_tail], next[wait_tail][0])
      BY <3>1, <3>2 DEF Waiting, Queue
    <3> QED BY <2>2, <3>2, <3>3 DEF Follows
  <2> QED BY <2>4, <2>5, <2>6, <2>7 DEF OneListEach
<1> QED BY <1>1, Invariance, PTL

(* The levels of the address list and of the size list stay true to each    *)
(* other and sorted, and the address list is never found to have an address *)
(* already, whatever heights random_level drew.                             *)
THEOREM LevelsAgree == Spec => []ListsLevelled
<1>1. RInv => ListsLevelled
  <2> SUFFICES ASSUME RInv PROVE ListsLevelled
    OBVIOUS
  <2>1. PICK W : Lists(slot, next, entry_free, wait_head, wait_tail, made, W)
    BY DEF RInv, ListsInv
  <2>2. Skip(InUse(slot), AddressList, ByAddress(slot), slot, next)
    BY <2>1 DEF Lists
  <2>3. PICK r : Skip(Freed(slot) \ W, SizeList, r, slot, next) /\ BySize(Freed(slot) \ W, r, slot)
    BY <2>1 DEF Lists, Sizewise
  <2>4. \A list \in {AddressList, SizeList}, level \in SkipLevels : Levelled(list, level)
    BY <2>2, <2>3, LevelledRow
  <2>5. Listed(InUse(slot), ByAddress(slot), Chain(AddressList, 0))
    BY <2>2, SkipChain, SkipParts, SomeIds
  <2>6. Listed(Freed(slot) \ W, r, Chain(SizeList, 0))
    BY <2>3, SkipChain, SkipParts, SomeIds
  <2>7. /\ \A x \in InUse(slot) : ByAddress(slot)[x] = slot[x].mem /\ slot[x].mem \in Nat
        /\ \A x \in Freed(slot) \ W : r[x] \in Nat
    <3>1. slot \in [Ids -> SlotType] /\ InUse(slot) \subseteq Ids
      BY Parts DEF InUse
    <3> QED BY <2>3, <3>1, SlotFields, SkipParts
  <2>8. Sorted(AddressList, "mem")
    <3> DEFINE chain == Chain(AddressList, 0)
    <3> SUFFICES ASSUME NEW i \in DOMAIN chain, NEW j \in DOMAIN chain, i < j
                 PROVE  chain[i] # chain[j] /\ slot[chain[i]].mem <= slot[chain[j]].mem
      BY DEF Sorted
    <3> HIDE DEF chain
    <3>1. chain[i] \in InUse(slot) /\ chain[j] \in InUse(slot)
          /\ ByAddress(slot)[chain[i]] < ByAddress(slot)[chain[j]]
      BY <2>5 DEF Listed, Members, chain
    <3> QED BY <2>7, <3>1
  <2>9. Sorted(SizeList, "size")
    <3> DEFINE chain == Chain(SizeList, 0)
    <3> SUFFICES ASSUME NEW i \in DOMAIN chain, NEW j \in DOMAIN chain, i < j
                 PROVE  chain[i] # chain[j] /\ slot[chain[i]].size <= slot[chain[j]].size
      BY DEF Sorted
    <3> HIDE DEF chain
    <3>1. chain[i] \in Freed(slot) \ W /\ chain[j] \in Freed(slot) \ W
          /\ r[chain[i]] < r[chain[j]]
      BY <2>6 DEF Listed, Members, chain
    <3> QED BY <2>3, <2>7, <3>1 DEF BySize
  <2> QED BY <2>4, <2>8, <2>9, Parts DEF ListsLevelled
<1> QED BY <1>1, Invariance, PTL

(* However the levels fell, dmalloc finds the chunk around a pointer when   *)
(* there is one and never another, it reuses a free chunk of the size it    *)
(* needs when there is one, and it calls a pointer already free only when   *)
(* it points into free memory.                                              *)
THEOREM SearchesFind == Spec => []SearchesTrue
<1>1. RInv => SearchesTrue
  <2> SUFFICES ASSUME RInv PROVE SearchesTrue
    OBVIOUS
  <2>1. PICK W : Lists(slot, next, entry_free, wait_head, wait_tail, made, W)
    BY DEF RInv, ListsInv
  <2>2. Used = InUse(slot) /\ Free0 = Freed(slot) \ W
    BY <2>1, ListMembers
  <2>3. /\ slot \in [Ids -> SlotType] /\ Links(next) /\ Placed(slot, Taken(slot))
        /\ InUse(slot) \subseteq Taken(slot) /\ Freed(slot) \subseteq Taken(slot)
        /\ Taken(slot) \subseteq Ids
    BY Parts DEF InUse, Freed, Taken
  <2>4. PICK r : Skip(Freed(slot) \ W, SizeList, r, slot, next) /\ BySize(Freed(slot) \ W, r, slot)
    BY <2>1 DEF Lists, Sizewise
  <2>5. Skip(InUse(slot), AddressList, ByAddress(slot), slot, next) /\ Placed(slot, InUse(slot))
    BY <2>1, <2>3 DEF Lists, Placed
  <2>6. ASSUME NEW pnt \in 1 .. SystemEnd - 1
        PROVE  LET used == FindAddress(slot, next, AddressList, pnt, FALSE).found
                   free == FindAddress(slot, next, SizeList, pnt, FALSE).found
               IN /\ IF used = NIL THEN \A x \in Used : ~Around(x, pnt)
                                   ELSE used \in Used /\ Around(used, pnt)
                  /\ free # NIL => free \in Free0 /\ Around(free, pnt)
    <3> DEFINE used == FindAddress(slot, next, AddressList, pnt, FALSE).found
               free == FindAddress(slot, next, SizeList, pnt, FALSE).found
    <3>1. pnt \in Nat
      OBVIOUS
    <3>2. IF used = NIL THEN \A x \in InUse(slot) : ~Holds(slot, x, pnt)
                        ELSE used \in InUse(slot) /\ Holds(slot, used, pnt)
      BY <2>3, <2>5, <3>1, AddressFound
    <3>3. free = NIL \/ (free \in Freed(slot) \ W /\ (slot[free].mem = pnt
            \/ (slot[free].mem < pnt /\ pnt < slot[free].mem + slot[free].size)))
      BY <2>3, <2>4, StrayFound
    <3> HIDE DEF used, free
    <3>4. ASSUME free # NIL PROVE free \in Free0 /\ Around(free, pnt)
      <4>1. free \in Taken(slot) /\ slot[free].mem \in Nat /\ slot[free].size \in Nat \ {0}
        BY <2>3, <3>3, <3>4, SlotFields DEF Placed
      <4> QED BY <2>2, <3>1, <3>3, <3>4, <4>1 DEF Around
    <3>5. IF used = NIL THEN \A x \in Used : ~Around(x, pnt)
                        ELSE used \in Used /\ Around(used, pnt)
      BY <2>2, <3>2 DEF Around, Holds
    <3> QED BY <3>4, <3>5 DEF used, free
  <2>7. ASSUME NEW n \in Sizes
        PROVE  LET found == FindFreeSize(slot, next, n).found
               IN IF found = NIL THEN \A x \in Free0 : slot[x].size # n
                                 ELSE found \in Free0 /\ slot[found].size = n
    <3>1. n \in Nat
      BY SizesAssumption
    <3> QED BY <2>2, <2>3, <2>4, <3>1, SizeFound
  <2> QED BY <2>6, <2>7 DEF SearchesTrue
<1> QED BY <1>1, Invariance, PTL

(* Every slot, in use, free or waiting, stands for memory of its own within *)
(* a block that the heap gave out once, whoever else takes memory meanwhile *)
(* and however often an allocation fails half way; and the block starts on  *)
(* a boundary where the break moves up.                                     *)
THEOREM MemoryOnce == Spec => []BlocksSound
<1>1. RInv /\ BlocksAligned => BlocksSound
  <2> SUFFICES ASSUME RInv, BlocksAligned PROVE BlocksSound
    OBVIOUS
  <2>1. PICK W : Lists(slot, next, entry_free, wait_head, wait_tail, made, W)
    BY DEF RInv, ListsInv
  <2>2. Used = InUse(slot) /\ Free0 = Freed(slot) \ W /\ Waits = W
    BY <2>1, ListMembers
  <2>3. Slots(slot, made) /\ W \subseteq Freed(slot)
    BY <2>1 DEF Lists
  <2>4. Used \cup Free0 \cup Waits = Taken(slot)
    BY <2>2, <2>3, Kinds
  <2>5. HInv /\ Housed(slot, given)
    BY DEF RInv, MemoryInv
  <2>6. \A x \in Taken(slot) :
          \E r \in given : r.lo <= slot[x].mem /\ slot[x].mem + slot[x].size <= r.lo + r.size
    BY <2>5 DEF Housed, Inside, MemoryOf, Extent
  <2>7. \A x, y \in Taken(slot) : x # y => Apart(Memory(x), Memory(y))
    BY <2>5 DEF Housed, Placed, MemoryOf, Memory
  <2> QED BY <2>4, <2>5, <2>6, <2>7 DEF BlocksSound
<1> QED BY <1>1, Invariance, Alignment, PTL

-----------------------------------------------------------------------------
(* The lists implement ChunkStore.  A list is written down in one way only; *)
(* what a step puts in front, takes off the front or adds behind, the       *)
(* sequence has in front, loses from its front or has behind.               *)
LEMMA ListedFacts ==
  ASSUME NEW T, NEW q, NEW c, Listed(T, q, c)
  PROVE  /\ c \in Seq(Ids) /\ Len(c) \in Nat /\ DOMAIN c = 1 .. Len(c)
         /\ \A i \in 1 .. Len(c) : c[i] \in T
         /\ \A y \in T : \E i \in 1 .. Len(c) : c[i] = y
         /\ \A i, j \in 1 .. Len(c) : i < j => q[c[i]] < q[c[j]]
<1>1. c \in Seq(Ids) /\ Members(c) = T
  BY DEF Listed
<1>2. Len(c) \in Nat /\ DOMAIN c = 1 .. Len(c)
  BY <1>1
<1> QED BY <1>1, <1>2 DEF Listed, Members

LEMMA ListedHasIt ==
  ASSUME NEW T, NEW q, Ranked(T, q), NEW c, Listed(T, q, c), NEW d, Listed(T, q, d),
         NEW i \in 1 .. Len(c), \A j \in 1 .. i - 1 : j \in 1 .. Len(d) /\ d[j] = c[j]
  PROVE  \E j \in 1 .. Len(d) : i <= j /\ d[j] = c[i]
<1>1. \A y \in T : q[y] \in Nat
  BY DEF Ranked
<1>3. Len(c) \in Nat /\ Len(d) \in Nat /\ c[i] \in T
  BY ListedFacts
<1>2. PICK j \in 1 .. Len(d) : d[j] = c[i]
  <2>1. \A y \in T : \E j \in 1 .. Len(d) : d[j] = y
    BY ListedFacts
  <2> QED BY <1>3, <2>1
<1>4. ~(j < i)
  <2> SUFFICES ASSUME j < i PROVE FALSE
    OBVIOUS
  <2>1. j \in 1 .. i - 1 /\ j \in 1 .. Len(c)
    BY <1>3
  <2>2. d[j] = c[j] /\ q[c[j]] < q[c[i]]
    BY <2>1, ListedFacts
  <2> QED BY <1>1, <1>2, <1>3, <2>2
<1> QED BY <1>2, <1>3, <1>4

LEMMA ListedIsOne ==
  ASSUME NEW T, NEW q, Ranked(T, q), NEW c, Listed(T, q, c), NEW d, Listed(T, q, d)
  PROVE  c = d
<1>1. \A y \in T : q[y] \in Nat
  BY DEF Ranked
<1>2. /\ c \in Seq(Ids) /\ d \in Seq(Ids) /\ Len(c) \in Nat /\ Len(d) \in Nat
      /\ \A i \in 1 .. Len(c) : c[i] \in T
      /\ \A i \in 1 .. Len(d) : d[i] \in T
      /\ \A i, j \in 1 .. Len(c) : i < j => q[c[i]] < q[c[j]]
      /\ \A i, j \in 1 .. Len(d) : i < j => q[d[i]] < q[d[j]]
  BY ListedFacts
<1> DEFINE Common(i) == i \in 1 .. Len(c) /\ i \in 1 .. Len(d) /\ c[i] = d[i]
           Off == {i \in Nat : (i \in 1 .. Len(c) \/ i \in 1 .. Len(d)) /\ ~Common(i)}
<1>3. Off = {}
  <2> SUFFICES ASSUME NEW e \in Off PROVE FALSE
    OBVIOUS
  <2>1. PICK i \in Off : \A j \in Off : i <= j
    BY LeastNumber
  <2>2. i \in Nat /\ i >= 1 /\ (i \in 1 .. Len(c) \/ i \in 1 .. Len(d)) /\ ~Common(i)
    OBVIOUS
  <2>3. \A j \in 1 .. i - 1 : Common(j)
    <3> SUFFICES ASSUME NEW j \in 1 .. i - 1 PROVE Common(j)
      OBVIOUS
    <3>1. j \in Nat /\ j < i /\ (j \in 1 .. Len(c) \/ j \in 1 .. Len(d))
      BY <1>2, <2>2
    <3>2. j \notin Off
      BY <2>1, <2>2, <3>1
    <3> QED BY <3>1, <3>2
  <2>4. i \in 1 .. Len(c) => \E j \in 1 .. Len(d) : i <= j /\ d[j] = c[i]
    BY <2>3, ListedHasIt
  <2>5. i \in 1 .. Len(d) => \E j \in 1 .. Len(c) : i <= j /\ c[j] = d[i]
    BY <2>3, ListedHasIt
  <2>6. i \in 1 .. Len(c) /\ i \in 1 .. Len(d)
    BY <1>2, <2>2, <2>4, <2>5
  <2>7. PICK j \in 1 .. Len(d) : i <= j /\ d[j] = c[i]
    BY <2>4, <2>6
  <2>8. PICK k \in 1 .. Len(c) : i <= k /\ c[k] = d[i]
    BY <2>5, <2>6
  <2>9. j # i /\ k # i
    BY <2>2, <2>6, <2>7, <2>8
  <2>10. q[d[i]] < q[c[i]] /\ q[c[i]] < q[d[i]]
    BY <1>2, <2>6, <2>7, <2>8, <2>9
  <2> QED BY <1>1, <1>2, <2>6, <2>10
<1>4. \A i \in Nat : i \in 1 .. Len(c) \/ i \in 1 .. Len(d) => Common(i)
  BY <1>3
<1>5. Len(c) = Len(d)
  <2>1. Len(c) > 0 => Len(c) \in 1 .. Len(d)
    BY <1>2, <1>4
  <2>2. Len(d) > 0 => Len(d) \in 1 .. Len(c)
    BY <1>2, <1>4
  <2> QED BY <1>2, <2>1, <2>2
<1>6. \A i \in 1 .. Len(c) : c[i] = d[i]
  BY <1>2, <1>4
<1> QED BY <1>2, <1>5, <1>6

LEMMA ListedReranked ==
  ASSUME NEW T, NEW q, NEW c, Listed(T, q, c), NEW p, InOrder(T, q, p)
  PROVE  Listed(T, p, c)
BY DEF Listed, InOrder, Members

LEMMA ListedPushed ==
  ASSUME NEW T, NEW q, NEW c, Listed(T, q, c), NEW x \in Ids, \A y \in T : q[x] < q[y]
  PROVE  Listed({x} \cup T, q, <<x>> \o c)
<1> DEFINE d == <<x>> \o c
<1>1. /\ c \in Seq(Ids) /\ Len(c) \in Nat
      /\ \A i \in 1 .. Len(c) : c[i] \in T
      /\ \A y \in T : \E i \in 1 .. Len(c) : c[i] = y
      /\ \A i, j \in 1 .. Len(c) : i < j => q[c[i]] < q[c[j]]
  BY ListedFacts
<1>2. /\ d \in Seq(Ids) /\ Len(d) = Len(c) + 1 /\ DOMAIN d = 1 .. Len(d) /\ d[1] = x
      /\ \A i \in 1 .. Len(d) : i # 1 => d[i] = c[i - 1]
  BY <1>1
<1> HIDE DEF d
<1>3. \A i \in 1 .. Len(d) : i # 1 => i - 1 \in 1 .. Len(c)
  BY <1>1, <1>2
<1>4. \A i \in 1 .. Len(c) : i + 1 \in 1 .. Len(d) /\ d[i + 1] = c[i]
  BY <1>1, <1>2
<1>5. Members(d) = {x} \cup T
  <2>1. \A i \in DOMAIN d : d[i] \in {x} \cup T
    BY <1>1, <1>2, <1>3
  <2>2. 1 \in DOMAIN d
    BY <1>1, <1>2
  <2>3. ASSUME NEW y \in T PROVE \E i \in DOMAIN d : d[i] = y
    <3>1. PICK i \in 1 .. Len(c) : c[i] = y
      BY <1>1
    <3> QED BY <1>2, <1>4, <3>1
  <2> QED BY <1>2, <2>1, <2>2, <2>3 DEF Members
<1>6. ASSUME NEW i \in DOMAIN d, NEW j \in DOMAIN d, i < j PROVE q[d[i]] < q[d[j]]
  <2>1. i \in Nat /\ j \in Nat /\ j # 1 /\ d[j] = c[j - 1] /\ j - 1 \in 1 .. Len(c)
    BY <1>1, <1>2, <1>3, <1>6
  <2>2. CASE i = 1
    BY <1>1, <1>2, <2>1, <2>2
  <2>3. CASE i # 1
    <3>1. i - 1 \in 1 .. Len(c) /\ i - 1 < j - 1 /\ d[i] = c[i - 1]
      BY <1>2, <1>3, <1>6, <2>1, <2>3
    <3> QED BY <1>1, <2>1, <3>1
  <2> QED BY <2>2, <2>3
<1> QED BY <1>2, <1>5, <1>6 DEF Listed, d

LEMMA ListedPopped ==
  ASSUME NEW T, NEW q, Ranked(T, q), NEW c, Listed(T, q, c), NEW x \in T,
         \A y \in T : q[x] <= q[y]
  PROVE  c # <<>> /\ Head(c) = x /\ Listed(T \ {x}, q, Tail(c))
<1>1. /\ c \in Seq(Ids) /\ Len(c) \in Nat
      /\ \A i \in 1 .. Len(c) : c[i] \in T
      /\ \A y \in T : \E i \in 1 .. Len(c) : c[i] = y
      /\ \A i, j \in 1 .. Len(c) : i < j => q[c[i]] < q[c[j]]
  BY ListedFacts
<1>2. \A y \in T : q[y] \in Nat
  BY DEF Ranked
<1>3. c # <<>> /\ c[1] = x /\ 1 \in 1 .. Len(c)
  <2>1. PICK i \in 1 .. Len(c) : c[i] = x
    BY <1>1
  <2>2. 1 \in 1 .. Len(c)
    BY <1>1, <2>1
  <2>3. ~(1 < i)
    BY <1>1, <1>2, <2>1, <2>2
  <2> QED BY <1>1, <2>1, <2>2, <2>3
<1> DEFINE d == Tail(c)
<1>4. /\ d \in Seq(Ids) /\ Len(d) = Len(c) - 1 /\ DOMAIN d = 1 .. Len(d)
      /\ \A i \in 1 .. Len(d) : d[i] = c[i + 1]
  BY <1>1, <1>3
<1> HIDE DEF d
<1>5. \A i \in 1 .. Len(d) : i + 1 \in 1 .. Len(c) /\ 1 < i + 1
  BY <1>1, <1>4
<1>6. Members(d) = T \ {x}
  <2>1. \A i \in DOMAIN d : d[i] \in T \ {x}
    <3> TAKE i \in DOMAIN d
    <3>1. d[i] \in T /\ q[x] < q[d[i]]
      BY <1>1, <1>3, <1>4, <1>5
    <3> QED BY <1>2, <3>1
  <2>2. ASSUME NEW y \in T \ {x} PROVE \E i \in DOMAIN d : d[i] = y
    <3>1. PICK i \in 1 .. Len(c) : c[i] = y
      BY <1>1
    <3>2. i - 1 \in 1 .. Len(d) /\ i - 1 + 1 = i
      BY <1>1, <1>3, <1>4, <3>1
    <3> QED BY <1>4, <3>1, <3>2
  <2> QED BY <2>1, <2>2 DEF Members
<1>7. \A i, j \in DOMAIN d : i < j => q[d[i]] < q[d[j]]
  <2> SUFFICES ASSUME NEW i \in 1 .. Len(d), NEW j \in 1 .. Len(d), i < j
               PROVE  q[d[i]] < q[d[j]]
    BY <1>4
  <2>1. d[i] = c[i + 1] /\ d[j] = c[j + 1] /\ i + 1 < j + 1
    BY <1>4
  <2>2. q[c[i + 1]] < q[c[j + 1]]
    BY <1>1, <1>5, <2>1
  <2> QED BY <2>1, <2>2
<1> QED BY <1>1, <1>3, <1>4, <1>6, <1>7 DEF Listed, d

LEMMA ListedAppended ==
  ASSUME NEW T, NEW q, NEW c, Listed(T, q, c), NEW x \in Ids, \A y \in T : q[y] < q[x]
  PROVE  Listed(T \cup {x}, q, Append(c, x))
<1> DEFINE d == Append(c, x)
<1>1. /\ c \in Seq(Ids) /\ Len(c) \in Nat
      /\ \A i \in 1 .. Len(c) : c[i] \in T
      /\ \A y \in T : \E i \in 1 .. Len(c) : c[i] = y
      /\ \A i, j \in 1 .. Len(c) : i < j => q[c[i]] < q[c[j]]
  BY ListedFacts
<1>2. /\ d \in Seq(Ids) /\ Len(d) = Len(c) + 1 /\ DOMAIN d = 1 .. Len(d) /\ d[Len(d)] = x
      /\ \A i \in 1 .. Len(c) : d[i] = c[i]
  BY <1>1
<1> HIDE DEF d
<1>3. 1 .. Len(d) = (1 .. Len(c)) \cup {Len(d)} /\ \A i \in 1 .. Len(c) : i < Len(d)
  BY <1>1, <1>2
<1>4. Members(d) = T \cup {x}
  BY <1>1, <1>2, <1>3 DEF Members
<1>5. ASSUME NEW i \in DOMAIN d, NEW j \in DOMAIN d, i < j PROVE q[d[i]] < q[d[j]]
  <2>1. i \in 1 .. Len(c)
    BY <1>1, <1>2, <1>5
  <2> QED BY <1>1, <1>2, <1>3, <1>5, <2>1
<1> QED BY <1>2, <1>4, <1>5 DEF Listed, d

(* The chunks of one size are one stretch of the size list.                 *)
Alike(sl, F, n) == {y \in F : sl[y].size = n}
Stretch(sl, c, n) ==
  LET at == {i \in DOMAIN c : sl[c[i]].size = n}
  IN IF at = {} THEN <<>> ELSE SubSeq(c, Min(at), Max(at))

LEMMA EndsOf ==
  ASSUME NEW m \in Nat, NEW at \in SUBSET (1 .. m), at # {}
  PROVE  /\ Min(at) \in at /\ \A k \in at : Min(at) <= k
         /\ Max(at) \in at /\ \A k \in at : k <= Max(at)
<1>0. \A k \in at : k \in Nat /\ k <= m
  OBVIOUS
<1>1. \E x \in at : \A y \in at : x <= y
  <2>1. at \subseteq Nat
    BY <1>0
  <2> QED BY <2>1, LeastNumber
<1>2. \E x \in at : \A y \in at : x >= y
  <2> DEFINE Back == {m - k : k \in at}
  <2>1. Back \subseteq Nat /\ Back # {}
    <3>1. \A k \in at : m - k \in Nat
      BY <1>0
    <3>2. \A b \in Back : b \in Nat
      BY <3>1
    <3> QED BY <3>2
  <2> HIDE DEF Back
  <2>2. PICK x \in Back : \A y \in Back : x <= y
    BY <2>1, LeastNumber
  <2>3. PICK k \in at : x = m - k
    BY DEF Back
  <2>4. \A j \in at : m - k <= m - j
    BY <2>2, <2>3 DEF Back
  <2>5. \A j \in at : k >= j
    BY <1>0, <2>4
  <2> QED BY <2>5
<1> QED BY <1>1, <1>2 DEF Min, Max

LEMMA AlikeTogether ==
  ASSUME NEW F, NEW r, NEW c, Listed(F, r, c), NEW sl, BySize(F, r, sl),
         \A y \in F : sl[y].size \in Nat, NEW n
  PROVE  Listed(Alike(sl, F, n), r, Stretch(sl, c, n))
<1> DEFINE at == {i \in DOMAIN c : sl[c[i]].size = n}
<1>1. /\ c \in Seq(Ids) /\ Len(c) \in Nat /\ DOMAIN c = 1 .. Len(c)
      /\ \A i \in 1 .. Len(c) : c[i] \in F
      /\ \A y \in F : \E i \in 1 .. Len(c) : c[i] = y
      /\ \A i, j \in 1 .. Len(c) : i < j => r[c[i]] < r[c[j]]
  BY ListedFacts
<1>2. CASE at = {}
  <2>1. Stretch(sl, c, n) = <<>>
    BY <1>2 DEF Stretch
  <2>2. Alike(sl, F, n) = {}
    BY <1>1, <1>2 DEF Alike
  <2> QED BY <2>1, <2>2 DEF Listed, Members
<1>3. CASE at # {}
  <2> DEFINE lo == Min(at)
             hi == Max(at)
             d == SubSeq(c, lo, hi)
  <2>1. Stretch(sl, c, n) = d
    BY <1>3 DEF Stretch
  <2>2. /\ lo \in at /\ \A k \in at : lo <= k
        /\ hi \in at /\ \A k \in at : k <= hi
    <3>1. at \in SUBSET (1 .. Len(c))
      BY <1>1
    <3> HIDE DEF at
    <3> QED BY <1>1, <1>3, <3>1, EndsOf
  <2> HIDE DEF lo, hi
  <2>3. lo \in 1 .. Len(c) /\ hi \in 1 .. Len(c) /\ lo <= hi
        /\ sl[c[lo]].size = n /\ sl[c[hi]].size = n
    BY <1>1, <2>2
  <2>4. /\ d \in Seq(Ids) /\ Len(d) = hi - lo + 1 /\ DOMAIN d = 1 .. Len(d)
        /\ \A i \in 1 .. Len(d) : d[i] = c[lo + i - 1]
    BY <1>1, <2>3
  <2> HIDE DEF d
  <2>5. \A i \in 1 .. Len(d) : lo + i - 1 \in 1 .. Len(c) /\ lo <= lo + i - 1 /\ lo + i - 1 <= hi
    BY <1>1, <2>3, <2>4
  <2>6. ASSUME NEW k \in 1 .. Len(c), lo <= k, k <= hi PROVE sl[c[k]].size = n
    <3>1. sl[c[lo]].size <= sl[c[k]].size
      <4>1. CASE lo = k
        BY <1>1, <2>3, <4>1
      <4>2. CASE lo # k
        <5>1. lo < k
          BY <2>3, <2>6, <4>2
        <5>2. r[c[lo]] < r[c[k]] /\ c[lo] \in F /\ c[k] \in F
          BY <1>1, <2>3, <5>1
        <5> QED BY <5>2 DEF BySize
      <4> QED BY <4>1, <4>2
    <3>2. sl[c[k]].size <= sl[c[hi]].size
      <4>1. CASE hi = k
        BY <1>1, <2>3, <4>1
      <4>2. CASE hi # k
        <5>1. k < hi
          BY <2>3, <2>6, <4>2
        <5>2. r[c[k]] < r[c[hi]] /\ c[hi] \in F /\ c[k] \in F
          BY <1>1, <2>3, <5>1
        <5> QED BY <5>2 DEF BySize
      <4> QED BY <4>1, <4>2
    <3>3. sl[c[k]].size \in Nat /\ sl[c[lo]].size \in Nat
      BY <1>1, <2>3
    <3> QED BY <2>3, <3>1, <3>2, <3>3
  <2>7. Members(d) = Alike(sl, F, n)
    <3>1. \A i \in DOMAIN d : d[i] \in Alike(sl, F, n)
      BY <1>1, <2>4, <2>5, <2>6 DEF Alike
    <3>2. ASSUME NEW y \in Alike(sl, F, n) PROVE \E i \in DOMAIN d : d[i] = y
      <4>1. PICK k \in 1 .. Len(c) : c[k] = y
        BY <1>1 DEF Alike
      <4>2. k \in at
        BY <1>1, <4>1 DEF Alike
      <4>3. k - lo + 1 \in 1 .. Len(d) /\ lo + (k - lo + 1) - 1 = k
        <5>1. lo <= k /\ k <= hi
          BY <2>2, <4>2
        <5> QED BY <1>1, <2>3, <2>4, <5>1
      <4> QED BY <2>4, <4>1, <4>3
    <3> QED BY <3>1, <3>2 DEF Members
  <2>8. ASSUME NEW i \in DOMAIN d, NEW j \in DOMAIN d, i < j PROVE r[d[i]] < r[d[j]]
    <3>1. i \in 1 .. Len(d) /\ j \in 1 .. Len(d)
      BY <2>4
    <3>2. lo + i - 1 \in 1 .. Len(c) /\ lo + j - 1 \in 1 .. Len(c)
      BY <2>5, <3>1
    <3>3. lo + i - 1 < lo + j - 1
      BY <1>1, <2>3, <2>4, <2>8, <3>1
    <3> QED BY <1>1, <2>4, <3>1, <3>2, <3>3
  <2> QED BY <2>1, <2>4, <2>7, <2>8 DEF Listed
<1> QED BY <1>2, <1>3

(* What is seen of the lists, as ChunkStore has it.                         *)
ChunkOf(sl, x) == [mem |-> sl[x].mem, size |-> sl[x].size]
AbstractOf(sl, c) == [i \in DOMAIN c |-> ChunkOf(sl, c[i])]
SeenUsed(sl, nx) == {ChunkOf(sl, x) : x \in Members(Walk(nx, nx[AddressList][0], 0))}
SeenWaiting(sl, nx, wh) == AbstractOf(sl, Walk(nx, wh, 0))
SizeWalk(nx) == Walk(nx, nx[SizeList][0], 0)
SeenFree(sl, nx) == [n \in Bytes |-> AbstractOf(sl, Stretch(sl, SizeWalk(nx), n))]

LEMMA AbstractSame ==
  ASSUME NEW sl, NEW sm, NEW c, \A i \in DOMAIN c : ChunkOf(sm, c[i]) = ChunkOf(sl, c[i])
  PROVE  AbstractOf(sm, c) = AbstractOf(sl, c)
BY DEF AbstractOf

LEMMA AbstractSeq ==
  ASSUME NEW sl, NEW c \in Seq(Ids)
  PROVE  /\ AbstractOf(sl, c) \in Seq({ChunkOf(sl, x) : x \in Ids})
         /\ Len(AbstractOf(sl, c)) = Len(c)
         /\ \A i \in 1 .. Len(c) : AbstractOf(sl, c)[i] = ChunkOf(sl, c[i])
<1> DEFINE a == AbstractOf(sl, c)
           S == {ChunkOf(sl, x) : x \in Ids}
<1>1. Len(c) \in Nat /\ DOMAIN c = 1 .. Len(c) /\ \A i \in 1 .. Len(c) : c[i] \in Ids
  OBVIOUS
<1>2. a = [i \in 1 .. Len(c) |-> ChunkOf(sl, c[i])]
  BY <1>1 DEF AbstractOf
<1>3. \A i \in 1 .. Len(c) : ChunkOf(sl, c[i]) \in S
  BY <1>1
<1> HIDE DEF a, S
<1>4. a \in [1 .. Len(c) -> S]
  BY <1>2, <1>3
<1>5. a \in Seq(S) /\ Len(a) = Len(c)
  BY <1>1, <1>4
<1> QED BY <1>2, <1>5 DEF a, S

LEMMA AbstractPushed ==
  ASSUME NEW sl, NEW c \in Seq(Ids), NEW x \in Ids
  PROVE  AbstractOf(sl, <<x>> \o c) = <<ChunkOf(sl, x)>> \o AbstractOf(sl, c)
<1>1. PICK d : d = <<x>> \o c
  OBVIOUS
<1>2. /\ d \in Seq(Ids) /\ Len(d) = Len(c) + 1 /\ d[1] = x /\ Len(c) \in Nat
      /\ \A i \in 1 .. Len(d) : i # 1 => d[i] = c[i - 1] /\ i - 1 \in 1 .. Len(c)
  BY <1>1
<1>3. PICK a, b, k : a = AbstractOf(sl, c) /\ b = AbstractOf(sl, d) /\ k = ChunkOf(sl, x)
  OBVIOUS
<1>4. PICK S : S = {ChunkOf(sl, y) : y \in Ids}
  OBVIOUS
<1>5. /\ a \in Seq(S) /\ b \in Seq(S) /\ k \in S /\ Len(a) = Len(c) /\ Len(b) = Len(d)
      /\ \A i \in 1 .. Len(c) : a[i] = ChunkOf(sl, c[i])
      /\ \A i \in 1 .. Len(d) : b[i] = ChunkOf(sl, d[i])
  BY <1>2, <1>3, <1>4, AbstractSeq
<1>6. \A i \in 1 .. Len(d) : b[i] = IF i = 1 THEN k ELSE a[i - 1]
  BY <1>2, <1>3, <1>5
<1>7. b = <<k>> \o a
  BY <1>2, <1>5, <1>6
<1> QED BY <1>1, <1>3, <1>7

LEMMA AbstractPopped ==
  ASSUME NEW sl, NEW c \in Seq(Ids), c # <<>>
  PROVE  /\ AbstractOf(sl, c) # <<>> /\ Head(AbstractOf(sl, c)) = ChunkOf(sl, Head(c))
         /\ Tail(AbstractOf(sl, c)) = AbstractOf(sl, Tail(c))
<1>1. PICK d : d = Tail(c)
  OBVIOUS
<1>2. /\ d \in Seq(Ids) /\ Len(d) = Len(c) - 1 /\ Head(c) = c[1] /\ Len(c) \in Nat /\ Len(c) >= 1
      /\ \A i \in 1 .. Len(d) : d[i] = c[i + 1] /\ i + 1 \in 1 .. Len(c)
  BY <1>1
<1>3. PICK a, b : a = AbstractOf(sl, c) /\ b = AbstractOf(sl, d)
  OBVIOUS
<1>4. PICK S : S = {ChunkOf(sl, y) : y \in Ids}
  OBVIOUS
<1>5. /\ a \in Seq(S) /\ b \in Seq(S) /\ Len(a) = Len(c) /\ Len(b) = Len(d)
      /\ \A i \in 1 .. Len(c) : a[i] = ChunkOf(sl, c[i])
      /\ \A i \in 1 .. Len(d) : b[i] = ChunkOf(sl, d[i])
  BY <1>2, <1>3, <1>4, AbstractSeq
<1>6. \A i \in 1 .. Len(d) : b[i] = a[i + 1]
  BY <1>2, <1>5
<1>7. a # <<>> /\ Head(a) = a[1] /\ a[1] = ChunkOf(sl, c[1])
  BY <1>2, <1>5
<1>8. Tail(a) = b
  <2>1. PICK t : t = Tail(a)
    OBVIOUS
  <2>2. /\ t \in Seq(S) /\ Len(t) = Len(a) - 1
        /\ \A i \in 1 .. Len(t) : t[i] = a[i + 1]
    BY <1>5, <1>7, <2>1
  <2>3. Len(t) = Len(b) /\ \A i \in 1 .. Len(b) : t[i] = b[i]
    BY <1>2, <1>5, <1>6, <2>2
  <2>4. t = b
    BY <1>5, <2>2, <2>3
  <2> QED BY <2>1, <2>4
<1> QED BY <1>1, <1>2, <1>3, <1>7, <1>8

LEMMA AbstractAppended ==
  ASSUME NEW sl, NEW c \in Seq(Ids), NEW x \in Ids
  PROVE  AbstractOf(sl, Append(c, x)) = Append(AbstractOf(sl, c), ChunkOf(sl, x))
<1>1. PICK d : d = Append(c, x)
  OBVIOUS
<1>2. /\ d \in Seq(Ids) /\ Len(d) = Len(c) + 1 /\ d[Len(d)] = x /\ Len(c) \in Nat
      /\ \A i \in 1 .. Len(c) : d[i] = c[i]
  BY <1>1
<1>3. PICK a, b, k : a = AbstractOf(sl, c) /\ b = AbstractOf(sl, d) /\ k = ChunkOf(sl, x)
  OBVIOUS
<1>4. PICK S : S = {ChunkOf(sl, y) : y \in Ids}
  OBVIOUS
<1>5. /\ a \in Seq(S) /\ b \in Seq(S) /\ k \in S /\ Len(a) = Len(c) /\ Len(b) = Len(d)
      /\ \A i \in 1 .. Len(c) : a[i] = ChunkOf(sl, c[i])
      /\ \A i \in 1 .. Len(d) : b[i] = ChunkOf(sl, d[i])
  BY <1>2, <1>3, <1>4, AbstractSeq
<1>6. \A i \in 1 .. Len(d) : b[i] = IF i = Len(d) THEN k ELSE a[i]
  <2>1. \A i \in 1 .. Len(d) : i # Len(d) => i \in 1 .. Len(c)
    BY <1>2
  <2> QED BY <1>2, <1>3, <1>5, <2>1
<1>7. b = Append(a, k)
  BY <1>2, <1>5, <1>6
<1> QED BY <1>1, <1>3, <1>7

(* The size list in an order of its own, and the free chunks of a size.     *)
FreeRows(sl, nx, F, r) ==
  sl \in [Ids -> SlotType] /\ Skip(F, SizeList, r, sl, nx) /\ BySize(F, r, sl)
FreeOf(sl, nx, n) == Stretch(sl, SizeWalk(nx), n)

LEMMA FreeListed ==
  ASSUME NEW sl, NEW nx, NEW F, NEW r, FreeRows(sl, nx, F, r)
  PROVE  /\ F \subseteq Ids /\ Ranked(F, r) /\ SizeWalk(nx) \in Seq(Ids)
         /\ \A x \in F : sl[x].size \in Nat
         /\ \A n : /\ Listed(Alike(sl, F, n), r, FreeOf(sl, nx, n))
                   /\ Ranked(Alike(sl, F, n), r) /\ FreeOf(sl, nx, n) \in Seq(Ids)
<1>1. 0 \in SkipLevels /\ Skip(F, SizeList, r, sl, nx)
  BY SomeIds DEF FreeRows
<1>2. F \subseteq Ids /\ Ranked(F, r) /\ Tall(sl, F, 0) = F
  BY <1>1, SkipParts
<1>3. Listed(F, r, SizeWalk(nx))
  BY <1>1, <1>2, SkipWalk DEF SizeWalk
<1>4. \A x \in F : sl[x].size \in Nat
  BY <1>2, SlotFields DEF FreeRows
<1>5. \A n : Listed(Alike(sl, F, n), r, FreeOf(sl, nx, n))
  BY <1>3, <1>4, AlikeTogether DEF FreeRows, FreeOf
<1>6. \A n : Ranked(Alike(sl, F, n), r)
  BY <1>2 DEF Ranked, Alike
<1> QED BY <1>2, <1>3, <1>4, <1>5, <1>6 DEF Listed

FreeSame(sl, nx, sm, ny) == \A n : FreeOf(sm, ny, n) = FreeOf(sl, nx, n)
LEMMA FreeFramed ==
  ASSUME NEW sl, NEW nx, NEW F, NEW r, FreeRows(sl, nx, F, r), NEW sm \in [Ids -> SlotType],
         \A x \in F : sm[x].level = sl[x].level /\ sm[x].size = sl[x].size,
         NEW ny, NEW nodes, Within(nx, ny, nodes), nodes \cap (F \cup {SizeList}) = {}
  PROVE  FreeRows(sm, ny, F, r) /\ FreeSame(sl, nx, sm, ny)
<1>1. F \subseteq Ids
  BY FreeListed
<1>2. \A n \in F \cup {SizeList} : ny[n] = nx[n]
  BY <1>1, SomeIds DEF Within
<1>3. Skip(F, SizeList, r, sm, ny)
  BY <1>2, SkipFramed DEF FreeRows
<1>4. FreeRows(sm, ny, F, r)
  BY <1>3 DEF FreeRows, BySize
<1>5. ASSUME NEW n PROVE FreeOf(sm, ny, n) = FreeOf(sl, nx, n)
  <2>1. Alike(sm, F, n) = Alike(sl, F, n)
    BY DEF Alike
  <2>2. /\ Listed(Alike(sl, F, n), r, FreeOf(sl, nx, n)) /\ Ranked(Alike(sl, F, n), r)
        /\ Listed(Alike(sm, F, n), r, FreeOf(sm, ny, n))
    BY <1>4, FreeListed
  <2> QED BY <2>1, <2>2, ListedIsOne
<1> QED BY <1>4, <1>5 DEF FreeSame

PutFirst(sl, F, r, x, q) ==
  InOrder(F, r, q) /\ \A y \in F : sl[y].size < sl[x].size <=> q[y] < q[x]
Pushed(sl, nx, ny, x) ==
  \A n : FreeOf(sl, ny, n) = IF n = sl[x].size THEN <<x>> \o FreeOf(sl, nx, n)
                                                ELSE FreeOf(sl, nx, n)
LEMMA FreePushed ==
  ASSUME NEW sl, NEW nx, NEW F, NEW r, FreeRows(sl, nx, F, r), NEW x \in Ids, x \notin F,
         NEW ny, NEW q, FreeRows(sl, ny, F \cup {x}, q), PutFirst(sl, F, r, x, q)
  PROVE  Pushed(sl, nx, ny, x)
<1> USE DEF Pushed
<1> SUFFICES ASSUME NEW n
             PROVE  FreeOf(sl, ny, n) = IF n = sl[x].size THEN <<x>> \o FreeOf(sl, nx, n)
                                                          ELSE FreeOf(sl, nx, n)
  OBVIOUS
<1>1. PICK T, c, d : T = Alike(sl, F, n) /\ c = FreeOf(sl, nx, n) /\ d = FreeOf(sl, ny, n)
  OBVIOUS
<1>2. Listed(T, r, c) /\ T \subseteq F
  BY <1>1, FreeListed DEF Alike
<1>3. InOrder(T, r, q)
  BY <1>2 DEF InOrder, PutFirst
<1>4. Listed(T, q, c)
  BY <1>2, <1>3, ListedReranked
<1>5. Listed(Alike(sl, F \cup {x}, n), q, d) /\ Ranked(Alike(sl, F \cup {x}, n), q)
  BY <1>1, FreeListed
<1>6. CASE n = sl[x].size
  <2>1. Alike(sl, F \cup {x}, n) = {x} \cup T
    BY <1>1, <1>6 DEF Alike
  <2>2. ASSUME NEW y \in T PROVE q[x] < q[y]
    <3>1. y \in F /\ sl[y].size = sl[x].size /\ sl[x].size \in Nat
      BY <1>1, <1>6, FreeListed DEF Alike
    <3>2. ~(q[y] < q[x])
      BY <3>1 DEF PutFirst
    <3>3. x \in F \cup {x} /\ y \in F \cup {x} /\ Ranked(F \cup {x}, q) /\ x # y
      BY <3>1, FreeListed
    <3>4. q[x] \in Nat /\ q[y] \in Nat /\ q[x] # q[y]
      BY <3>3 DEF Ranked
    <3> QED BY <3>2, <3>4
  <2>3. Listed({x} \cup T, q, <<x>> \o c)
    BY <1>4, <2>2, ListedPushed
  <2>4. d = <<x>> \o c
    BY <1>5, <2>1, <2>3, ListedIsOne
  <2> QED BY <1>1, <1>6, <2>4
<1>7. CASE n # sl[x].size
  <2>1. Alike(sl, F \cup {x}, n) = T
    BY <1>1, <1>7 DEF Alike
  <2>2. d = c
    BY <1>4, <1>5, <2>1, ListedIsOne
  <2> QED BY <1>1, <1>7, <2>2
<1> QED BY <1>6, <1>7

Popped(sl, nx, ny, x) ==
  /\ FreeOf(sl, nx, sl[x].size) # <<>> /\ Head(FreeOf(sl, nx, sl[x].size)) = x
  /\ \A n : FreeOf(sl, ny, n) = IF n = sl[x].size THEN Tail(FreeOf(sl, nx, n))
                                                  ELSE FreeOf(sl, nx, n)
LEMMA FreePopped ==
  ASSUME NEW sl, NEW nx, NEW F, NEW r, FreeRows(sl, nx, F, r), NEW x \in F,
         \A y \in F : sl[y].size = sl[x].size => r[x] <= r[y],
         NEW ny, FreeRows(sl, ny, F \ {x}, r)
  PROVE  Popped(sl, nx, ny, x)
<1>1. ASSUME NEW n
      PROVE  /\ Listed(Alike(sl, F, n), r, FreeOf(sl, nx, n)) /\ Ranked(Alike(sl, F, n), r)
             /\ Listed(Alike(sl, F \ {x}, n), r, FreeOf(sl, ny, n))
             /\ Ranked(Alike(sl, F \ {x}, n), r)
             /\ Alike(sl, F \ {x}, n) = Alike(sl, F, n) \ {x}
  <2>1. Alike(sl, F \ {x}, n) = Alike(sl, F, n) \ {x}
    BY DEF Alike
  <2> QED BY <2>1, FreeListed
<1>2. PICK a : a = sl[x].size
  OBVIOUS
<1>3. x \in Alike(sl, F, a) /\ \A y \in Alike(sl, F, a) : r[x] <= r[y]
  BY <1>2 DEF Alike
<1>4. /\ FreeOf(sl, nx, a) # <<>> /\ Head(FreeOf(sl, nx, a)) = x
      /\ Listed(Alike(sl, F, a) \ {x}, r, Tail(FreeOf(sl, nx, a)))
  BY <1>1, <1>3, ListedPopped
<1>5. FreeOf(sl, ny, a) = Tail(FreeOf(sl, nx, a))
  <2>1. PICK T : T = Alike(sl, F \ {x}, a)
    OBVIOUS
  <2>2. /\ Listed(T, r, FreeOf(sl, ny, a)) /\ Ranked(T, r)
        /\ Listed(T, r, Tail(FreeOf(sl, nx, a)))
    BY <1>1, <1>4, <2>1
  <2> QED BY <2>2, ListedIsOne
<1>6. ASSUME NEW n, n # a PROVE FreeOf(sl, ny, n) = FreeOf(sl, nx, n)
  <2>1. Alike(sl, F, n) \ {x} = Alike(sl, F, n)
    BY <1>2, <1>6 DEF Alike
  <2> QED BY <1>1, <2>1, ListedIsOne
<1> QED BY <1>2, <1>4, <1>5, <1>6 DEF Popped

LEMMA QueueListed ==
  ASSUME NEW W, NEW q, NEW nx, NEW wh, Queue(W, q, nx, wh)
  PROVE  Listed(W, q, Walk(nx, wh, 0)) /\ Ranked(W, q) /\ Walk(nx, wh, 0) \in Seq(Ids)
<1>1. Listed(W, q, Walk(nx, wh, 0)) /\ Ranked(W, q)
  BY QueueWalk DEF Queue
<1> QED BY <1>1 DEF Listed

LEMMA QueueSame ==
  ASSUME NEW W, NEW q, NEW nx, NEW wh, Queue(W, q, nx, wh),
         NEW ny, NEW nodes, Within(nx, ny, nodes), nodes \cap W = {}
  PROVE  Queue(W, q, ny, wh) /\ Walk(ny, wh, 0) = Walk(nx, wh, 0)
<1>1. \A n \in W : n \in Nodes \ nodes
  BY SomeIds DEF Queue
<1>2. \A n \in W : ny[n][0] = nx[n][0]
  BY <1>1 DEF Within
<1>3. Queue(W, q, ny, wh)
  BY <1>2, QueueFramed
<1>4. Listed(W, q, Walk(ny, wh, 0)) /\ Listed(W, q, Walk(nx, wh, 0)) /\ Ranked(W, q)
  BY <1>3, QueueListed
<1> QED BY <1>3, <1>4, ListedIsOne

LEMMA QueuePopped ==
  ASSUME NEW W, NEW q, NEW nx, NEW wh, Queue(W, q, nx, wh), wh # NIL
  PROVE  /\ Walk(nx, wh, 0) # <<>> /\ Head(Walk(nx, wh, 0)) = wh
         /\ Walk(nx, nx[wh][0], 0) = Tail(Walk(nx, wh, 0))
<1>1. Listed(W, q, Walk(nx, wh, 0)) /\ Ranked(W, q)
  BY QueueListed
<1>2. wh \in W /\ Queue(W \ {wh}, q, nx, nx[wh][0]) /\ \A n \in W : q[wh] <= q[n]
  BY QueueFirst
<1>3. /\ Walk(nx, wh, 0) # <<>> /\ Head(Walk(nx, wh, 0)) = wh
      /\ Listed(W \ {wh}, q, Tail(Walk(nx, wh, 0)))
  BY <1>1, <1>2, ListedPopped
<1>4. Listed(W \ {wh}, q, Walk(nx, nx[wh][0], 0)) /\ Ranked(W \ {wh}, q)
  BY <1>2, QueueListed
<1> QED BY <1>3, <1>4, ListedIsOne

LEMMA QueueAppended ==
  ASSUME NEW W, NEW q, NEW nx, NEW wh, Queue(W, q, nx, wh), NEW x \in Ids,
         NEW ny, NEW p, NEW w, Queue(W \cup {x}, p, ny, w), PutLast(W, q, x, p)
  PROVE  Walk(ny, w, 0) = Append(Walk(nx, wh, 0), x)
<1>1. Listed(W, q, Walk(nx, wh, 0))
  BY QueueListed
<1>2. Listed(W, p, Walk(nx, wh, 0))
  BY <1>1, ListedReranked DEF PutLast
<1>3. Listed(W \cup {x}, p, Append(Walk(nx, wh, 0), x))
  BY <1>2, ListedAppended DEF PutLast
<1>4. Listed(W \cup {x}, p, Walk(ny, w, 0)) /\ Ranked(W \cup {x}, p)
  BY QueueListed
<1> QED BY <1>3, <1>4, ListedIsOne

(* What a step does to the used, the waiting and the free chunks.           *)
SeenAs(sl, nx, wh, u, w, f) ==
  u = SeenUsed(sl, nx) /\ w = SeenWaiting(sl, nx, wh) /\ f = SeenFree(sl, nx)
Rested(u, w, f, v, x, g) ==
  /\ w # <<>> /\ x = Tail(w) /\ v = u
  /\ g = [n \in Bytes |-> IF n = Head(w).size THEN <<Head(w)>> \o f[n] ELSE f[n]]

LEMMA UsedSeen ==
  ASSUME NEW sl, NEW nx, Skip(InUse(sl), AddressList, ByAddress(sl), sl, nx)
  PROVE  SeenUsed(sl, nx) = {ChunkOf(sl, x) : x \in InUse(sl)}
<1>1. 0 \in SkipLevels /\ Tall(sl, InUse(sl), 0) = InUse(sl)
  BY SomeIds, SkipParts
<1>2. Listed(InUse(sl), ByAddress(sl), Walk(nx, nx[AddressList][0], 0))
  BY <1>1, SkipWalk
<1> QED BY <1>2 DEF Listed, SeenUsed

LEMMA DrainSeen ==
  ASSUME NEW sl, NEW nx, NEW ef, NEW wh, NEW wt, NEW m, NEW W, Lists(sl, nx, ef, wh, wt, m, W),
         wh # NIL, NEW ny, ny = InsertSlot(sl, nx, wh, SizeList).next,
         NEW u, NEW w, NEW f, SeenAs(sl, nx, wh, u, w, f),
         NEW v, NEW x, NEW g, SeenAs(sl, ny, nx[wh][0], v, x, g)
  PROVE  Rested(u, w, f, v, x, g)
<1> DEFINE F == Freed(sl) \ W
<1>1. PICK q : Waiting(W, q, nx, wh, wt)
  BY DEF Lists, Waitwise
<1>2. PICK r : Skip(F, SizeList, r, sl, nx) /\ BySize(F, r, sl)
  BY DEF Lists, Sizewise
<1>3. /\ Slots(sl, m) /\ Links(nx) /\ W \subseteq Freed(sl) /\ sl \in [Ids -> SlotType]
      /\ Queue(W, q, nx, wh) /\ Skip(InUse(sl), AddressList, ByAddress(sl), sl, nx)
  BY <1>1 DEF Lists, Slots, Waiting
<1>4. wh \in W /\ Queue(W \ {wh}, q, nx, nx[wh][0]) /\ wh \in Ids /\ wh \notin F
  <2>1. wh \in W /\ Queue(W \ {wh}, q, nx, nx[wh][0])
    BY <1>3, QueueFirst
  <2>2. Freed(sl) \subseteq Ids
    BY <1>3, Kinds
  <2> QED BY <1>3, <2>1, <2>2
<1>5. Skip(InUse(sl), AddressList, ByAddress(sl), sl, ny)
  BY DrainKeepsLists DEF Lists
<1>6. v = u
  BY <1>3, <1>5, UsedSeen DEF SeenAs
<1> HIDE DEF F
<1>7. PICK p : /\ Within(nx, ny, F \cup {SizeList, wh})
               /\ Skip(F \cup {wh}, SizeList, p, sl, ny) /\ BySize(F \cup {wh}, p, sl)
               /\ InOrder(F, r, p)
               /\ \A y \in F : sl[y].size < sl[wh].size <=> p[y] < p[wh]
  BY <1>2, <1>3, <1>4, SizeInserted
<1>8. \A n : FreeOf(sl, ny, n) = IF n = sl[wh].size THEN <<wh>> \o FreeOf(sl, nx, n)
                                                    ELSE FreeOf(sl, nx, n)
  <2>1. FreeRows(sl, nx, F, r) /\ FreeRows(sl, ny, F \cup {wh}, p)
    BY <1>2, <1>3, <1>7 DEF FreeRows
  <2>2. PutFirst(sl, F, r, wh, p)
    BY <1>7 DEF PutFirst
  <2>3. Pushed(sl, nx, ny, wh)
    BY <1>4, <2>1, <2>2, FreePushed
  <2> QED BY <2>3 DEF Pushed
<1>9. /\ Walk(nx, wh, 0) # <<>> /\ Head(Walk(nx, wh, 0)) = wh
      /\ Walk(nx, nx[wh][0], 0) = Tail(Walk(nx, wh, 0)) /\ Walk(nx, wh, 0) \in Seq(Ids)
  BY <1>3, QueuePopped, QueueListed
<1>10. Walk(ny, nx[wh][0], 0) = Walk(nx, nx[wh][0], 0)
  <2>1. (F \cup {SizeList, wh}) \cap (W \ {wh}) = {}
    BY <1>3, SomeIds, Kinds DEF F
  <2>2. PICK k : k = nx[wh][0]
    OBVIOUS
  <2>3. Queue(W \ {wh}, q, nx, k)
    BY <1>4, <2>2
  <2>4. Walk(ny, k, 0) = Walk(nx, k, 0)
    BY <1>7, <2>1, <2>3, QueueSame
  <2> QED BY <2>2, <2>4
<1>11. w # <<>> /\ Head(w) = ChunkOf(sl, wh) /\ x = Tail(w)
  BY <1>9, <1>10, AbstractPopped DEF SeenAs, SeenWaiting
<1>12. g = [n \in Bytes |-> IF n = Head(w).size THEN <<Head(w)>> \o f[n] ELSE f[n]]
  <2>1. Head(w).size = sl[wh].size
    BY <1>11 DEF ChunkOf
  <2>2. ASSUME NEW n \in Bytes
        PROVE  AbstractOf(sl, FreeOf(sl, ny, n)) = IF n = Head(w).size THEN <<Head(w)>> \o f[n] ELSE f[n]
    <3>1. f[n] = AbstractOf(sl, FreeOf(sl, nx, n)) /\ FreeOf(sl, nx, n) \in Seq(Ids)
      BY <1>2, <1>3, FreeListed DEF SeenAs, SeenFree, FreeOf, FreeRows
    <3>2. PICK d : d = FreeOf(sl, nx, n)
      OBVIOUS
    <3>3. AbstractOf(sl, <<wh>> \o d) = <<ChunkOf(sl, wh)>> \o AbstractOf(sl, d)
      BY <1>4, <3>1, <3>2, AbstractPushed
    <3>4. AbstractOf(sl, <<wh>> \o d) = <<Head(w)>> \o f[n]
      BY <1>11, <3>1, <3>2, <3>3
    <3>5. AbstractOf(sl, FreeOf(sl, ny, n)) =
            IF n = sl[wh].size THEN AbstractOf(sl, <<wh>> \o d) ELSE AbstractOf(sl, d)
      BY <1>8, <3>2
    <3> QED BY <2>1, <3>1, <3>2, <3>4, <3>5
  <2>3. g = [n \in Bytes |-> AbstractOf(sl, FreeOf(sl, ny, n))]
    BY DEF SeenAs, SeenFree, FreeOf
  <2> QED BY <2>2, <2>3
<1> QED BY <1>6, <1>11, <1>12 DEF Rested

(* Chunks that only change hands look as before.                            *)
LEMMA SameSeen ==
  ASSUME NEW sl, NEW sm, \A z \in Ids : Same(sl, sm, z)
  PROVE  \A c \in Seq(Ids) : AbstractOf(sm, c) = AbstractOf(sl, c)
<1> TAKE c \in Seq(Ids)
<1>1. \A i \in DOMAIN c : c[i] \in Ids
  OBVIOUS
<1>2. \A i \in DOMAIN c : ChunkOf(sm, c[i]) = ChunkOf(sl, c[i])
  BY <1>1 DEF Same, ChunkOf
<1> QED BY <1>2, AbstractSame

Drawn(u, w, f, v, x, g, a) ==
  /\ f[a] # <<>> /\ v = u \cup {Head(f[a])} /\ x = w
  /\ g = [n \in Bytes |-> IF n = a THEN Tail(f[n]) ELSE f[n]]

Takes(sl, nx, a, t, ny, nz, sm) ==
  /\ t = FindFreeSize(sl, nx, a) /\ t.found # NIL
  /\ ny = RemoveSlot(nx, t.found, t.update).next
  /\ nz = InsertSlot(sl, ny, t.found, AddressList).next
  /\ sm = [sl EXCEPT ![t.found].flag = "USER"]
LEMMA TakeSeen ==
  ASSUME NEW sl, NEW nx, NEW ef, NEW wh, NEW wt, NEW m, NEW W, Lists(sl, nx, ef, wh, wt, m, W),
         Placed(sl, Taken(sl)), NEW a \in Nat, a \in Bytes,
         NEW t, NEW ny, NEW nz, NEW sm, Takes(sl, nx, a, t, ny, nz, sm),
         NEW u, NEW w, NEW f, SeenAs(sl, nx, wh, u, w, f),
         NEW v, NEW x, NEW g, SeenAs(sm, nz, wh, v, x, g)
  PROVE  Drawn(u, w, f, v, x, g, a)
<1> DEFINE F == Freed(sl) \ W
<1>1. PICK q : Waiting(W, q, nx, wh, wt)
  BY DEF Lists, Waitwise
<1>2. PICK r : Skip(F, SizeList, r, sl, nx) /\ BySize(F, r, sl)
  BY DEF Lists, Sizewise
<1>3. /\ Slots(sl, m) /\ Links(nx) /\ W \subseteq Freed(sl) /\ sl \in [Ids -> SlotType]
      /\ Queue(W, q, nx, wh) /\ Skip(InUse(sl), AddressList, ByAddress(sl), sl, nx)
  BY <1>1 DEF Lists, Slots, Waiting
<1>4. /\ t.found \in Freed(sl) \ W /\ sl[t.found].size = a
      /\ Lists(sm, nz, ef, wh, wt, m, W) /\ Remarked(sl, sm, m, t.found, "USER")
      /\ Within(ny, nz, InUse(sl) \cup {AddressList, t.found})
  <2>1. Reused(sl, nx, ef, wh, wt, m, W, a)
    BY TakeKeepsLists DEF Takes
  <2> QED BY <2>1 DEF Reused, Takes
<1>5. PICK y : y = t.found
  OBVIOUS
<1> HIDE DEF F
<1>6. /\ \E right : CameTo(F, SizeList, r, sl, nx, right, t, y)
      /\ \A z \in F : sl[z].size = a => r[y] <= r[z]
  BY <1>2, <1>3, <1>5, SizeFound DEF Takes
<1>7. Within(nx, ny, F \cup {SizeList}) /\ Skip(F \ {y}, SizeList, r, sl, ny)
  <2>1. PICK right : CameTo(F, SizeList, r, sl, nx, right, t, y)
    BY <1>6
  <2>2. /\ Within(nx, RemoveSlot(nx, y, t.update).next, F \cup {SizeList})
        /\ Skip(F \ {y}, SizeList, r, sl, RemoveSlot(nx, y, t.update).next)
    BY <1>2, <1>3, <2>1, SkipRemoved DEF CameTo
  <2> QED BY <1>5, <2>2 DEF Takes
<1>8. y \in F /\ y \in Ids /\ sl[y].size = a /\ y \notin W
      /\ InUse(sl) \cap Freed(sl) = {} /\ InUse(sl) \subseteq Ids /\ Freed(sl) \subseteq Ids
      /\ F \subseteq Freed(sl) /\ SizeList \notin Ids /\ AddressList \notin Ids /\ SizeList # AddressList
  BY <1>3, <1>4, <1>5, Kinds, SomeIds DEF F
<1>9. /\ sm \in [Ids -> SlotType] /\ \A z \in Ids : Same(sl, sm, z)
      /\ InUse(sm) = InUse(sl) \cup {y}
  <2>1. sm \in [Ids -> SlotType] /\ \A z \in Ids : Same(sl, sm, z)
    BY <1>4 DEF Remarked, Slots
  <2>2. \A z \in Ids : sm[z].flag = IF z = y THEN "USER" ELSE sl[z].flag
    BY <1>4, <1>5 DEF Remarked
  <2>3. InUse(sm) = InUse(sl) \cup {y}
    BY <1>8, <2>2 DEF InUse
  <2> QED BY <2>1, <2>3
<1>10. Popped(sl, nx, ny, y)
  <2>1. FreeRows(sl, nx, F, r) /\ FreeRows(sl, ny, F \ {y}, r)
    BY <1>2, <1>3, <1>7 DEF FreeRows, BySize
  <2> QED BY <1>6, <1>8, <2>1, FreePopped
<1>11. \A n : FreeOf(sm, nz, n) = FreeOf(sl, ny, n) /\ FreeOf(sl, ny, n) \in Seq(Ids)
                                /\ FreeOf(sl, nx, n) \in Seq(Ids)
  <2>1. FreeRows(sl, nx, F, r) /\ FreeRows(sl, ny, F \ {y}, r)
    BY <1>2, <1>3, <1>7 DEF FreeRows, BySize
  <2>2. (InUse(sl) \cup {AddressList, y}) \cap ((F \ {y}) \cup {SizeList}) = {}
    BY <1>8
  <2>3. \A z \in F \ {y} : sm[z].level = sl[z].level /\ sm[z].size = sl[z].size
    BY <1>8, <1>9 DEF Same
  <2>4. Within(ny, nz, InUse(sl) \cup {AddressList, y})
    BY <1>4, <1>5
  <2>5. \A n : FreeOf(sm, nz, n) = FreeOf(sl, ny, n)
    <3>1. FreeSame(sl, ny, sm, nz)
      <4>1. PICK G, N : G = F \ {y} /\ N = InUse(sl) \cup {AddressList, y}
        OBVIOUS
      <4>2. /\ FreeRows(sl, ny, G, r) /\ N \cap (G \cup {SizeList}) = {} /\ Within(ny, nz, N)
            /\ \A z \in G : sm[z].level = sl[z].level /\ sm[z].size = sl[z].size
        BY <2>1, <2>2, <2>3, <2>4, <4>1
      <4> QED BY <1>9, <4>2, FreeFramed
    <3> QED BY <3>1 DEF FreeSame
  <2> QED BY <2>1, <2>5, FreeListed
<1>12. Walk(nz, wh, 0) = Walk(nx, wh, 0) /\ Walk(nx, wh, 0) \in Seq(Ids)
  <2>1. Within(nx, nz, (F \cup {SizeList}) \cup (InUse(sl) \cup {AddressList, y}))
    BY <1>4, <1>5, <1>7, WithinBoth
  <2>2. ((F \cup {SizeList}) \cup (InUse(sl) \cup {AddressList, y})) \cap W = {}
    BY <1>3, <1>8 DEF F
  <2> QED BY <1>3, <2>1, <2>2, QueueSame, QueueListed
<1>13. \A z \in Ids : ChunkOf(sm, z) = ChunkOf(sl, z)
  BY <1>9 DEF Same, ChunkOf
<1>14. \A c \in Seq(Ids) : AbstractOf(sm, c) = AbstractOf(sl, c)
  BY <1>9, SameSeen
<1>15. x = w
  BY <1>12, <1>14 DEF SeenAs, SeenWaiting
<1>16. /\ f[a] = AbstractOf(sl, FreeOf(sl, nx, a)) /\ f[a] # <<>> /\ Head(f[a]) = ChunkOf(sl, y)
  <2>1. f[a] = AbstractOf(sl, FreeOf(sl, nx, a))
    BY DEF SeenAs, SeenFree, FreeOf
  <2>2. FreeOf(sl, nx, a) # <<>> /\ Head(FreeOf(sl, nx, a)) = y /\ FreeOf(sl, nx, a) \in Seq(Ids)
    BY <1>8, <1>10, <1>11 DEF Popped
  <2> QED BY <2>1, <2>2, AbstractPopped
<1>17. v = u \cup {Head(f[a])}
  <2>1. u = {ChunkOf(sl, z) : z \in InUse(sl)}
    BY <1>3, UsedSeen DEF SeenAs
  <2>2. v = {ChunkOf(sm, z) : z \in InUse(sm)}
    <3>1. Skip(InUse(sm), AddressList, ByAddress(sm), sm, nz)
      BY <1>4 DEF Lists
    <3> QED BY <3>1, UsedSeen DEF SeenAs
  <2>3. \A z \in InUse(sm) : ChunkOf(sm, z) = ChunkOf(sl, z)
    BY <1>8, <1>9, <1>13
  <2>4. {ChunkOf(sm, z) : z \in InUse(sm)} = {ChunkOf(sl, z) : z \in InUse(sl) \cup {y}}
    BY <1>9, <2>3
  <2> QED BY <1>16, <2>1, <2>2, <2>4
<1>18. g = [n \in Bytes |-> IF n = a THEN Tail(f[n]) ELSE f[n]]
  <2>1. ASSUME NEW n \in Bytes
        PROVE  AbstractOf(sm, FreeOf(sm, nz, n)) = IF n = a THEN Tail(f[n]) ELSE f[n]
    <3>1. f[n] = AbstractOf(sl, FreeOf(sl, nx, n))
      BY DEF SeenAs, SeenFree, FreeOf
    <3>2. AbstractOf(sm, FreeOf(sm, nz, n)) = AbstractOf(sl, FreeOf(sl, ny, n))
      BY <1>11, <1>14
    <3>3. CASE n = a
      <4>1. FreeOf(sl, ny, n) = Tail(FreeOf(sl, nx, n)) /\ FreeOf(sl, nx, n) # <<>>
        BY <1>8, <1>10, <3>3 DEF Popped
      <4>2. PICK c : c = FreeOf(sl, nx, n)
        OBVIOUS
      <4>3. Tail(AbstractOf(sl, c)) = AbstractOf(sl, Tail(c))
        BY <1>11, <4>1, <4>2, AbstractPopped
      <4> QED BY <3>1, <3>2, <3>3, <4>1, <4>2, <4>3
    <3>4. CASE n # a
      <4>1. FreeOf(sl, ny, n) = FreeOf(sl, nx, n)
        BY <1>8, <1>10, <3>4 DEF Popped
      <4> QED BY <3>1, <3>2, <3>4, <4>1
    <3> QED BY <3>3, <3>4
  <2>2. g = [n \in Bytes |-> AbstractOf(sm, FreeOf(sm, nz, n))]
    BY DEF SeenAs, SeenFree, FreeOf
  <2> QED BY <2>1, <2>2
<1> QED BY <1>15, <1>16, <1>17, <1>18 DEF Drawn

LEMMA ChunksDiffer ==
  ASSUME NEW sl \in [Ids -> SlotType], Placed(sl, Taken(sl)),
         NEW y \in Taken(sl), NEW z \in Taken(sl), y # z
  PROVE  ChunkOf(sl, y) # ChunkOf(sl, z)
<1>1. y \in Ids /\ z \in Ids
  BY DEF Taken
<1>2. /\ sl[y].mem \in Nat /\ sl[z].mem \in Nat /\ sl[y].size \in Nat /\ sl[z].size \in Nat
      /\ sl[y].size > 0 /\ sl[z].size > 0
  BY <1>1, SlotFields DEF Placed
<1>3. Apart(MemoryOf(sl, y), MemoryOf(sl, z))
  BY DEF Placed
<1>4. sl[y].mem # sl[z].mem
  BY <1>2, <1>3 DEF Apart, MemoryOf, Extent
<1> QED BY <1>4 DEF ChunkOf

LetGo(u, w, f, v, x, g, c) == c \in u /\ v = u \ {c} /\ x = Append(w, c) /\ g = f
Frees(sl, nx, wh, wt, a, t, ny, sm) ==
  /\ t = FindAddress(sl, nx, AddressList, a, FALSE) /\ t.found # NIL
  /\ ny = Ended(RemoveSlot(nx, t.found, t.update).next, t.found, wh, wt)
  /\ sm = [sl EXCEPT ![t.found].flag = "FREE"]

LEMMA FreeSeen ==
  ASSUME NEW sl, NEW nx, NEW ef, NEW wh, NEW wt, NEW m, NEW W, Lists(sl, nx, ef, wh, wt, m, W),
         Placed(sl, Taken(sl)), NEW a \in Nat,
         NEW t, NEW ny, NEW sm, Frees(sl, nx, wh, wt, a, t, ny, sm),
         NEW u, NEW w, NEW f, SeenAs(sl, nx, wh, u, w, f),
         NEW v, NEW x, NEW g, SeenAs(sm, ny, IF wh = NIL THEN t.found ELSE wh, v, x, g)
  PROVE  \E c : LetGo(u, w, f, v, x, g, c)
<1> DEFINE F == Freed(sl) \ W
<1>1. PICK y, front : y = t.found /\ front = IF wh = NIL THEN t.found ELSE wh
  OBVIOUS
<1>2. PICK r : Skip(F, SizeList, r, sl, nx) /\ BySize(F, r, sl)
  BY DEF Lists, Sizewise
<1>3. /\ Slots(sl, m) /\ Links(nx) /\ W \subseteq Freed(sl) /\ sl \in [Ids -> SlotType]
      /\ Skip(InUse(sl), AddressList, ByAddress(sl), sl, nx)
  BY DEF Lists, Slots
<1>4. /\ y \in InUse(sl) /\ Remarked(sl, sm, m, y, "FREE")
      /\ Lengthened(sl, nx, wh, W, y, ny, front)
      /\ Skip(InUse(sm), AddressList, ByAddress(sm), sm, ny)
  <2>1. Released(sl, nx, ef, wh, wt, m, W, a)
    BY FreeKeepsLists DEF Frees
  <2> QED BY <1>1, <2>1 DEF Released, Frees, Lists
<1>5. y \in Ids /\ InUse(sl) \cap Freed(sl) = {} /\ InUse(sl) \subseteq Ids /\ Freed(sl) \subseteq Ids
      /\ InUse(sl) \subseteq Taken(sl)
  BY <1>3, <1>4, Kinds
<1>6. /\ sm \in [Ids -> SlotType] /\ \A z \in Ids : Same(sl, sm, z)
      /\ InUse(sm) = InUse(sl) \ {y}
  <2>1. sm \in [Ids -> SlotType] /\ \A z \in Ids : Same(sl, sm, z)
    BY <1>4 DEF Remarked, Slots
  <2>2. \A z \in Ids : sm[z].flag = IF z = y THEN "FREE" ELSE sl[z].flag
    BY <1>4 DEF Remarked
  <2>3. InUse(sm) = InUse(sl) \ {y}
    BY <1>5, <2>2 DEF InUse
  <2> QED BY <2>1, <2>3
<1> HIDE DEF F
<1>7. Walk(ny, front, 0) = Append(Walk(nx, wh, 0), y) /\ Walk(nx, wh, 0) \in Seq(Ids)
  <2>1. PICK q, p : Queue(W, q, nx, wh) /\ Queue(W \cup {y}, p, ny, front) /\ PutLast(W, q, y, p)
    BY <1>4 DEF Lengthened
  <2> QED BY <1>5, <2>1, QueueAppended, QueueListed
<1>8. FreeSame(sl, nx, sm, ny) /\ \A n : FreeOf(sl, nx, n) \in Seq(Ids)
  <2>1. FreeRows(sl, nx, F, r)
    BY <1>2, <1>3 DEF FreeRows
  <2>2. PICK nodes : Within(nx, ny, nodes) /\ nodes \cap (F \cup {SizeList}) = {}
    BY <1>4 DEF Lengthened, F
  <2>3. \A z \in F : sm[z].level = sl[z].level /\ sm[z].size = sl[z].size
    BY <1>5, <1>6 DEF F, Same
  <2> QED BY <1>6, <2>1, <2>2, <2>3, FreeFramed, FreeListed
<1>9. \A c \in Seq(Ids) : AbstractOf(sm, c) = AbstractOf(sl, c)
  BY <1>6, SameSeen
<1>10. PICK c : c = ChunkOf(sl, y)
  OBVIOUS
<1>11. x = Append(w, c)
  <2>1. x = AbstractOf(sm, Append(Walk(nx, wh, 0), y)) /\ w = AbstractOf(sl, Walk(nx, wh, 0))
    BY <1>1, <1>7 DEF SeenAs, SeenWaiting
  <2>2. Append(Walk(nx, wh, 0), y) \in Seq(Ids)
    BY <1>5, <1>7
  <2> QED BY <1>5, <1>7, <1>9, <1>10, <2>1, <2>2, AbstractAppended
<1>12. g = f
  <2>1. \A n \in Bytes : AbstractOf(sm, FreeOf(sm, ny, n)) = AbstractOf(sl, FreeOf(sl, nx, n))
    BY <1>8, <1>9 DEF FreeSame
  <2> QED BY <2>1 DEF SeenAs, SeenFree, FreeOf
<1>13. c \in u /\ v = u \ {c}
  <2>1. u = {ChunkOf(sl, z) : z \in InUse(sl)}
    BY <1>3, UsedSeen DEF SeenAs
  <2>2. v = {ChunkOf(sm, z) : z \in InUse(sm)}
    BY <1>4, UsedSeen DEF SeenAs
  <2>3. \A z \in InUse(sm) : ChunkOf(sm, z) = ChunkOf(sl, z)
    BY <1>5, <1>6 DEF Same, ChunkOf
  <2>4. v = {ChunkOf(sl, z) : z \in InUse(sl) \ {y}}
    BY <1>6, <2>2, <2>3
  <2>5. \A z \in InUse(sl) \ {y} : ChunkOf(sl, z) # c
    BY <1>3, <1>4, <1>5, <1>10, ChunksDiffer
  <2> QED BY <1>4, <1>10, <2>1, <2>4, <2>5
<1> QED BY <1>11, <1>12, <1>13 DEF LetGo

(* A new chunk, used at once or cut up for later.                           *)
PutToUse(u, w, f, v, x, g, c) == v = u \cup {c} /\ x = w /\ g = f
PutAside(u, w, f, v, x, g, c) ==
  v = u /\ x = w /\ g = [n \in Bytes |-> IF n = c.size THEN <<c>> \o f[n] ELSE f[n]]
Put(flag, u, w, f, v, x, g, c) ==
  IF flag = "FREE" THEN PutAside(u, w, f, v, x, g, c) ELSE PutToUse(u, w, f, v, x, g, c)
Unheld(sl, address) == \A z \in Taken(sl) : sl[z].mem # address
Inserts(sl, nx, y, address, flag, bytes, sm, ny, nz) ==
  /\ sm = Fill(sl, y, address, bytes, flag)
  /\ ny = [nx EXCEPT ![y] = [l \in SkipLevels |-> NIL]]
  /\ nz = InsertSlot(sm, ny, y, IF flag = "FREE" THEN SizeList ELSE AddressList).next

(* An insertion into the size list, in the words of the row it was.         *)
SizedIn(sl, ny, nz, F, r, x) ==
  /\ Within(ny, nz, F \cup {SizeList, x})
  /\ \E p : /\ Skip(F \cup {x}, SizeList, p, sl, nz) /\ BySize(F \cup {x}, p, sl)
            /\ InOrder(F, r, p)
            /\ \A z \in F : sl[z].size < sl[x].size <=> p[z] < p[x]
LEMMA SizePut ==
  ASSUME NEW sl, NEW ny, NEW F, NEW r, FreeRows(sl, ny, F, r), Links(ny),
         NEW x \in Ids, x \notin F, NEW nz, nz = InsertSlot(sl, ny, x, SizeList).next
  PROVE  SizedIn(sl, ny, nz, F, r, x)
<1>1. sl \in [Ids -> SlotType] /\ Skip(F, SizeList, r, sl, ny) /\ BySize(F, r, sl)
  BY DEF FreeRows
<1> QED BY <1>1, SizeInserted DEF SizedIn

LEMMA InsertSeen ==
  ASSUME NEW sl, NEW nx, NEW ef, NEW wh, NEW wt, NEW m, NEW W, Lists(sl, nx, ef, wh, wt, m, W),
         NEW h \in Heights, NEW y, y = ef[h], y # NIL,
         NEW address \in Nat \ {0}, NEW bytes \in Nat,
         NEW flag \in {"USER", "ADMIN", "FREE"}, Unheld(sl, address),
         NEW sm, NEW ny, NEW nz, Inserts(sl, nx, y, address, flag, bytes, sm, ny, nz),
         NEW u, NEW w, NEW f, SeenAs(sl, nx, wh, u, w, f),
         NEW v, NEW x, NEW g, SeenAs(sm, nz, wh, v, x, g),
         NEW c, c = [mem |-> address, size |-> bytes]
  PROVE  Put(flag, u, w, f, v, x, g, c)
<1> DEFINE F == Freed(sl) \ W
<1>1. PICK q : Waiting(W, q, nx, wh, wt)
  BY DEF Lists, Waitwise
<1>2. PICK r : Skip(F, SizeList, r, sl, nx) /\ BySize(F, r, sl)
  BY DEF Lists, Sizewise
<1>3. /\ Slots(sl, m) /\ Links(nx) /\ W \subseteq Freed(sl) /\ sl \in [Ids -> SlotType]
      /\ Queue(W, q, nx, wh) /\ Skip(InUse(sl), AddressList, ByAddress(sl), sl, nx)
  BY <1>1 DEF Lists, Slots, Waiting
<1>4. /\ y \in Ids \ Taken(sl) /\ Filled(sl, sm, m, y, h, address, bytes, flag)
      /\ Skip(InUse(sm), AddressList, ByAddress(sm), sm, nz)
      /\ flag # "FREE" => Within(nx, nz, InUse(sl) \cup {AddressList, y})
  <2>1. Inserted(sl, nx, ef, wh, wt, m, W, h, address, flag, bytes)
    BY InsertKeepsLists DEF Unheld
  <2>2. /\ y \in Ids \ Taken(sl) /\ Filled(sl, sm, m, y, h, address, bytes, flag)
        /\ Lists(sm, nz, [ef EXCEPT ![h] = nx[y][0]], wh, wt, m, W)
        /\ flag # "FREE" => Within(nx, nz, InUse(sl) \cup {AddressList, y})
    BY <2>1 DEF Inserted, Inserts
  <2> QED BY <2>2 DEF Lists
<1> HIDE DEF F
<1>5. /\ y \in Ids /\ y \notin Taken(sl)
      /\ F \subseteq Freed(sl) /\ InUse(sl) \cap Freed(sl) = {} /\ InUse(sl) \subseteq Ids
      /\ Freed(sl) \subseteq Ids /\ InUse(sl) \subseteq Taken(sl) /\ Freed(sl) \subseteq Taken(sl)
      /\ SizeList \notin Ids /\ AddressList \notin Ids /\ SizeList # AddressList
      /\ F \cap W = {}
  BY <1>3, <1>4, Kinds, SomeIds DEF F
<1>6. /\ sm \in [Ids -> SlotType] /\ \A z \in Ids \ {y} : sm[z] = sl[z]
      /\ sm[y].mem = address /\ sm[y].size = bytes /\ sm[y].flag = flag
  BY <1>4 DEF Filled, Slots
<1>7. \A z \in Taken(sl) : sm[z] = sl[z] /\ z # y
  BY <1>5, <1>6 DEF Taken
<1>8. \A z \in Taken(sl) : ChunkOf(sm, z) = ChunkOf(sl, z)
  BY <1>7 DEF ChunkOf
<1>9. ChunkOf(sm, y) = c
  BY <1>6 DEF ChunkOf
<1>10. FreeRows(sl, nx, F, r)
  BY <1>2, <1>3 DEF FreeRows
<1>11. \A z \in F : sm[z].level = sl[z].level /\ sm[z].size = sl[z].size
  BY <1>5, <1>7
<1>12. w = AbstractOf(sm, Walk(nx, wh, 0))
  <2>1. Listed(W, q, Walk(nx, wh, 0))
    BY <1>3, QueueListed
  <2>2. \A i \in DOMAIN Walk(nx, wh, 0) : Walk(nx, wh, 0)[i] \in Taken(sl)
    BY <1>3, <1>5, <2>1 DEF Listed, Members
  <2>3. \A i \in DOMAIN Walk(nx, wh, 0) :
          ChunkOf(sm, Walk(nx, wh, 0)[i]) = ChunkOf(sl, Walk(nx, wh, 0)[i])
    BY <1>8, <2>2
  <2>4. AbstractOf(sm, Walk(nx, wh, 0)) = AbstractOf(sl, Walk(nx, wh, 0))
    BY <2>3, AbstractSame
  <2> QED BY <2>4 DEF SeenAs, SeenWaiting
<1>13. ASSUME NEW n PROVE AbstractOf(sm, FreeOf(sl, nx, n)) = AbstractOf(sl, FreeOf(sl, nx, n))
  <2>1. PICK d : d = FreeOf(sl, nx, n)
    OBVIOUS
  <2>2. Listed(Alike(sl, F, n), r, d)
    BY <1>10, <2>1, FreeListed
  <2>3. \A i \in DOMAIN d : d[i] \in Taken(sl)
    BY <1>5, <2>2 DEF Listed, Members, Alike
  <2>4. \A i \in DOMAIN d : ChunkOf(sm, d[i]) = ChunkOf(sl, d[i])
    BY <1>8, <2>3
  <2> QED BY <2>1, <2>4, AbstractSame
<1>14. u = {ChunkOf(sl, z) : z \in InUse(sl)} /\ v = {ChunkOf(sm, z) : z \in InUse(sm)}
  BY <1>3, <1>4, UsedSeen DEF SeenAs
<1>15. \A z \in Ids : sm[z].flag = IF z = y THEN flag ELSE sl[z].flag
  BY <1>6
<1>16. CASE flag = "FREE"
  <2>1. Within(nx, ny, {y}) /\ nz = InsertSlot(sm, ny, y, SizeList).next
    <3>1. [l \in SkipLevels |-> NIL] \in [SkipLevels -> Ids \cup {NIL}]
      OBVIOUS
    <3> QED BY <1>3, <1>5, <1>16, <3>1, SomeIds DEF Links, Within, Inserts
  <2>2. FreeRows(sm, ny, F, r) /\ FreeSame(sl, nx, sm, ny)
    <3>1. {y} \cap (F \cup {SizeList}) = {}
      BY <1>5
    <3> QED BY <1>6, <1>10, <1>11, <2>1, <3>1, FreeFramed
  <2>3. PICK p : /\ Within(ny, nz, F \cup {SizeList, y})
                 /\ Skip(F \cup {y}, SizeList, p, sm, nz) /\ BySize(F \cup {y}, p, sm)
                 /\ InOrder(F, r, p)
                 /\ \A z \in F : sm[z].size < sm[y].size <=> p[z] < p[y]
    <3>1. Links(ny) /\ FreeRows(sm, ny, F, r) /\ y \in Ids /\ y \notin F
      BY <1>5, <2>1, <2>2 DEF Within
    <3>2. nz = InsertSlot(sm, ny, y, SizeList).next
      BY <2>1
    <3>3. SizedIn(sm, ny, nz, F, r, y)
      BY <3>1, <3>2, SizePut
    <3> QED BY <3>3 DEF SizedIn
  <2>4. Pushed(sm, ny, nz, y)
    <3>1. FreeRows(sm, nz, F \cup {y}, p)
      BY <1>6, <2>3 DEF FreeRows
    <3>2. PutFirst(sm, F, r, y, p)
      BY <2>3 DEF PutFirst
    <3>3. y \notin F
      BY <1>5
    <3> QED BY <1>5, <2>2, <3>1, <3>2, <3>3, FreePushed
  <2>5. x = w
    <3>1. Within(nx, nz, {y} \cup (F \cup {SizeList, y}))
      BY <2>1, <2>3, WithinBoth
    <3>2. ({y} \cup (F \cup {SizeList, y})) \cap W = {}
      BY <1>3, <1>5
    <3>3. Walk(nz, wh, 0) = Walk(nx, wh, 0)
      BY <1>3, <3>1, <3>2, QueueSame
    <3> QED BY <1>12, <3>3 DEF SeenAs, SeenWaiting
  <2>6. v = u
    <3>1. InUse(sm) = InUse(sl)
      BY <1>5, <1>15, <1>16 DEF InUse, Taken
    <3>2. \A z \in InUse(sl) : ChunkOf(sm, z) = ChunkOf(sl, z)
      BY <1>5, <1>8
    <3> QED BY <1>14, <3>1, <3>2
  <2>7. g = [n \in Bytes |-> IF n = c.size THEN <<c>> \o f[n] ELSE f[n]]
    <3>1. ASSUME NEW n \in Bytes
          PROVE  AbstractOf(sm, FreeOf(sm, nz, n)) = IF n = c.size THEN <<c>> \o f[n] ELSE f[n]
      <4>1. f[n] = AbstractOf(sm, FreeOf(sl, nx, n)) /\ FreeOf(sl, nx, n) \in Seq(Ids)
        BY <1>10, <1>13, FreeListed DEF SeenAs, SeenFree, FreeOf
      <4>2. FreeOf(sm, nz, n) = IF n = c.size THEN <<y>> \o FreeOf(sl, nx, n) ELSE FreeOf(sl, nx, n)
        BY <1>6, <2>2, <2>4 DEF Pushed, FreeSame
      <4>3. PICK d : d = FreeOf(sl, nx, n)
        OBVIOUS
      <4>4. AbstractOf(sm, <<y>> \o d) = <<ChunkOf(sm, y)>> \o AbstractOf(sm, d)
        BY <1>5, <4>1, <4>3, AbstractPushed
      <4>5. AbstractOf(sm, <<y>> \o d) = <<c>> \o f[n]
        BY <1>9, <4>1, <4>3, <4>4
      <4>6. AbstractOf(sm, FreeOf(sm, nz, n)) =
              IF n = c.size THEN AbstractOf(sm, <<y>> \o d) ELSE AbstractOf(sm, d)
        BY <4>2, <4>3
      <4> QED BY <4>1, <4>3, <4>5, <4>6
    <3>2. g = [n \in Bytes |-> AbstractOf(sm, FreeOf(sm, nz, n))]
      BY DEF SeenAs, SeenFree, FreeOf
    <3> QED BY <3>1, <3>2
  <2> QED BY <1>16, <2>5, <2>6, <2>7 DEF PutAside, Put
<1>17. CASE flag # "FREE"
  <2>1. Within(nx, nz, InUse(sl) \cup {AddressList, y})
    BY <1>4, <1>17
  <2>2. FreeSame(sl, nx, sm, nz)
    <3>1. (InUse(sl) \cup {AddressList, y}) \cap (F \cup {SizeList}) = {}
      BY <1>5
    <3> QED BY <1>6, <1>10, <1>11, <2>1, <3>1, FreeFramed
  <2>3. x = w
    <3>1. (InUse(sl) \cup {AddressList, y}) \cap W = {}
      BY <1>3, <1>5, SomeIds
    <3>2. Walk(nz, wh, 0) = Walk(nx, wh, 0)
      BY <1>3, <2>1, <3>1, QueueSame
    <3> QED BY <1>12, <3>2 DEF SeenAs, SeenWaiting
  <2>4. v = u \cup {c}
    <3>1. InUse(sm) = InUse(sl) \cup {y}
      BY <1>5, <1>15, <1>17 DEF InUse
    <3>2. \A z \in InUse(sl) : ChunkOf(sm, z) = ChunkOf(sl, z)
      BY <1>5, <1>8
    <3> QED BY <1>9, <1>14, <3>1, <3>2
  <2>5. g = f
    <3>1. \A n \in Bytes : AbstractOf(sm, FreeOf(sm, nz, n)) = AbstractOf(sl, FreeOf(sl, nx, n))
      BY <1>13, <2>2 DEF FreeSame
    <3> QED BY <3>1 DEF SeenAs, SeenFree, FreeOf
  <2> QED BY <1>17, <2>3, <2>4, <2>5 DEF PutToUse, Put
<1> QED BY <1>16, <1>17

(* New slots are on none of the lists that the store is seen from.          *)
LEMMA AllocSeen ==
  ASSUME NEW sl, NEW nx, NEW ef, NEW wh, NEW wt, NEW m, NEW W, Lists(sl, nx, ef, wh, wt, m, W),
         NEW sm, NEW ny, NEW eg, NEW k, Lists(sm, ny, eg, wh, wt, k, W),
         \A z \in Ids : sm[z].flag = sl[z].flag, \A z \in Taken(sl) : sm[z] = sl[z],
         NEW nodes, Within(nx, ny, nodes), nodes \cap (Taken(sl) \cup {SizeList}) = {},
         NEW u, NEW w, NEW f, SeenAs(sl, nx, wh, u, w, f),
         NEW v, NEW x, NEW g, SeenAs(sm, ny, wh, v, x, g)
  PROVE  v = u /\ x = w /\ g = f
<1> DEFINE F == Freed(sl) \ W
<1>1. PICK q : Queue(W, q, nx, wh)
  BY DEF Lists, Waitwise, Waiting
<1>2. PICK r : FreeRows(sl, nx, F, r)
  BY DEF Lists, Sizewise, Slots, FreeRows
<1>3. /\ Slots(sl, m) /\ W \subseteq Freed(sl) /\ sm \in [Ids -> SlotType]
      /\ Skip(InUse(sl), AddressList, ByAddress(sl), sl, nx)
      /\ Skip(InUse(sm), AddressList, ByAddress(sm), sm, ny)
  BY DEF Lists, Slots
<1>4. /\ InUse(sl) \subseteq Taken(sl) /\ F \subseteq Taken(sl) /\ W \subseteq Taken(sl)
  BY <1>3, Kinds
<1>5. \A z \in Taken(sl) : ChunkOf(sm, z) = ChunkOf(sl, z)
  BY DEF ChunkOf
<1>6. InUse(sm) = InUse(sl)
  BY DEF InUse
<1>7. v = u
  <2>1. u = {ChunkOf(sl, z) : z \in InUse(sl)} /\ v = {ChunkOf(sm, z) : z \in InUse(sl)}
    BY <1>3, <1>6, UsedSeen DEF SeenAs
  <2> QED BY <1>4, <1>5, <2>1
<1> HIDE DEF F
<1>8. x = w
  <2>1. PICK d : d = Walk(nx, wh, 0)
    OBVIOUS
  <2>2. Listed(W, q, d)
    BY <1>1, <2>1, QueueListed
  <2>3. \A i \in DOMAIN d : d[i] \in Taken(sl)
    BY <1>4, <2>2 DEF Listed, Members
  <2>4. nodes \cap W = {}
    BY <1>4
  <2>5. Walk(ny, wh, 0) = d
    BY <1>1, <2>1, <2>4, QueueSame
  <2>6. AbstractOf(sm, d) = AbstractOf(sl, d)
    BY <1>5, <2>3, AbstractSame
  <2> QED BY <2>1, <2>5, <2>6 DEF SeenAs, SeenWaiting
<1>9. g = f
  <2>1. FreeSame(sl, nx, sm, ny)
    <3>1. nodes \cap (F \cup {SizeList}) = {}
      BY <1>4
    <3>2. \A z \in F : sm[z].level = sl[z].level /\ sm[z].size = sl[z].size
      BY <1>4
    <3> QED BY <1>2, <1>3, <3>1, <3>2, FreeFramed
  <2>2. ASSUME NEW n \in Bytes
        PROVE  AbstractOf(sm, FreeOf(sm, ny, n)) = AbstractOf(sl, FreeOf(sl, nx, n))
    <3>1. PICK d : d = FreeOf(sl, nx, n)
      OBVIOUS
    <3>2. Listed(Alike(sl, F, n), r, d)
      BY <1>2, <3>1, FreeListed
    <3>3. \A i \in DOMAIN d : d[i] \in Taken(sl)
      BY <1>4, <3>2 DEF Listed, Members, Alike
    <3>4. AbstractOf(sm, d) = AbstractOf(sl, d)
      BY <1>5, <3>3, AbstractSame
    <3>5. FreeOf(sm, ny, n) = d
      BY <2>1, <3>1 DEF FreeSame
    <3> QED BY <3>1, <3>4, <3>5
  <2> QED BY <2>2 DEF SeenAs, SeenFree, FreeOf
<1> QED BY <1>7, <1>8, <1>9

(* What is stored is some slot's.                                           *)
AllStored(u, w, f) == u \cup {w[i] : i \in DOMAIN w}
                        \cup UNION {{f[n][i] : i \in DOMAIN f[n]} : n \in Bytes}
LEMMA StoredIsTaken ==
  ASSUME NEW sl, NEW nx, NEW ef, NEW wh, NEW wt, NEW m, NEW W, Lists(sl, nx, ef, wh, wt, m, W),
         NEW u, NEW w, NEW f, SeenAs(sl, nx, wh, u, w, f), NEW d \in AllStored(u, w, f)
  PROVE  \E z \in Taken(sl) : d = ChunkOf(sl, z)
<1> DEFINE F == Freed(sl) \ W
<1>1. PICK q : Queue(W, q, nx, wh)
  BY DEF Lists, Waitwise, Waiting
<1>2. PICK r : FreeRows(sl, nx, F, r)
  BY DEF Lists, Sizewise, Slots, FreeRows
<1>3. /\ Slots(sl, m) /\ W \subseteq Freed(sl)
      /\ Skip(InUse(sl), AddressList, ByAddress(sl), sl, nx)
  BY DEF Lists
<1>4. /\ InUse(sl) \subseteq Taken(sl) /\ F \subseteq Taken(sl) /\ W \subseteq Taken(sl)
  BY <1>3, Kinds
<1> HIDE DEF F
<1>5. ASSUME NEW c, \A i \in DOMAIN c : c[i] \in Taken(sl),
             NEW i \in DOMAIN AbstractOf(sl, c)
      PROVE  \E z \in Taken(sl) : AbstractOf(sl, c)[i] = ChunkOf(sl, z)
  BY <1>5 DEF AbstractOf
<1>6. CASE d \in u
  <2>1. u = {ChunkOf(sl, z) : z \in InUse(sl)}
    BY <1>3, UsedSeen DEF SeenAs
  <2> QED BY <1>4, <1>6, <2>1
<1>7. ASSUME NEW i \in DOMAIN w, d = w[i] PROVE \E z \in Taken(sl) : d = ChunkOf(sl, z)
  <2>1. PICK c : c = Walk(nx, wh, 0)
    OBVIOUS
  <2>2. Listed(W, q, c)
    BY <1>1, <2>1, QueueListed
  <2>3. \A j \in DOMAIN c : c[j] \in Taken(sl)
    BY <1>4, <2>2 DEF Listed, Members
  <2>4. w = AbstractOf(sl, c)
    BY <2>1 DEF SeenAs, SeenWaiting
  <2> QED BY <1>5, <1>7, <2>3, <2>4
<1>8. ASSUME NEW n \in Bytes, NEW i \in DOMAIN f[n], d = f[n][i]
      PROVE  \E z \in Taken(sl) : d = ChunkOf(sl, z)
  <2>1. PICK c : c = FreeOf(sl, nx, n)
    OBVIOUS
  <2>2. Listed(Alike(sl, F, n), r, c)
    BY <1>2, <2>1, FreeListed
  <2>3. \A j \in DOMAIN c : c[j] \in Taken(sl)
    BY <1>4, <2>2 DEF Listed, Members, Alike
  <2>4. f[n] = AbstractOf(sl, c)
    BY <2>1 DEF SeenAs, SeenFree, FreeOf
  <2> QED BY <1>5, <1>8, <2>3, <2>4
<1> QED BY <1>6, <1>7, <1>8 DEF AllStored

(* The mapping, at a state in which the lists are lists.                    *)
AsSeen == SeenAs(slot, next, wait_head, UsedChunks, WaitingChunks, FreeChunks)
LEMMA StoreIsSeen == RInv => AsSeen
<1> SUFFICES ASSUME RInv PROVE AsSeen
  OBVIOUS
<1>1. PICK W : Lists(slot, next, entry_free, wait_head, wait_tail, made, W)
  BY DEF RInv, ListsInv
<1>2. SizeWalk(next) \in Seq(Ids)
  <2>1. PICK r : FreeRows(slot, next, Freed(slot) \ W, r)
    BY <1>1 DEF Lists, Sizewise, Slots, FreeRows
  <2> QED BY <2>1, FreeListed
<1>3. \A x : Chunk(x) = ChunkOf(slot, x)
  BY DEF Chunk, ChunkOf
<1>4. \A c : Abstract(c) = AbstractOf(slot, c)
  BY <1>3 DEF Abstract, AbstractOf
<1>5. UsedChunks = SeenUsed(slot, next)
  BY <1>3 DEF UsedChunks, Used, Chain, ChainFrom, SeenUsed
<1>6. WaitingChunks = SeenWaiting(slot, next, wait_head)
  BY <1>4 DEF WaitingChunks, ChainFrom, SeenWaiting
<1>7. ASSUME NEW n PROVE OfSize(n) = Stretch(slot, SizeWalk(next), n)
  <2>1. Chain(SizeList, 0) = SizeWalk(next)
    BY DEF Chain, ChainFrom, SizeWalk
  <2> QED BY <1>2, <2>1 DEF OfSize, Stretch
<1>8. FreeChunks = SeenFree(slot, next)
  BY <1>4, <1>7 DEF FreeChunks, SeenFree
<1> QED BY <1>5, <1>6, <1>8 DEF AsSeen, SeenAs

-----------------------------------------------------------------------------
(* What the system gives ends where its memory does.                        *)
WithinSystem ==
  /\ brk <= SystemEnd
  /\ \A r \in given : r.lo + r.size <= SystemEnd
  /\ first # 0 => first + want <= SystemEnd

LEMMA WithinStep == ASSUME HInv, WithinSystem, [HeapNext]_heapvars PROVE WithinSystem'
<1> USE DEF WithinSystem
<1>0. /\ SystemEnd \in Nat /\ brk \in Int /\ want \in Nat /\ first \in Int
      /\ grows \in {"up", "down"}
      /\ Others[grows] \subseteq Nat \ {0}
      /\ \A r \in given : r.lo \in Int /\ r.size \in Int
  BY HeapExtendAssumption DEF HInv, HeapType
<1>1. ASSUME NEW n \in Nat, Extended(n), grows' = grows
      PROVE  brk' <= SystemEnd /\ Place(n) \in Int /\ Place(n) + n <= SystemEnd
  BY <1>0, <1>1 DEF Extended, Room, Place
<1>2. ASSUME NEW mem \in Int, mem + want <= SystemEnd \/ mem = HEAP_ALLOC_ERROR,
             brk' <= SystemEnd, Return(mem)
      PROVE  WithinSystem'
  <2>1. /\ first' = 0
        /\ \/ given' = given
           \/ given' = given \cup {Extent(mem, want)} /\ mem + want <= SystemEnd
    BY <1>2 DEF Return
  <2>2. Extent(mem, want).lo + Extent(mem, want).size = mem + want
    BY DEF Extent
  <2> QED BY <1>2, <2>1, <2>2
<1>3. ASSUME NEW n, Refused(n), Return(HEAP_ALLOC_ERROR) PROVE WithinSystem'
  BY <1>2, <1>3 DEF Refused, HEAP_ALLOC_ERROR
<1>4. CASE FirstExtension
  <2>1. CASE Extended(want) /\ Return(Place(want))
    <3>1. grows' = grows
      BY <2>1 DEF Return
    <3> QED BY <1>0, <1>1, <1>2, <2>1, <3>1
  <2>2. CASE Extended(want) /\ first' = Place(want) /\ UNCHANGED <<grows, want, got, given>>
    BY <1>0, <1>1, <2>2
  <2> QED BY <1>3, <1>4, <2>1, <2>2 DEF FirstExtension
<1>5. CASE SecondExtension
  <2> DEFINE diff == BLOCK_SIZE - (first % BLOCK_SIZE)
  <2>0. want \in Nat \ {0} /\ first \in Int /\ first > 0
    BY <1>5 DEF SecondExtension, HInv, HeapType
  <2>1. diff \in Nat \ {0}
    BY <2>0, Remainder
  <2> HIDE DEF diff
  <2>2. CASE Extended(diff) /\ Place(diff) + diff = first /\ Return(Place(diff))
    <3>1. grows' = grows
      BY <2>2 DEF Return
    <3>2. brk' <= SystemEnd /\ Place(diff) \in Int
      BY <1>1, <2>1, <2>2, <3>1
    <3>3. Place(diff) + want <= SystemEnd
      BY <1>0, <2>0, <2>1, <2>2, <3>2
    <3> QED BY <1>2, <2>2, <3>2, <3>3
  <2>3. CASE Extended(diff) /\ first + want = Place(diff) /\ Return(first + diff)
    <3>1. grows' = grows
      BY <2>3 DEF Return
    <3>2. brk' <= SystemEnd /\ Place(diff) + diff <= SystemEnd
      BY <1>1, <2>1, <2>3, <3>1
    <3>3. first + diff \in Int /\ (first + diff) + want <= SystemEnd
      BY <1>0, <2>0, <2>1, <2>3, <3>2
    <3> QED BY <1>2, <2>3, <3>2, <3>3
  <2>4. CASE Extended(diff) /\ first' = 0 /\ UNCHANGED <<grows, want, got, given>>
    BY <1>1, <2>1, <2>4
  <2> QED BY <1>3, <1>5, <2>2, <2>3, <2>4 DEF SecondExtension, diff
<1>6. ASSUME NEW n \in Nat, HeapAlloc(n) PROVE WithinSystem'
  BY <1>6 DEF HeapAlloc, AskHeap
<1>7. ASSUME NEW n \in Others[grows], OtherMoves(n) PROVE WithinSystem'
  <2>1. n \in Nat
    BY <1>0
  <2> QED BY <1>0, <1>7, <2>1 DEF OtherMoves, Room
<1>8. CASE UNCHANGED heapvars
  BY <1>8 DEF heapvars
<1> QED BY <1>4, <1>5, <1>6, <1>7, <1>8 DEF HeapNext, HeapStep

(* A piece of a block that the heap gave, apart from all slots' memory, is  *)
(* a chunk of the store that is apart from all that is stored.              *)
LEMMA NewChunk ==
  ASSUME RInv, WithinSystem, AsSeen, NEW address \in Nat \ {0}, NEW bytes \in Bytes,
         bytes \in Nat \ {0},
         Clear(slot, Extent(address, bytes)), Inside(given, Extent(address, bytes)),
         NEW c, c = [mem |-> address, size |-> bytes]
  PROVE  /\ c \in [mem : 1 .. SystemEnd, size : Bytes]
         /\ \A d \in AllStored(UsedChunks, WaitingChunks, FreeChunks) : Store!Apart(c, d)
         /\ c \notin UsedChunks
         /\ Unheld(slot, address)
<1>1. PICK W : Lists(slot, next, entry_free, wait_head, wait_tail, made, W)
  BY DEF RInv, ListsInv
<1>2. PICK e : e = Extent(address, bytes)
  OBVIOUS
<1>3. e.lo = address /\ e.size = bytes /\ c.mem = address /\ c.size = bytes
  BY <1>2 DEF Extent
<1>4. address \in 1 .. SystemEnd
  <2>1. PICK r \in given : r.lo <= e.lo /\ e.lo + e.size <= r.lo + r.size
    BY <1>2 DEF Inside
  <2>2. r.lo \in Int /\ r.size \in Int /\ r.lo + r.size <= SystemEnd /\ SystemEnd \in Nat
    BY Parts, HeapExtendAssumption DEF Blocks, WithinSystem
  <2> QED BY <1>3, <2>1, <2>2
<1>5. c \in [mem : 1 .. SystemEnd, size : Bytes]
  BY <1>4
<1>6. ASSUME NEW z \in Taken(slot)
      PROVE  Store!Apart(c, ChunkOf(slot, z)) /\ slot[z].mem # address
  <2>1. z \in Ids
    BY DEF Taken
  <2>2. /\ slot[z].mem \in Nat /\ slot[z].size \in Nat /\ slot[z].size > 0
    BY <2>1, Parts, SlotFields DEF Placed
  <2>3. Apart(MemoryOf(slot, z), e)
    BY <1>2 DEF Clear
  <2>4. slot[z].mem + slot[z].size <= address \/ address + bytes <= slot[z].mem
    BY <1>3, <2>3 DEF Apart, MemoryOf, Extent
  <2> QED BY <1>3, <2>2, <2>4 DEF Store!Apart, ChunkOf
<1>7. \A d \in AllStored(UsedChunks, WaitingChunks, FreeChunks) : Store!Apart(c, d)
  <2> TAKE d \in AllStored(UsedChunks, WaitingChunks, FreeChunks)
  <2>1. PICK z \in Taken(slot) : d = ChunkOf(slot, z)
    BY <1>1, StoredIsTaken DEF AsSeen
  <2> QED BY <1>6, <2>1
<1>8. c \notin UsedChunks
  <2>1. ~Store!Apart(c, c)
    BY <1>3 DEF Store!Apart
  <2> QED BY <1>7, <2>1 DEF AllStored
<1> QED BY <1>5, <1>6, <1>7, <1>8 DEF Unheld

-----------------------------------------------------------------------------
(* Every step is a step of the store, or changes nothing there.             *)
StoreStep == [Store!Next]_<<UsedChunks, WaitingChunks, FreeChunks>>

LEMMA NothingSeen ==
  ASSUME AsSeen, AsSeen', slot' = slot, next' = next, wait_head' = wait_head PROVE StoreStep
<1>1. /\ UsedChunks' = UsedChunks /\ WaitingChunks' = WaitingChunks /\ FreeChunks' = FreeChunks
  BY DEF AsSeen, SeenAs
<1> QED BY <1>1 DEF StoreStep

LEMMA DrainIsRest == ASSUME RInv, AsSeen, AsSeen', DrainWaiting PROVE StoreStep
<1>1. PICK W : Lists(slot, next, entry_free, wait_head, wait_tail, made, W)
  BY DEF RInv, ListsInv
<1>2. /\ wait_head # NIL /\ wait_head' = next[wait_head][0] /\ slot' = slot
      /\ next' = InsertSlot(slot, next, wait_head, SizeList).next
  BY DEF DrainWaiting, Drain
<1>3. PICK ny, v, x, g : /\ ny = InsertSlot(slot, next, wait_head, SizeList).next
                         /\ v = UsedChunks' /\ x = WaitingChunks' /\ g = FreeChunks'
  OBVIOUS
<1>4. SeenAs(slot, ny, next[wait_head][0], v, x, g)
  BY <1>2, <1>3 DEF AsSeen
<1>5. Rested(UsedChunks, WaitingChunks, FreeChunks, v, x, g)
  BY <1>1, <1>2, <1>3, <1>4, DrainSeen DEF AsSeen
<1>6. FreeChunks = [n \in Bytes |-> FreeChunks[n]]
  BY DEF FreeChunks
<1>7. FreeChunks' = [FreeChunks EXCEPT ![Head(WaitingChunks).size] = <<Head(WaitingChunks)>> \o @]
  BY <1>3, <1>5, <1>6 DEF Rested
<1>8. Store!Rest
  BY <1>3, <1>5, <1>7 DEF Rested, Store!Rest
<1> QED BY <1>8 DEF StoreStep, Store!Next

LEMMA ReuseIsReuse == ASSUME RInv, AsSeen, AsSeen', Reuse PROVE StoreStep
<1>1. PICK W : Lists(slot, next, entry_free, wait_head, wait_tail, made, W)
  BY DEF RInv, ListsInv
<1>2. Take(size) /\ pc \in {"reuse", "retake"}
  BY DEF Reuse
<1>3. size \in Nat /\ Placed(slot, Taken(slot)) /\ size \in Bytes
  <2>1. size \in Sizes
    BY <1>2 DEF RInv, RequestInv
  <2> QED BY <2>1, Parts DEF Bytes
<1>4. PICK t : t = FindFreeSize(slot, next, size)
  OBVIOUS
<1>5. PICK ny : ny = RemoveSlot(next, t.found, t.update).next
  OBVIOUS
<1>6. /\ t.found # NIL /\ slot' = [slot EXCEPT ![t.found].flag = "USER"]
      /\ next' = InsertSlot(slot, ny, t.found, AddressList).next
      /\ wait_head' = wait_head
  BY <1>2, <1>4, <1>5, Zenon DEF Take
<1>7. PICK sm, nz, v, x, g : /\ sm = slot' /\ nz = next'
                             /\ v = UsedChunks' /\ x = WaitingChunks' /\ g = FreeChunks'
  OBVIOUS
<1>8. Takes(slot, next, size, t, ny, nz, sm)
  BY <1>4, <1>5, <1>6, <1>7 DEF Takes
<1>9. SeenAs(sm, nz, wait_head, v, x, g)
  BY <1>6, <1>7 DEF AsSeen
<1>10. Drawn(UsedChunks, WaitingChunks, FreeChunks, v, x, g, size)
  BY <1>1, <1>3, <1>8, <1>9, TakeSeen DEF AsSeen
<1>11. FreeChunks' = [FreeChunks EXCEPT ![size] = Tail(@)]
  BY <1>3, <1>7, <1>10 DEF Drawn, FreeChunks
<1>12. Store!Reuse(size)
  BY <1>7, <1>10, <1>11 DEF Drawn, Store!Reuse
<1> QED BY <1>3, <1>12 DEF StoreStep, Store!Next

LEMMA FreeIsRelease ==
  ASSUME RInv, AsSeen, AsSeen', NEW pnt \in 1 .. SystemEnd - 1, FreePointer(pnt) PROVE StoreStep
<1>1. PICK W : Lists(slot, next, entry_free, wait_head, wait_tail, made, W)
  BY DEF RInv, ListsInv
<1>2. Free(pnt) /\ pnt \in Nat /\ Placed(slot, Taken(slot))
  BY HeapExtendAssumption, Parts DEF FreePointer
<1>3. PICK t : t = FindAddress(slot, next, AddressList, pnt, FALSE)
  OBVIOUS
<1>4. /\ t.found # NIL /\ slot' = [slot EXCEPT ![t.found].flag = "FREE"]
      /\ next' = Ended(RemoveSlot(next, t.found, t.update).next, t.found, wait_head, wait_tail)
      /\ wait_head' = IF wait_head = NIL THEN t.found ELSE wait_head
  <2>1. CASE wait_head = NIL
    BY <1>2, <1>3, <2>1, Zenon DEF Free, Ended
  <2>2. CASE wait_head # NIL
    BY <1>2, <1>3, <2>2, Zenon DEF Free, Ended
  <2> QED BY <2>1, <2>2
<1>5. PICK sm, ny, v, x, g : /\ sm = slot' /\ ny = next'
                             /\ v = UsedChunks' /\ x = WaitingChunks' /\ g = FreeChunks'
  OBVIOUS
<1>6. Frees(slot, next, wait_head, wait_tail, pnt, t, ny, sm)
  BY <1>3, <1>4, <1>5 DEF Frees
<1>7. SeenAs(sm, ny, IF wait_head = NIL THEN t.found ELSE wait_head, v, x, g)
  BY <1>4, <1>5 DEF AsSeen
<1>8. PICK c : LetGo(UsedChunks, WaitingChunks, FreeChunks, v, x, g, c)
  BY <1>1, <1>2, <1>6, <1>7, FreeSeen DEF AsSeen
<1>9. c \in UsedChunks /\ Store!Release(c)
  BY <1>5, <1>8 DEF LetGo, Store!Release
<1> QED BY <1>9 DEF StoreStep, Store!Next

LEMMA InsertedIsNew ==
  ASSUME RInv, WithinSystem, AsSeen, AsSeen', NEW h \in Heights, NEW address \in Nat \ {0},
         NEW bytes \in Bytes, bytes \in Nat \ {0}, NEW flag \in {"USER", "ADMIN", "FREE"},
         Clear(slot, Extent(address, bytes)), Inside(given, Extent(address, bytes)),
         InsertAddress(h, address, flag, bytes)
  PROVE  StoreStep
<1>1. PICK W : Lists(slot, next, entry_free, wait_head, wait_tail, made, W)
  BY DEF RInv, ListsInv
<1>2. PICK c : c = [mem |-> address, size |-> bytes]
  OBVIOUS
<1>3. /\ c \in [mem : 1 .. SystemEnd, size : Bytes] /\ c \notin UsedChunks
      /\ \A d \in AllStored(UsedChunks, WaitingChunks, FreeChunks) : Store!Apart(c, d)
      /\ Unheld(slot, address)
  BY <1>2, NewChunk
<1>4. \A d \in Store!Stored : Store!Apart(c, d)
  BY <1>3 DEF AllStored, Store!Stored
<1>5. PICK y : y = entry_free[h]
  OBVIOUS
<1>6. PICK ny : ny = [next EXCEPT ![y] = [l \in SkipLevels |-> NIL]]
  OBVIOUS
<1>7. /\ y # NIL /\ slot' = Fill(slot, y, address, bytes, flag) /\ wait_head' = wait_head
      /\ next' = InsertSlot(slot', ny, y, IF flag = "FREE" THEN SizeList ELSE AddressList).next
  BY <1>5, <1>6, Zenon DEF InsertAddress, Fill
<1>8. PICK sm, nz, v, x, g : /\ sm = slot' /\ nz = next'
                             /\ v = UsedChunks' /\ x = WaitingChunks' /\ g = FreeChunks'
  OBVIOUS
<1>9. Inserts(slot, next, y, address, flag, bytes, sm, ny, nz)
  BY <1>6, <1>7, <1>8 DEF Inserts
<1>10. SeenAs(sm, nz, wait_head, v, x, g)
  BY <1>7, <1>8 DEF AsSeen
<1>11. Put(flag, UsedChunks, WaitingChunks, FreeChunks, v, x, g, c)
  <2>1. y # NIL
    BY <1>7
  <2>2. SeenAs(slot, next, wait_head, UsedChunks, WaitingChunks, FreeChunks)
    BY DEF AsSeen
  <2>3. Unheld(slot, address)
    BY <1>3
  <2> QED BY <1>1, <1>2, <1>5, <1>9, <1>10, <2>1, <2>2, <2>3, InsertSeen
<1>12. CASE flag = "FREE"
  <2>1. PutAside(UsedChunks, WaitingChunks, FreeChunks, v, x, g, c) /\ c.size = bytes
    BY <1>2, <1>11, <1>12 DEF Put
  <2>2. FreeChunks' = [FreeChunks EXCEPT ![c.size] = <<c>> \o @]
    BY <1>8, <2>1 DEF PutAside, FreeChunks
  <2>3. Store!Cut(c)
    BY <1>4, <1>8, <2>1, <2>2 DEF PutAside, Store!Cut
  <2>4. FreeChunks'[bytes] = <<c>> \o FreeChunks[bytes]
    BY <1>8, <2>1 DEF PutAside
  <2>5. FreeChunks[bytes] \in Seq({ChunkOf(slot, z) : z \in Ids})
    <3>1. PICK r : FreeRows(slot, next, Freed(slot) \ W, r)
      BY <1>1 DEF Lists, Sizewise, Slots, FreeRows
    <3>2. PICK d : d = FreeOf(slot, next, bytes)
      OBVIOUS
    <3>3. d \in Seq(Ids)
      BY <3>1, <3>2, FreeListed
    <3>4. FreeChunks[bytes] = AbstractOf(slot, d)
      BY <3>2 DEF AsSeen, SeenAs, SeenFree, FreeOf
    <3> QED BY <3>3, <3>4, AbstractSeq
  <2>6. FreeChunks'[bytes] # <<>> /\ Head(FreeChunks'[bytes]) = c
    BY <2>4, <2>5
  <2>7. Store!Next
    BY <1>3, <2>3, <2>6 DEF Store!Next
  <2> QED BY <2>7 DEF StoreStep
<1>13. CASE flag # "FREE"
  <2>1. PutToUse(UsedChunks, WaitingChunks, FreeChunks, v, x, g, c)
    BY <1>11, <1>13 DEF Put
  <2>2. Store!Use(c)
    BY <1>4, <1>8, <2>1 DEF PutToUse, Store!Use
  <2>3. c \in UsedChunks' \ UsedChunks
    BY <1>3, <1>8, <2>1 DEF PutToUse
  <2>4. Store!Next
    BY <1>3, <2>2, <2>3 DEF Store!Next
  <2> QED BY <2>4 DEF StoreStep
<1> QED BY <1>12, <1>13

LEMMA InsertNextIsNew ==
  ASSUME RInv, WithinSystem, AsSeen, AsSeen', NEW h \in Heights, InsertNext(h) PROVE StoreStep
<1>1. pc = "insert" /\ InsertAddress(h, Head(todo), Flag, size)
  BY DEF InsertNext
<1>2. todo \in Seq(Nat \ {0}) /\ todo # <<>> /\ size \in Nat \ {0} /\ size \in Bytes
  <2>1. pc # "idle" /\ size \in Sizes /\ todo \in Seq(Nat \ {0}) /\ todo # <<>>
    BY <1>1 DEF RInv, RequestInv, Todo
  <2> QED BY <2>1, Parts DEF Bytes
<1>3. Flag \in {"USER", "ADMIN", "FREE"}
  BY DEF Flag
<1>4. /\ Head(todo) \in Nat \ {0} /\ Clear(slot, Extent(Head(todo), size))
      /\ Inside(given, Extent(Head(todo), size))
  BY <1>2, PiecedTail DEF RInv, MemoryInv
<1> QED BY <1>1, <1>2, <1>3, <1>4, InsertedIsNew

LEMMA InsertAdminIsNew ==
  ASSUME RInv, WithinSystem, AsSeen, AsSeen', InsertAdmin PROVE StoreStep
<1>1. /\ pc = "admin" /\ want = 0 /\ entry_free[height] # NIL
      /\ InsertAddress(height, got, "ADMIN", BLOCK_SIZE)
  BY DEF InsertAdmin
<1>2. height \in Heights /\ BLOCK_SIZE \in Nat \ {0} /\ BLOCK_SIZE \in Bytes
  BY <1>1, Parts DEF RInv, RequestInv, Height, Bytes
<1>3. PICK e : e = Extent(got, BLOCK_SIZE)
  OBVIOUS
<1>4. e \in given /\ e.lo = got /\ Clear(slot, e)
  <2>1. got # HEAP_ALLOC_ERROR /\ Asked = BLOCK_SIZE
    BY <1>1 DEF RInv, RequestInv, SlotsCome, Asked
  <2>2. Spare(slot, given, todo, size, e)
    BY <1>1, <1>3, <2>1 DEF RInv, MemoryInv
  <2> QED BY <1>3, <2>2 DEF Spare, Extent
<1>5. got \in Nat \ {0}
  BY <1>4 DEF RInv, MemoryInv, HInv, HeapType
<1>6. Inside(given, e)
  <2>1. e.lo \in Int /\ e.size \in Int
    BY <1>2, <1>3, <1>5 DEF Extent
  <2> QED BY <1>4, <2>1 DEF Inside
<1> QED BY <1>1, <1>2, <1>3, <1>4, <1>5, <1>6, InsertedIsNew

LEMMA GotSlotsSeen == ASSUME RInv, RInv', AsSeen, AsSeen', GotSlots PROVE StoreStep
<1>1. pc = "admin" /\ entry_free[height] = NIL /\ height \in Heights
      /\ made + SlotsPerBlock[height] <= MaxSlots
  BY DEF GotSlots, RInv, RequestInv, Height, SlotsCome
<1>2. CASE got = HEAP_ALLOC_ERROR
  <2>1. UNCHANGED listvars
    BY <1>2 DEF GotSlots
  <2> QED BY <2>1, NothingSeen DEF listvars
<1>3. CASE got # HEAP_ALLOC_ERROR
  <2>1. PICK count : count = SlotsPerBlock[height]
    OBVIOUS
  <2>2. count \in Nat \ {0}
    BY <1>1, <2>1, SizesAssumption
  <2>3. AllocSlots(height, count)
    BY <1>3, <2>1 DEF GotSlots
  <2>4. /\ slot' = Cut(slot, made, height, count)
        /\ next' = Threaded(next, made, entry_free[height], count)
        /\ wait_head' = wait_head
    BY <2>3 DEF AllocSlots, Cut, Threaded
  <2>5. PICK W : Lists(slot, next, entry_free, wait_head, wait_tail, made, W)
    BY DEF RInv, ListsInv
  <2>6. PICK sm, ny : sm = Cut(slot, made, height, count)
                      /\ ny = Threaded(next, made, entry_free[height], count)
    OBVIOUS
  <2>7. /\ Lists(sm, ny, [entry_free EXCEPT ![height] = made + count], wait_head, wait_tail,
                 made + count, W)
        /\ \A z \in Ids : sm[z].flag = slot[z].flag
        /\ \A z \in Taken(slot) : sm[z] = slot[z]
        /\ \E nodes : Within(next, ny, nodes) /\ nodes \cap (Taken(slot) \cup {SizeList}) = {}
    BY <1>1, <2>1, <2>2, <2>5, <2>6, AllocKeepsLists
  <2>8. PICK v, x, g : v = UsedChunks' /\ x = WaitingChunks' /\ g = FreeChunks'
    OBVIOUS
  <2>9. SeenAs(sm, ny, wait_head, v, x, g)
    BY <2>4, <2>6, <2>8 DEF AsSeen
  <2>10. v = UsedChunks /\ x = WaitingChunks /\ g = FreeChunks
    <3>1. PICK nodes : Within(next, ny, nodes) /\ nodes \cap (Taken(slot) \cup {SizeList}) = {}
      BY <2>7
    <3>2. PICK eg, k : eg = [entry_free EXCEPT ![height] = made + count] /\ k = made + count
      OBVIOUS
    <3>3. Lists(sm, ny, eg, wait_head, wait_tail, k, W)
      BY <2>7, <3>2
    <3> QED BY <2>5, <2>7, <2>9, <3>1, <3>3, AllocSeen DEF AsSeen
  <2> QED BY <2>8, <2>10 DEF StoreStep
<1> QED BY <1>2, <1>3

LEMMA EveryStepStores ==
  ASSUME RInv, RInv', WithinSystem, AsSeen, AsSeen', [Next]_vars PROVE StoreStep
<1>1. UNCHANGED listvars => StoreStep
  BY NothingSeen DEF listvars
<1>2. ASSUME NEW n \in Sizes, Request(n) PROVE StoreStep
  BY <1>1, <1>2 DEF Request
<1>3. CASE DrainWaiting
  BY <1>3, DrainIsRest
<1>4. CASE Reuse
  BY <1>4, ReuseIsReuse
<1>5. CASE AskBlock \/ HeapRuns \/ GotBlock
  BY <1>1, <1>5 DEF AskBlock, HeapRuns, GotBlock
<1>6. CASE GotSlots
  BY <1>6, GotSlotsSeen
<1>7. CASE InsertAdmin
  BY <1>7, InsertAdminIsNew
<1>8. ASSUME NEW h \in Heights, InsertNext(h) PROVE StoreStep
  BY <1>8, InsertNextIsNew
<1>9. ASSUME NEW h \in Heights, AskSlots(h) PROVE StoreStep
  BY <1>1, <1>9 DEF AskSlots
<1>10. ASSUME NEW pnt \in 1 .. SystemEnd - 1, FreePointer(pnt) PROVE StoreStep
  BY <1>10, FreeIsRelease
<1>11. ASSUME NEW n \in Others[grows], Other(n) PROVE StoreStep
  BY <1>1, <1>11 DEF Other
<1>12. CASE UNCHANGED vars
  BY <1>1, <1>12 DEF vars
<1> QED BY <1>2, <1>3, <1>4, <1>5, <1>6, <1>7, <1>8, <1>9, <1>10, <1>11, <1>12 DEF Next

LEMMA StoreAtFirst == ASSUME Init PROVE Store!Init
<1>1. RInv /\ AsSeen
  BY SoundAtFirst, StoreIsSeen
<1>2. Lists(slot, next, entry_free, wait_head, wait_tail, made, {})
  BY ListsAtFirst DEF Init
<1>3. InUse(slot) = {} /\ Freed(slot) = {} /\ slot \in [Ids -> SlotType]
  BY <1>2 DEF Init, SkipInit, InUse, Freed, Lists, Slots
<1>4. UsedChunks = {}
  <2>1. UsedChunks = {ChunkOf(slot, z) : z \in InUse(slot)}
    BY <1>1, <1>2, UsedSeen DEF Lists, AsSeen, SeenAs
  <2> QED BY <1>3, <2>1
<1>5. \A q, c : Listed({}, q, c) => AbstractOf(slot, c) = <<>>
  <2> SUFFICES ASSUME NEW q, NEW c, Listed({}, q, c) PROVE AbstractOf(slot, c) = <<>>
    OBVIOUS
  <2>1. c \in Seq(Ids) /\ Len(c) \in Nat /\ DOMAIN c = 1 .. Len(c) /\ \A i \in DOMAIN c : FALSE
    BY ListedFacts
  <2>2. c = <<>>
    BY <2>1
  <2> QED BY <2>2 DEF AbstractOf
<1>6. WaitingChunks = <<>>
  <2>1. PICK q : Queue({}, q, next, wait_head)
    BY <1>2 DEF Lists, Waitwise, Waiting
  <2>2. Listed({}, q, Walk(next, wait_head, 0))
    BY <2>1, QueueListed
  <2> QED BY <1>1, <1>5, <2>2 DEF AsSeen, SeenAs, SeenWaiting
<1>7. FreeChunks = [n \in Bytes |-> <<>>]
  <2>1. PICK r : FreeRows(slot, next, {}, r)
    BY <1>2, <1>3 DEF Lists, Sizewise, FreeRows
  <2>2. \A n : Alike(slot, {}, n) = {}
    BY DEF Alike
  <2>3. \A n : Listed({}, r, FreeOf(slot, next, n))
    BY <2>1, <2>2, FreeListed
  <2>4. \A n : AbstractOf(slot, FreeOf(slot, next, n)) = <<>>
    BY <1>5, <2>3
  <2>5. FreeChunks = [n \in Bytes |-> AbstractOf(slot, FreeOf(slot, next, n))]
    BY <1>1 DEF AsSeen, SeenAs, SeenFree, FreeOf
  <2> QED BY <2>4, <2>5
<1> QED BY <1>4, <1>6, <1>7 DEF Store!Init

(* The pointers of chunk.c, however the levels fall, are the sets and       *)
(* stacks that the chunk layer works with: freeing puts a chunk behind all  *)
(* that wait, draining moves the one that waited longest, a request takes   *)
(* the one of its size that was put aside last, an insertion adds memory    *)
(* that is apart from all that is stored, and no other step of an           *)
(* allocation, nor anybody else who takes memory, changes what is stored.   *)
THEOREM ListsAreStore == Spec => ImplementsStore
<1>1. Init => WithinSystem
  BY HeapExtendAssumption DEF Init, HeapInit, WithinSystem
<1>2. RInv /\ WithinSystem /\ [Next]_vars => WithinSystem'
  BY HeapMoves, WithinStep DEF RInv, MemoryInv
<1>3. Init => Store!Init
  BY StoreAtFirst
<1>4. RInv /\ RInv' /\ WithinSystem /\ AsSeen /\ AsSeen' /\ [Next]_vars
        => [Store!Next]_<<UsedChunks, WaitingChunks, FreeChunks>>
  BY EveryStepStores DEF StoreStep
<1> QED BY <1>1, <1>2, <1>3, <1>4, Invariance, StoreIsSeen, PTL DEF Spec, ImplementsStore, Store!Spec
=============================================================================
