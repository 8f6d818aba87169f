---------------------------- MODULE PollerProofs ----------------------------
(***************************************************************************)
(* What central's snapshots say, for registries of any size, any entries   *)
(* and names, any page size and page limit, and every interleaving of      *)
(* changes on the server with the calls of a poll.                         *)
(***************************************************************************)
EXTENDS Poller, DataLemmas, FiniteSetTheorems

(***************************************************************************)
(* BuildSnapshot's two loops.                                              *)
(***************************************************************************)
Accs == [zoneOf : [Names -> Zones \cup {NoZone}], conflicting : SUBSET Names, skipped : Nat]

\* acc is what the loops have when each name was declared in the zones D.
Means(acc, D) ==
    \A n \in Names :
        /\ acc.zoneOf[n] = NoZone <=> D[n] = {}
        /\ acc.zoneOf[n] # NoZone => acc.zoneOf[n] \in D[n]
        /\ n \in acc.conflicting <=> \E z \in D[n] : z # acc.zoneOf[n]

\* One name of one entry.
LEMMA DeclareMeans ==
    ASSUME NEW acc \in Accs, NEW name \in Names \cup {Empty}, NEW zone \in Zones,
           NEW D \in [Names -> SUBSET Zones], Means(acc, D),
           NEW E \in [Names -> SUBSET Zones],
           \A n \in Names : E[n] = IF n = name THEN D[n] \cup {zone} ELSE D[n]
    PROVE  /\ DeclareName(acc, name, zone) \in Accs
           /\ DeclareName(acc, name, zone).skipped = acc.skipped
           /\ Means(DeclareName(acc, name, zone), E)
<1> DEFINE r == DeclareName(acc, name, zone)
<1>1. zone # NoZone /\ Empty \notin Names
  BY RegistryConstants
<1>2. CASE name = Empty
  <2>1. r = acc
    BY <1>2 DEF DeclareName
  <2> QED
    BY <1>1, <1>2, <2>1 DEF Means
<1>3. CASE name # Empty /\ acc.zoneOf[name] \notin {NoZone, zone}
  <2>1. r = [acc EXCEPT !.conflicting = @ \cup {name}]
    BY <1>3 DEF DeclareName
  <2>2. /\ r \in Accs /\ r.skipped = acc.skipped /\ r.zoneOf = acc.zoneOf
        /\ r.conflicting = acc.conflicting \cup {name}
    BY <1>3, <2>1 DEF Accs
  <2> HIDE DEF r
  <2> QED
    BY <1>3, <2>2 DEF Means, r
<1>4. CASE name # Empty /\ acc.zoneOf[name] \in {NoZone, zone}
  <2>1. r = [acc EXCEPT !.zoneOf[name] = zone]
    BY <1>4 DEF DeclareName
  <2>2. /\ r \in Accs /\ r.skipped = acc.skipped /\ r.conflicting = acc.conflicting
        /\ \A n \in Names : r.zoneOf[n] = IF n = name THEN zone ELSE acc.zoneOf[n]
    BY <1>4, <2>1 DEF Accs
  <2> HIDE DEF r
  <2>3. Means(r, E)
    BY <1>1, <1>4, <2>2 DEF Means
  <2> QED
    BY <2>2, <2>3 DEF r
<1> QED
  BY <1>2, <1>3, <1>4

Named(e, n) == \E k \in DOMAIN e.names : normalize[e.names[k]] = n

NamesLoop(acc, names, zone) ==
    Loop(LAMBDA a, raw : DeclareName(a, normalize[raw], zone), acc, names)

\* The loop over the names of an entry.
LEMMA NamesMean ==
    ASSUME NEW e \in Entries, NEW zone \in Zones, NEW acc \in Accs,
           NEW D \in [Names -> SUBSET Zones], Means(acc, D),
           NEW E \in [Names -> SUBSET Zones],
           \A n \in Names : E[n] = IF Named(e, n) THEN D[n] \cup {zone} ELSE D[n]
    PROVE  /\ NamesLoop(acc, e.names, zone) \in Accs
           /\ NamesLoop(acc, e.names, zone).skipped = acc.skipped
           /\ Means(NamesLoop(acc, e.names, zone), E)
<1> DEFINE names == e.names
           n == Len(names)
           turn(a, raw) == DeclareName(a, normalize[raw], zone)
           soFar(k) == [x \in Names |-> IF \E j \in 1 .. k : normalize[names[j]] = x
                                        THEN D[x] \cup {zone} ELSE D[x]]
           A == {a \in Accs : a.skipped = acc.skipped /\ \E C \in [Names -> SUBSET Zones] : Means(a, C)}
           step == [p \in (1 .. n) \X A |-> turn(p[2], names[p[1]])]
           Solves(h) == h = [S \in SUBSET (1 .. n) |->
                                IF S = {} THEN acc ELSE turn(h[S \ {Max(S)}], names[Max(S)])]
           iter == CHOOSE h : Solves(h)
           result == NamesLoop(acc, names, zone)
<1>1. n \in Nat /\ DOMAIN names = 1 .. n /\ \A k \in 1 .. n : normalize[names[k]] \in Names \cup {Empty}
  BY RegistryConstants
<1>2. result = iter[1 .. n]
  BY <1>1 DEF NamesLoop, Loop, MapThenFoldSet
<1>3. ASSUME NEW a \in Accs, NEW k \in 1 .. n, NEW C \in [Names -> SUBSET Zones], Means(a, C),
             NEW B \in [Names -> SUBSET Zones],
             \A x \in Names : B[x] = IF x = normalize[names[k]] THEN C[x] \cup {zone} ELSE C[x]
      PROVE  /\ turn(a, names[k]) \in Accs
             /\ turn(a, names[k]).skipped = a.skipped /\ Means(turn(a, names[k]), B)
  <2>1. normalize[names[k]] \in Names \cup {Empty}
    BY <1>1
  <2> HIDE DEF names
  <2> QED
    BY <1>3, <2>1, DeclareMeans, Zenon
<1> HIDE DEF names, turn, result
<1>4. ASSUME NEW a \in A, NEW k \in 1 .. n PROVE turn(a, names[k]) \in A
  <2>1. PICK C \in [Names -> SUBSET Zones] : Means(a, C)
    OBVIOUS
  <2> DEFINE B == [x \in Names |-> IF x = normalize[names[k]] THEN C[x] \cup {zone} ELSE C[x]]
  <2>2. B \in [Names -> SUBSET Zones]
    OBVIOUS
  <2>3. \A x \in Names : B[x] = IF x = normalize[names[k]] THEN C[x] \cup {zone} ELSE C[x]
    OBVIOUS
  <2> HIDE DEF B
  <2>4. /\ turn(a, names[k]) \in Accs
        /\ turn(a, names[k]).skipped = a.skipped /\ Means(turn(a, names[k]), B)
    BY <1>3, <2>1, <2>2, <2>3, Zenon
  <2> QED
    BY <2>2, <2>4
<1>5. acc \in A
  OBVIOUS
<1> HIDE DEF A
<1>6. step \in [(1 .. n) \X A -> A]
  BY <1>4
<1>7. PICK f \in [SUBSET (1 .. n) -> A] : FoldsSets(f, n, acc, step)
  <2> HIDE DEF n, step, iter
  <2> QED
    BY <1>1, <1>5, <1>6, FoldExists, Zenon
<1>8. Solves(f)
  <2>1. ASSUME NEW S \in SUBSET (1 .. n), S # {}
        PROVE  f[S] = turn(f[S \ {Max(S)}], names[Max(S)])
    <3>1. Max(S) \in 1 .. n /\ f[S \ {Max(S)}] \in A
      BY <1>7, <2>1, Zenon DEF FoldsSets
    <3> QED
      BY <1>7, <2>1, <3>1, Zenon DEF FoldsSets
  <2> HIDE DEF step
  <2> QED
    BY <1>7, <2>1, Zenon DEF FoldsSets
<1>9. PICK it : Solves(it) /\ result = it[1 .. n]
  <2> HIDE DEF Solves
  <2> QED
    BY <1>2, <1>8, Zenon
<1>10. it[{}] = acc
  BY <1>9
<1>11. ASSUME NEW S \in SUBSET (1 .. n), S # {}, it[S \ {Max(S)}] \in A
       PROVE  it[S] = step[<<Max(S), it[S \ {Max(S)}]>>]
  <2>1. Max(S) \in 1 .. n
    BY <1>7, <1>11, Zenon DEF FoldsSets
  <2>2. it[S] = turn(it[S \ {Max(S)}], names[Max(S)])
    BY <1>9, <1>11, Zenon
  <2> QED
    BY <1>11, <2>1, <2>2, Zenon
<1> HIDE DEF n, step, iter, Solves
<1>12. FoldsWithin(it, n, A, acc, step)
  BY <1>10, <1>11 DEF FoldsWithin
<1>13. FoldsTo(n, A, acc, step, it[1 .. n])
  BY ONLY <1>1, <1>5, <1>6, <1>12, FoldSteps, Zenon
<1>14. PICK g \in [0 .. n -> A] : Course(g, n, acc, step) /\ result = g[n]
  BY <1>9, <1>13, Zenon DEF FoldsTo
<1>15. ASSUME NEW k \in 1 .. n PROVE k - 1 \in 0 .. n /\ g[k] = turn(g[k - 1], names[k])
  <2>1. k - 1 \in 0 .. n
    BY <1>1
  <2>2. g[k - 1] \in A /\ g[k] = step[<<k, g[k - 1]>>]
    BY <1>14, <2>1 DEF Course
  <2> QED
    BY <2>1, <2>2 DEF step
<1> DEFINE G == {m \in 0 .. n : Means(g[m], soFar(m))}
<1>16. 0 \in G
  <2>1. g[0] = acc
    BY <1>14 DEF Course
  <2>2. \A x \in Names : soFar(0)[x] = D[x]
    OBVIOUS
  <2> HIDE DEF soFar
  <2> QED
    BY <1>1, <2>1, <2>2 DEF Means
<1>17. ASSUME NEW m \in 0 .. n, m < n, m \in G PROVE m + 1 \in G
  <2>1. m + 1 \in 1 .. n /\ (m + 1) - 1 = m /\ m \in Nat
    BY <1>1, <1>17
  <2>2. g[m + 1] = turn(g[m], names[m + 1])
    BY <1>15, <2>1
  <2>3. soFar(m) \in [Names -> SUBSET Zones] /\ soFar(m + 1) \in [Names -> SUBSET Zones]
    OBVIOUS
  <2>4. \A x \in Names : soFar(m + 1)[x] = IF x = normalize[names[m + 1]]
                                           THEN soFar(m)[x] \cup {zone} ELSE soFar(m)[x]
    <3> SUFFICES ASSUME NEW x \in Names
                 PROVE  soFar(m + 1)[x] = IF x = normalize[names[m + 1]]
                                          THEN soFar(m)[x] \cup {zone} ELSE soFar(m)[x]
      BY Zenon
    <3>1. (\E j \in 1 .. m + 1 : normalize[names[j]] = x)
             <=> normalize[names[m + 1]] = x \/ \E j \in 1 .. m : normalize[names[j]] = x
      BY <2>1
    <3> QED
      BY <3>1, Zenon
  <2>5. Means(g[m], soFar(m)) /\ g[m] \in Accs
    BY <1>14, <1>17 DEF A
  <2> HIDE DEF soFar
  <2>6. Means(g[m + 1], soFar(m + 1))
    BY <1>3, <2>1, <2>2, <2>3, <2>4, <2>5, Zenon
  <2> QED
    BY <1>1, <2>1, <2>6
<1>18. G = 0 .. n
  <2>1. G \in SUBSET (0 .. n)
    OBVIOUS
  <2> HIDE DEF G
  <2> QED
    BY <1>1, <1>16, <1>17, <2>1, Ascent
<1>19. Means(result, soFar(n))
  <2> HIDE DEF soFar
  <2> QED
    BY <1>1, <1>14, <1>18
<1>20. \A x \in Names : soFar(n)[x] = E[x]
  BY <1>1 DEF Named, names
<1>21. result \in Accs /\ result.skipped = acc.skipped
  BY <1>1, <1>14 DEF A
<1> HIDE DEF soFar
<1>22. Means(result, E)
  BY <1>19, <1>20 DEF Means
<1> QED
  BY <1>21, <1>22 DEF result, names

\* What the first m entries declare, and which of them are skipped.
ZonesUpTo(entries, m) ==
    [n \in Names |-> {z \in Zones : \E j \in 1 .. m : Named(entries[j], n) /\ ZoneOf(entries[j]) = z}]

SkippedUpTo(entries, m) == {j \in 1 .. m : ZoneOf(entries[j]) = NoZone}

\* acc is what BuildSnapshot's loop has after the first m entries.
LoopInv(acc, entries, m) ==
    /\ acc \in Accs
    /\ Means(acc, ZonesUpTo(entries, m))
    /\ acc.skipped = Cardinality(SkippedUpTo(entries, m))

\* One entry.
LEMMA AddEntryMeans ==
    ASSUME NEW entries \in Seq(Entries), NEW m \in 0 .. Len(entries), m < Len(entries),
           NEW acc, LoopInv(acc, entries, m)
    PROVE  LoopInv(AddEntry(acc, entries[m + 1]), entries, m + 1)
<1> DEFINE e == entries[m + 1]
           D == ZonesUpTo(entries, m)
           E == ZonesUpTo(entries, m + 1)
           S == SkippedUpTo(entries, m)
           T == SkippedUpTo(entries, m + 1)
<1>1. m \in Nat /\ m + 1 \in 1 .. Len(entries) /\ e \in Entries
  OBVIOUS
<1>2. \A j : j \in 1 .. m + 1 <=> j = m + 1 \/ j \in 1 .. m
  BY <1>1
<1>3. D \in [Names -> SUBSET Zones] /\ E \in [Names -> SUBSET Zones]
  BY DEF ZonesUpTo
<1>4. acc \in Accs /\ Means(acc, D) /\ acc.skipped = Cardinality(S)
  BY DEF LoopInv
<1>5. IsFiniteSet(S) /\ Cardinality(S) \in Nat /\ m + 1 \notin S
  <2>1. IsFiniteSet(1 .. m)
    BY <1>1, FS_Interval
  <2>2. S \subseteq 1 .. m
    BY DEF SkippedUpTo
  <2>3. m + 1 \notin S
    BY <1>1, <2>2
  <2> HIDE DEF S
  <2>4. IsFiniteSet(S)
    BY <2>1, <2>2, FS_Subset, Zenon
  <2> QED
    BY <2>3, <2>4, FS_CardinalityType
<1>6. CASE ZoneOf(e) = NoZone
  <2> DEFINE r == [acc EXCEPT !.skipped = @ + 1]
  <2>1. AddEntry(acc, e) = r
    BY <1>6 DEF AddEntry
  <2>2. r \in Accs /\ r.zoneOf = acc.zoneOf /\ r.conflicting = acc.conflicting
        /\ r.skipped = acc.skipped + 1
    <3>1. acc \in Accs
      BY <1>4
    <3> QED
      BY ONLY <3>1 DEF Accs
  <2>3. T = S \cup {m + 1}
    BY <1>2, <1>6 DEF SkippedUpTo
  <2>4. Cardinality(T) = Cardinality(S) + 1
    <3> HIDE DEF S, T
    <3> QED
      BY <1>5, <2>3, FS_AddElement, Zenon
  <2>5. \A n \in Names : E[n] = D[n]
    <3> SUFFICES ASSUME NEW n \in Names PROVE E[n] = D[n]
      OBVIOUS
    <3>1. ASSUME NEW z \in Zones
          PROVE  (\E j \in 1 .. m + 1 : Named(entries[j], n) /\ ZoneOf(entries[j]) = z)
                    <=> \E j \in 1 .. m : Named(entries[j], n) /\ ZoneOf(entries[j]) = z
      BY <1>2, <1>6, RegistryConstants
    <3> QED
      BY <3>1 DEF ZonesUpTo
  <2> HIDE DEF r, S, T, D, E
  <2>6. Means(r, E)
    BY <1>4, <2>2, <2>5 DEF Means
  <2> QED
    BY <1>4, <2>1, <2>2, <2>4, <2>6 DEF LoopInv, E, T
<1>7. CASE ZoneOf(e) # NoZone
  <2>1. ZoneOf(e) \in Zones
    BY <1>7 DEF ZoneOf
  <2>2. AddEntry(acc, e) = NamesLoop(acc, e.names, ZoneOf(e))
    BY <1>7 DEF AddEntry, NamesLoop
  <2>3. T = S
    BY <1>2, <1>7 DEF SkippedUpTo
  <2>4. \A n \in Names : E[n] = IF Named(e, n) THEN D[n] \cup {ZoneOf(e)} ELSE D[n]
    <3> SUFFICES ASSUME NEW n \in Names
                 PROVE  E[n] = IF Named(e, n) THEN D[n] \cup {ZoneOf(e)} ELSE D[n]
      BY Zenon
    <3>1. ASSUME NEW z \in Zones
          PROVE  (\E j \in 1 .. m + 1 : Named(entries[j], n) /\ ZoneOf(entries[j]) = z)
                    <=> \/ Named(e, n) /\ ZoneOf(e) = z
                        \/ \E j \in 1 .. m : Named(entries[j], n) /\ ZoneOf(entries[j]) = z
      BY <1>2
    <3> HIDE DEF e
    <3> QED
      BY <2>1, <3>1 DEF ZonesUpTo
  <2> HIDE DEF e, D, E, S, T
  <2>5. /\ NamesLoop(acc, e.names, ZoneOf(e)) \in Accs
        /\ NamesLoop(acc, e.names, ZoneOf(e)).skipped = acc.skipped
        /\ Means(NamesLoop(acc, e.names, ZoneOf(e)), E)
    BY <1>1, <1>3, <1>4, <2>1, <2>4, NamesMean, Zenon
  <2>6. LoopInv(AddEntry(acc, e), entries, m + 1)
    BY <1>4, <2>2, <2>3, <2>5 DEF LoopInv, E, T
  <2> QED
    BY <2>6 DEF e
<1> QED
  BY <1>6, <1>7

\* The loop over the entries.
LEMMA DeclarationsMean ==
    ASSUME NEW entries \in Seq(Entries)
    PROVE  LoopInv(Declarations(entries), entries, Len(entries))
<1> DEFINE n == Len(entries)
           base == [zoneOf |-> [x \in Names |-> NoZone], conflicting |-> {}, skipped |-> 0]
           A == {acc \in Accs : \E D \in [Names -> SUBSET Zones] : Means(acc, D)}
           step == [p \in (1 .. n) \X A |-> AddEntry(p[2], entries[p[1]])]
           Solves(h) == h = [S \in SUBSET (1 .. n) |->
                                IF S = {} THEN base
                                ELSE AddEntry(h[S \ {Max(S)}], entries[Max(S)])]
           iter == CHOOSE h : Solves(h)
           result == Declarations(entries)
<1>1. n \in Nat /\ DOMAIN entries = 1 .. n /\ \A k \in 1 .. n : entries[k] \in Entries
  OBVIOUS
<1>2. result = iter[1 .. n]
  BY <1>1 DEF Declarations, Loop, MapThenFoldSet
<1> HIDE DEF result
<1>3. ASSUME NEW a \in A, NEW k \in 1 .. n PROVE AddEntry(a, entries[k]) \in A
  <2> DEFINE e == entries[k]
  <2>1. PICK D \in [Names -> SUBSET Zones] : Means(a, D)
    OBVIOUS
  <2>2. e \in Entries /\ a \in Accs
    BY <1>1
  <2>3. CASE ZoneOf(e) = NoZone
    <3> DEFINE r == [a EXCEPT !.skipped = @ + 1]
    <3>1. AddEntry(a, e) = r
      BY <2>3 DEF AddEntry
    <3>2. r \in Accs /\ r.zoneOf = a.zoneOf /\ r.conflicting = a.conflicting
      BY <2>2 DEF Accs
    <3> HIDE DEF r
    <3>3. Means(r, D)
      BY <2>1, <3>2 DEF Means
    <3> QED
      BY <3>1, <3>2, <3>3
  <2>4. CASE ZoneOf(e) # NoZone
    <3>1. ZoneOf(e) \in Zones
      BY <2>4 DEF ZoneOf
    <3>2. AddEntry(a, e) = NamesLoop(a, e.names, ZoneOf(e))
      BY <2>4 DEF AddEntry, NamesLoop
    <3> DEFINE E == [x \in Names |-> IF Named(e, x) THEN D[x] \cup {ZoneOf(e)} ELSE D[x]]
    <3>3. E \in [Names -> SUBSET Zones]
      BY <3>1
    <3>4. \A x \in Names : E[x] = IF Named(e, x) THEN D[x] \cup {ZoneOf(e)} ELSE D[x]
      OBVIOUS
    <3> HIDE DEF e, E
    <3>5. /\ NamesLoop(a, e.names, ZoneOf(e)) \in Accs
          /\ Means(NamesLoop(a, e.names, ZoneOf(e)), E)
      BY <2>1, <2>2, <3>1, <3>3, <3>4, NamesMean, Zenon
    <3>6. AddEntry(a, e) \in A
      BY <3>2, <3>3, <3>5
    <3> QED
      BY <3>6 DEF e
  <2> QED
    BY <2>3, <2>4
<1>4. base \in Accs /\ Means(base, ZonesUpTo(entries, 0)) /\ base.skipped = 0
  <2>1. \A x \in Names : ZonesUpTo(entries, 0)[x] = {}
    BY DEF ZonesUpTo
  <2> QED
    BY <2>1 DEF Accs, Means
<1>5. base \in A
  <2>1. ZonesUpTo(entries, 0) \in [Names -> SUBSET Zones]
    BY DEF ZonesUpTo
  <2> HIDE DEF base
  <2> QED
    BY <1>4, <2>1
<1> HIDE DEF A, base
<1>6. step \in [(1 .. n) \X A -> A]
  BY <1>3
<1>7. PICK f \in [SUBSET (1 .. n) -> A] : FoldsSets(f, n, base, step)
  <2> HIDE DEF n, step, iter
  <2> QED
    BY <1>1, <1>5, <1>6, FoldExists, Zenon
<1>8. Solves(f)
  <2>1. ASSUME NEW S \in SUBSET (1 .. n), S # {}
        PROVE  f[S] = AddEntry(f[S \ {Max(S)}], entries[Max(S)])
    <3>1. Max(S) \in 1 .. n /\ f[S \ {Max(S)}] \in A
      BY <1>7, <2>1, Zenon DEF FoldsSets
    <3> QED
      BY <1>7, <2>1, <3>1, Zenon DEF FoldsSets
  <2> HIDE DEF step
  <2> QED
    BY <1>7, <2>1, Zenon DEF FoldsSets
<1>9. PICK it : Solves(it) /\ result = it[1 .. n]
  <2> HIDE DEF Solves
  <2> QED
    BY <1>2, <1>8, Zenon
<1>10. it[{}] = base
  BY <1>9
<1>11. ASSUME NEW S \in SUBSET (1 .. n), S # {}, it[S \ {Max(S)}] \in A
       PROVE  it[S] = step[<<Max(S), it[S \ {Max(S)}]>>]
  <2>1. Max(S) \in 1 .. n
    BY <1>7, <1>11, Zenon DEF FoldsSets
  <2>2. it[S] = AddEntry(it[S \ {Max(S)}], entries[Max(S)])
    BY <1>9, <1>11, Zenon
  <2> QED
    BY <1>11, <2>1, <2>2, Zenon
<1> HIDE DEF n, step, iter, Solves
<1>12. FoldsWithin(it, n, A, base, step)
  BY <1>10, <1>11, Zenon DEF FoldsWithin
<1>13. FoldsTo(n, A, base, step, it[1 .. n])
  BY ONLY <1>1, <1>5, <1>6, <1>12, FoldSteps, Zenon
<1>14. PICK g \in [0 .. n -> A] : Course(g, n, base, step) /\ result = g[n]
  BY <1>9, <1>13, Zenon DEF FoldsTo
<1>15. ASSUME NEW k \in 1 .. n PROVE g[k] = AddEntry(g[k - 1], entries[k])
  <2>1. k - 1 \in 0 .. n
    BY <1>1
  <2>2. g[k - 1] \in A /\ g[k] = step[<<k, g[k - 1]>>]
    BY <1>14, <2>1 DEF Course
  <2> QED
    BY <2>2 DEF step
<1> DEFINE G == {m \in 0 .. n : LoopInv(g[m], entries, m)}
<1>16. 0 \in G
  <2>1. g[0] = base
    BY <1>14 DEF Course
  <2>2. SkippedUpTo(entries, 0) = {}
    BY DEF SkippedUpTo
  <2>3. LoopInv(g[0], entries, 0)
    BY <1>4, <2>1, <2>2, FS_EmptySet, Zenon DEF LoopInv
  <2> QED
    BY <1>1, <2>3
<1>17. ASSUME NEW m \in 0 .. n, m < n, m \in G PROVE m + 1 \in G
  <2>1. m + 1 \in 1 .. n /\ (m + 1) - 1 = m /\ m + 1 \in 0 .. n
    BY <1>1, <1>17
  <2>2. g[m + 1] = AddEntry(g[m], entries[m + 1])
    BY <1>15, <2>1
  <2>3. LoopInv(AddEntry(g[m], entries[m + 1]), entries, m + 1)
    BY <1>17, AddEntryMeans DEF n
  <2> QED
    BY <2>1, <2>2, <2>3
<1>18. G = 0 .. n
  <2>1. G \in SUBSET (0 .. n)
    OBVIOUS
  <2> HIDE DEF G
  <2> QED
    BY <1>1, <1>16, <1>17, <2>1, Ascent
<1>19. LoopInv(g[n], entries, n)
  BY <1>1, <1>18
<1> QED
  BY <1>14, <1>19 DEF result, n

(***************************************************************************)
(* The invariant of a poll.                                                *)
(***************************************************************************)
\* The entries seq, gathered from the server while it had the registrations T
\* at some moment and L at every moment, and asked for the ids in done: each
\* comes from a registration of T, none of L with an id in done is missing,
\* and when nothing changed each registration comes once.
Gathered(seq, done, T, L) ==
    \E h \in [1 .. Len(seq) -> T] :
        /\ \A k \in 1 .. Len(seq) : seq[k] = h[k][2] /\ seq[k].path # NoId
        /\ \A r \in L : r[1] \in done /\ r[2].path # NoId => \E k \in 1 .. Len(seq) : h[k] = r
        /\ T = L => /\ \A j, k \in 1 .. Len(seq) : h[j] = h[k] => j = k
                    /\ \A k \in 1 .. Len(seq) : h[k][1] \in done

Paging ==
    /\ touched \subseteq Ids \X Entries
    /\ pc = "idle" => pages = 0 /\ token = 0 /\ seenTokens = {} /\ all = <<>>
    /\ pc = "paging" =>
          /\ pollErrors < MaxErrors
          /\ Registrations(server) \subseteq touched
          /\ lasting \subseteq Registrations(server)
          /\ Gathered(all, 1 .. token, touched, lasting)

IInv == TypeOK /\ Paging /\ SnapshotIsBracketed /\ StatsAreTrue

(***************************************************************************)
(* What one call returns.                                                  *)
(***************************************************************************)
\* The ids after a token are finitely many.
LEMMA AfterIsFinite ==
    ASSUME NEW t
    PROVE  /\ IsFiniteSet(Ids) /\ Registered(server) \subseteq Ids
           /\ After(t) \subseteq Ids /\ IsFiniteSet(After(t))
<1>1. IsFiniteSet(Ids)
  BY FS_Interval, PollerConstants DEF Ids
<1>2. Registered(server) \subseteq Ids /\ After(t) \subseteq Ids
  BY DEF Registered, After
<1> QED
  BY <1>1, <1>2, FS_Subset

\* A page that leaves ids out leaves out the later ones, and is not empty.
LEMMA PagesAdvance ==
    ASSUME NEW t \in Nat
    PROVE  /\ Page(t) \subseteq After(t)
           /\ NextToken(t) = 0 => Page(t) = After(t)
           /\ NextToken(t) # 0 =>
                /\ NextToken(t) \in Ids /\ NextToken(t) > t
                /\ \A id \in After(t) : id \in Page(t) <=> id <= NextToken(t)
<1> DEFINE A == After(t)
           P == Page(t)
           Below(id) == {other \in A : other < id}
<1>1. P \subseteq A
  BY DEF Page
<1>2. A \subseteq Ids /\ IsFiniteSet(A) /\ \A id \in A : id > t
  BY AfterIsFinite DEF After
<1>3. MaxId \in Nat /\ Ids = 1 .. MaxId /\ pageSize \in Nat \ {0}
  BY PollerConstants DEF Ids
<1>4. \A id \in A : id \in Nat /\ id # 0
  BY <1>2, <1>3
<1>5. \A id : Below(id) \subseteq A
  OBVIOUS
<1>6. \A id : id \in P <=> id \in A /\ Cardinality(Below(id)) < pageSize
  BY DEF Page
<1>7. CASE P = A
  BY <1>1, <1>7 DEF NextToken
<1>8. CASE P # A
  <2>1. A # {}
    BY <1>1, <1>8
  <2> HIDE DEF A, P
  <2>2. PICK m \in A : \A k \in A : m <= k
    <3>1. A \in SUBSET Nat
      BY <1>4
    <3> QED
      BY <2>1, <3>1, LeastNat
  <2>3. Below(m) = {}
    BY <1>4, <2>2
  <2>4. m \in P
    <3>1. Cardinality({}) = 0
      BY FS_EmptySet
    <3> QED
      BY <1>3, <1>6, <2>2, <2>3, <3>1
  <2>5. Max(P) \in P /\ \A x \in P : x <= Max(P)
    <3>1. P \in SUBSET (1 .. MaxId) /\ P # {}
      BY <1>1, <1>2, <1>3, <2>4
    <3> QED
      BY <1>3, <3>1, MaxIsGreatest, Zenon
  <2>6. ASSUME NEW x \in P, NEW y \in A, y <= x PROVE y \in P
    <3>1. Below(y) \subseteq Below(x)
      <4>1. x \in Nat /\ y \in Nat /\ y <= x
        BY <1>1, <1>4, <2>6
      <4>2. \A o \in A : o < y => o < x
        BY <1>4, <4>1
      <4> QED
        BY <4>2
    <3>2. IsFiniteSet(Below(x))
      BY <1>2, <1>5, FS_Subset
    <3>3. IsFiniteSet(Below(y)) /\ Cardinality(Below(y)) <= Cardinality(Below(x))
      BY <3>1, <3>2, FS_Subset
    <3>4. Cardinality(Below(x)) \in Nat /\ Cardinality(Below(y)) \in Nat
      BY <3>2, <3>3, FS_CardinalityType
    <3>5. Cardinality(Below(x)) < pageSize
      BY <1>6
    <3>6. Cardinality(Below(y)) < pageSize
      BY <1>3, <3>3, <3>4, <3>5
    <3> QED
      BY <1>6, <3>6
  <2>7. NextToken(t) = Max(P)
    BY <1>8 DEF NextToken, A, P
  <2>8. Max(P) \in Ids /\ Max(P) > t /\ Max(P) # 0
    BY <1>1, <1>2, <1>4, <2>5
  <2>9. \A id \in A : id \in P <=> id <= Max(P)
    BY <2>5, <2>6
  <2> QED
    BY <1>1, <2>7, <2>8, <2>9 DEF A, P
<1> QED
  BY <1>7, <1>8

\* The ids behind a returned list: each id of the page that carries a SPIFFE
\* ID, once.
LEMMA ListsAreComplete ==
    ASSUME TypeOK, NEW t \in Nat, NEW page \in ListEntries(t)
    PROVE  /\ page \in Seq(Entries)
           /\ \E ids \in [1 .. Len(page) -> Page(t)] :
                 /\ \A k \in 1 .. Len(page) :
                       page[k] = server[ids[k]] /\ page[k].path # NoId
                 /\ \A j, k \in 1 .. Len(page) : ids[j] = ids[k] => j = k
                 /\ \A id \in Page(t) : server[id].path # NoId =>
                       \E k \in 1 .. Len(page) : ids[k] = id
<1> DEFINE S == {id \in Page(t) : server[id].path # NoId}
           n == Cardinality(S)
<1>1. S \subseteq Page(t) /\ Page(t) \subseteq After(t) /\ After(t) \subseteq Registered(server)
  BY PagesAdvance DEF After
<1>2. IsFiniteSet(S)
  BY <1>1, AfterIsFinite, FS_Subset
<1>3. n \in Nat
  BY <1>2, FS_CardinalityType
<1>4. PICK ids \in Orders(S) : page = [k \in DOMAIN ids |-> server[ids[k]]]
  BY DEF ListEntries
<1>5. ids \in [1 .. n -> S] /\ \A i, j \in 1 .. n : ids[i] = ids[j] => i = j
  BY DEF Orders, Bijection, Injection, IsInjective
<1>6. \A id \in S : \E k \in 1 .. n : ids[k] = id
  BY DEF Orders, Bijection, Surjection
<1>7. \A id \in S : server[id] \in Entries
  BY <1>1 DEF Registered, TypeOK
<1> HIDE DEF n
<1>8. page = [k \in 1 .. n |-> server[ids[k]]]
  BY <1>4, <1>5
<1>9. page \in Seq(Entries) /\ Len(page) = n
  BY <1>3, <1>5, <1>7, <1>8
<1>10. ids \in [1 .. n -> Page(t)] /\ \A k \in 1 .. n : page[k] = server[ids[k]] /\ page[k].path # NoId
  BY <1>5, <1>8
<1> QED
  BY <1>5, <1>6, <1>9, <1>10

(***************************************************************************)
(* What PollOnce has gathered.                                             *)
(***************************************************************************)
\* What a registration is.
LEMMA RegistrationsAre ==
    ASSUME NEW s \in [Ids -> Entries \cup {NoEntry}]
    PROVE  /\ Registrations(s) \subseteq Ids \X Entries
           /\ \A r \in Registrations(s) : r[1] \in Registered(s) /\ r[2] = s[r[1]]
           /\ \A id \in Registered(s) : <<id, s[id]>> \in Registrations(s)
BY DEF Registrations, Registered

\* A set of ids that says the same of the registrations may replace another.
LEMMA GatheredElsewhere ==
    ASSUME NEW seq, NEW T, NEW L, NEW done, NEW asked, Gathered(seq, done, T, L),
           \A r \in L : r[1] \in asked => r[1] \in done,
           \A r \in T : r[1] \in done => r[1] \in asked
    PROVE  Gathered(seq, asked, T, L)
BY Zenon DEF Gathered

\* A change on the server leaves what was gathered accounted for.
LEMMA GatheredThroughChange ==
    ASSUME NEW seq, NEW done, NEW T, NEW L, Gathered(seq, done, T, L), L \subseteq T,
           NEW U, NEW K, T \subseteq U, K \subseteq L
    PROVE  Gathered(seq, done, U, K)
<1>1. PICK h \in [1 .. Len(seq) -> T] :
        /\ \A k \in 1 .. Len(seq) : seq[k] = h[k][2] /\ seq[k].path # NoId
        /\ \A r \in L : r[1] \in done /\ r[2].path # NoId => \E k \in 1 .. Len(seq) : h[k] = r
        /\ T = L => /\ \A j, k \in 1 .. Len(seq) : h[j] = h[k] => j = k
                    /\ \A k \in 1 .. Len(seq) : h[k][1] \in done
  BY DEF Gathered
<1>2. h \in [1 .. Len(seq) -> U]
  OBVIOUS
<1>3. U = K => T = L
  BY Zenon
<1> QED
  BY <1>1, <1>2, <1>3 DEF Gathered

\* A page: entries of distinct ids not asked for before, each registered now.
LEMMA GatheredPage ==
    ASSUME NEW seq \in Seq(Entries), NEW page \in Seq(Entries),
           NEW done, NEW new, NEW T, NEW L, L \subseteq T, Gathered(seq, done, T, L),
           \A id \in new : id \notin done,
           NEW ids \in [1 .. Len(page) -> new],
           \A k \in 1 .. Len(page) : <<ids[k], page[k]>> \in T /\ page[k].path # NoId,
           \A j, k \in 1 .. Len(page) : ids[j] = ids[k] => j = k,
           \A r \in L : r[1] \in new /\ r[2].path # NoId =>
               \E k \in 1 .. Len(page) : r = <<ids[k], page[k]>>
    PROVE  Gathered(seq \o page, done \cup new, T, L)
<1> DEFINE m == Len(seq)
           n == Len(page)
           sofar == seq \o page
<1>1. PICK h \in [1 .. m -> T] :
        /\ \A k \in 1 .. m : seq[k] = h[k][2] /\ seq[k].path # NoId
        /\ \A r \in L : r[1] \in done /\ r[2].path # NoId => \E k \in 1 .. m : h[k] = r
        /\ T = L => /\ \A j, k \in 1 .. m : h[j] = h[k] => j = k
                    /\ \A k \in 1 .. m : h[k][1] \in done
  BY DEF Gathered
<1>2. m \in Nat /\ n \in Nat
  OBVIOUS
<1>3. /\ Len(sofar) = m + n
      /\ \A k \in 1 .. m : sofar[k] = seq[k]
      /\ \A k \in 1 .. n : sofar[m + k] = page[k]
  OBVIOUS
<1> DEFINE g == [k \in 1 .. m + n |-> IF k <= m THEN h[k] ELSE <<ids[k - m], page[k - m]>>]
<1> HIDE DEF m, n, sofar
<1>4. \A k \in 1 .. m + n : k \in 1 .. m \/ (k - m \in 1 .. n /\ ~(k <= m) /\ m + (k - m) = k)
  BY <1>2
<1>5. \A k \in 1 .. m : k \in 1 .. m + n /\ g[k] = h[k]
  BY <1>2
<1>6. \A k \in 1 .. n : m + k \in 1 .. m + n /\ g[m + k] = <<ids[k], page[k]>>
  <2> SUFFICES ASSUME NEW k \in 1 .. n
               PROVE  m + k \in 1 .. m + n /\ g[m + k] = <<ids[k], page[k]>>
    BY Zenon
  <2>1. m + k \in 1 .. m + n /\ ~(m + k <= m) /\ (m + k) - m = k
    BY <1>2
  <2> QED
    BY <2>1
<1>7. g \in [1 .. m + n -> T]
  <2>1. \A k \in 1 .. n : <<ids[k], page[k]>> \in T
    BY DEF n
  <2> QED
    BY <1>4, <2>1
<1> HIDE DEF g
<1>8. ASSUME NEW k \in 1 .. m + n
      PROVE  sofar[k] = g[k][2] /\ sofar[k].path # NoId
  <2>1. CASE k \in 1 .. m
    BY <1>1, <1>3, <1>5, <2>1
  <2>2. CASE k - m \in 1 .. n /\ m + (k - m) = k
    <3>1. sofar[k] = page[k - m] /\ g[k] = <<ids[k - m], page[k - m]>>
      BY <1>3, <1>6, <2>2
    <3>2. page[k - m].path # NoId
      BY <2>2, Zenon DEF n
    <3> QED
      BY <3>1, <3>2
  <2> QED
    BY <1>4, <2>1, <2>2
<1>9. ASSUME NEW r \in L, r[1] \in done \cup new, r[2].path # NoId
      PROVE  \E k \in 1 .. m + n : g[k] = r
  <2>1. CASE r[1] \in done
    <3>1. PICK k \in 1 .. m : h[k] = r
      BY <1>1, <1>9, <2>1
    <3> QED
      BY <1>5, <3>1
  <2>2. CASE r[1] \in new
    <3>1. PICK k \in 1 .. n : r = <<ids[k], page[k]>>
      BY <1>9, <2>2, Zenon DEF n
    <3> QED
      BY <1>6, <3>1
  <2> QED
    BY <1>9, <2>1, <2>2, Zenon
<1>10. ASSUME T = L, NEW k \in 1 .. m + n PROVE g[k][1] \in done \cup new
  <2>1. CASE k \in 1 .. m
    BY <1>1, <1>5, <1>10, <2>1
  <2>2. CASE k - m \in 1 .. n /\ m + (k - m) = k
    <3>1. g[k] = <<ids[k - m], page[k - m]>> /\ ids[k - m] \in new
      BY <1>6, <2>2 DEF n
    <3> QED
      BY <3>1
  <2> QED
    BY <1>4, <2>1, <2>2
<1>11. ASSUME T = L, NEW j \in 1 .. m + n, NEW k \in 1 .. m + n, g[j] = g[k] PROVE j = k
  <2>1. \A i \in 1 .. m : g[i][1] \in done
    BY <1>1, <1>5, <1>11
  <2>2. \A i \in 1 .. m + n : i - m \in 1 .. n /\ m + (i - m) = i =>
            g[i][1] = ids[i - m] /\ g[i][1] \in new
    <3> SUFFICES ASSUME NEW i \in 1 .. m + n, i - m \in 1 .. n, m + (i - m) = i
                 PROVE  g[i][1] = ids[i - m] /\ g[i][1] \in new
      OBVIOUS
    <3>1. g[i] = <<ids[i - m], page[i - m]>> /\ ids[i - m] \in new
      BY <1>6 DEF n
    <3> QED
      BY <3>1
  <2>3. CASE j \in 1 .. m /\ k \in 1 .. m
    BY <1>1, <1>5, <1>11, <2>3
  <2>4. CASE j \notin 1 .. m /\ k \notin 1 .. m
    <3>1. /\ j - m \in 1 .. n /\ m + (j - m) = j
          /\ k - m \in 1 .. n /\ m + (k - m) = k
      BY <1>4, <2>4
    <3>2. ids[j - m] = ids[k - m]
      BY <1>11, <2>2, <3>1
    <3>3. j - m = k - m
      BY <3>1, <3>2 DEF n
    <3> QED
      BY <1>2, <3>3
  <2> QED
    BY <1>4, <1>11, <2>1, <2>2, <2>3, <2>4
<1>12. T = L => /\ \A j, k \in 1 .. m + n : g[j] = g[k] => j = k
                /\ \A k \in 1 .. m + n : g[k][1] \in done \cup new
  BY <1>10, <1>11
<1>13. \A r \in L : r[1] \in done \cup new /\ r[2].path # NoId =>
          \E k \in 1 .. m + n : g[k] = r
  BY <1>9
<1>14. Len(sofar) = m + n
  BY <1>3
<1>15. Gathered(sofar, done \cup new, T, L)
  BY ONLY <1>7, <1>8, <1>12, <1>13, <1>14 DEF Gathered
<1> QED
  BY <1>15 DEF sofar

\* One call, as the server stands when it answers.
LEMMA CallGathers ==
    ASSUME TypeOK, Paging, pc = "paging", NEW page \in ListEntries(token)
    PROVE  /\ all \o page \in Seq(Entries)
           /\ Gathered(all \o page, (1 .. token) \cup Page(token), touched, lasting)
<1>1. token \in Nat /\ all \in Seq(Entries) /\ server \in [Ids -> Entries \cup {NoEntry}]
  BY PollerConstants DEF TypeOK, Tokens
<1>2. /\ Registrations(server) \subseteq touched /\ lasting \subseteq Registrations(server)
      /\ Gathered(all, 1 .. token, touched, lasting)
  BY DEF Paging
<1>3. /\ Page(token) \subseteq Registered(server)
      /\ \A id \in Page(token) : id \notin 1 .. token
  <2>1. \A id \in After(token) : id \in Registered(server) /\ id > token /\ id \in Nat
    <3>1. \A id \in Ids : id \in Nat
      BY PollerConstants DEF Ids
    <3> QED
      BY <3>1 DEF After, Registered
  <2>2. Page(token) \subseteq After(token)
    BY <1>1, PagesAdvance
  <2> QED
    BY <1>1, <2>1, <2>2
<1>4. page \in Seq(Entries)
  BY <1>1, ListsAreComplete
<1>5. PICK ids \in [1 .. Len(page) -> Page(token)] :
        /\ \A k \in 1 .. Len(page) : page[k] = server[ids[k]] /\ page[k].path # NoId
        /\ \A j, k \in 1 .. Len(page) : ids[j] = ids[k] => j = k
        /\ \A id \in Page(token) : server[id].path # NoId =>
              \E k \in 1 .. Len(page) : ids[k] = id
  BY <1>1, ListsAreComplete
<1>6. \A k \in 1 .. Len(page) : <<ids[k], page[k]>> \in touched /\ page[k].path # NoId
  BY <1>1, <1>2, <1>3, <1>5, RegistrationsAre
<1>7. ASSUME NEW r \in lasting, r[1] \in Page(token), r[2].path # NoId
      PROVE  \E k \in 1 .. Len(page) : r = <<ids[k], page[k]>>
  <2>1. r \in Ids \X Entries /\ r[2] = server[r[1]]
    BY <1>1, <1>2, RegistrationsAre
  <2>2. PICK k \in 1 .. Len(page) : ids[k] = r[1]
    BY <1>5, <1>7, <2>1
  <2>3. page[k] = r[2]
    BY <1>5, <2>1, <2>2
  <2>4. r = <<r[1], r[2]>>
    BY <2>1
  <2> QED
    BY <2>2, <2>3, <2>4
<1>8. lasting \subseteq touched
  BY <1>2
<1>9. \A r \in lasting : r[1] \in Page(token) /\ r[2].path # NoId =>
          \E k \in 1 .. Len(page) : r = <<ids[k], page[k]>>
  BY <1>7
<1>10. \A j, k \in 1 .. Len(page) : ids[j] = ids[k] => j = k
  BY <1>5
<1>11. Gathered(all \o page, (1 .. token) \cup Page(token), touched, lasting)
  <2> DEFINE done == 1 .. token
  <2>1. Gathered(all, done, touched, lasting) /\ \A id \in Page(token) : id \notin done
    BY <1>2, <1>3
  <2>2. all \in Seq(Entries)
    BY <1>1
  <2> HIDE DEF done
  <2>3. Gathered(all \o page, done \cup Page(token), touched, lasting)
    BY ONLY <1>4, <1>6, <1>8, <1>9, <1>10, <2>1, <2>2,
            ids \in [1 .. Len(page) -> Page(token)], GatheredPage, Zenon
  <2> QED
    BY <2>3 DEF done
<1> QED
  BY <1>1, <1>4, <1>11

(***************************************************************************)
(* What the snapshot of a poll says.                                       *)
(***************************************************************************)
\* The bodies of SnapshotIsBracketed and StatsAreTrue.
Bracketed(zoneOf, T, L) ==
    \A n \in Names :
        LET some   == DeclaredZones(EntriesIn(T), n)
            always == DeclaredZones(EntriesIn(L), n)
        IN  /\ zoneOf[n] # NoZone => zoneOf[n] \in some /\ always \subseteq {zoneOf[n]}
            /\ some = always /\ Cardinality(some) = 1 => zoneOf[n] \in some

Counted(counts, L) ==
    /\ counts.Names =
          Cardinality({n \in Names : Cardinality(DeclaredZones(EntriesIn(L), n)) = 1})
    /\ counts.Conflicts =
          Cardinality({n \in Names : Cardinality(DeclaredZones(EntriesIn(L), n)) > 1})
    /\ counts.Skipped =
          Cardinality({r \in L : r[2].path # NoId /\ ZoneOf(r[2]) = NoZone})

\* The zones the gathered entries declare lie between those declared
\* throughout and those declared at some moment.
LEMMA ZonesBracketed ==
    ASSUME NEW seq \in Seq(Entries), NEW T \in SUBSET (Ids \X Entries), NEW L \in SUBSET T,
           Gathered(seq, Ids, T, L), NEW n \in Names
    PROVE  LET Z == ZonesUpTo(seq, Len(seq))[n]
           IN  /\ DeclaredZones(EntriesIn(L), n) \subseteq Z
               /\ Z \subseteq DeclaredZones(EntriesIn(T), n)
               /\ IsFiniteSet(Z) /\ Z \subseteq Zones
<1> DEFINE Z == ZonesUpTo(seq, Len(seq))[n]
<1>1. PICK h \in [1 .. Len(seq) -> T] :
        /\ \A k \in 1 .. Len(seq) : seq[k] = h[k][2] /\ seq[k].path # NoId
        /\ \A r \in L : r[1] \in Ids /\ r[2].path # NoId => \E k \in 1 .. Len(seq) : h[k] = r
  BY DEF Gathered
<1>2. Z = {z \in Zones : \E j \in 1 .. Len(seq) : Named(seq[j], n) /\ ZoneOf(seq[j]) = z}
  BY DEF ZonesUpTo
<1> HIDE DEF Z
<1>3. ASSUME NEW z \in Z PROVE z \in DeclaredZones(EntriesIn(T), n)
  <2>1. PICK j \in 1 .. Len(seq) : z \in Zones /\ Named(seq[j], n) /\ ZoneOf(seq[j]) = z
    BY <1>2
  <2>2. seq[j] \in EntriesIn(T) /\ seq[j].path # NoId
    BY <1>1 DEF EntriesIn
  <2>3. seq[j] \in Declaring(EntriesIn(T), n)
    BY <2>1, <2>2 DEF Declaring, Named
  <2>4. z # NoZone
    BY <2>1, RegistryConstants
  <2> QED
    BY <2>1, <2>3, <2>4 DEF DeclaredZones
<1>4. ASSUME NEW z \in DeclaredZones(EntriesIn(L), n) PROVE z \in Z
  <2>1. PICK e \in Declaring(EntriesIn(L), n) : z = ZoneOf(e) /\ z # NoZone
    BY DEF DeclaredZones
  <2>2. e \in EntriesIn(L) /\ e.path # NoId /\ Named(e, n)
    BY DEF Declaring, Named
  <2>3. PICK r \in L : e = r[2]
    BY <2>2 DEF EntriesIn
  <2>4. r[1] \in Ids
    OBVIOUS
  <2>5. PICK k \in 1 .. Len(seq) : h[k] = r
    BY <1>1, <2>2, <2>3, <2>4
  <2>6. seq[k] = e
    BY <1>1, <2>3, <2>5
  <2>7. z \in Zones
    BY <2>1 DEF ZoneOf
  <2> QED
    BY <1>2, <2>1, <2>2, <2>6, <2>7
<1>5. IsFiniteSet(Z)
  <2> DEFINE J == {j \in 1 .. Len(seq) : Named(seq[j], n) /\ ZoneOf(seq[j]) \in Zones}
             f == [j \in J |-> ZoneOf(seq[j])]
  <2>1. IsFiniteSet(1 .. Len(seq))
    BY FS_Interval
  <2>2. J \in SUBSET (1 .. Len(seq))
    OBVIOUS
  <2>3. f \in [J -> Z] /\ \A z \in Z : \E j \in J : f[j] = z
    BY <1>2
  <2> HIDE DEF J, f
  <2>4. IsFiniteSet(J)
    BY <2>1, <2>2, FS_Subset, Zenon
  <2>5. f \in Surjection(J, Z)
    BY <2>3 DEF Surjection
  <2> QED
    BY <2>4, <2>5, FS_Surjection
<1>6. Z \subseteq Zones
  BY <1>2
<1> QED
  BY <1>3, <1>4, <1>5, <1>6 DEF Z

\* Skipped entries are counted once each.
LEMMA SkippedCounted ==
    ASSUME NEW seq \in Seq(Entries), NEW L \in SUBSET (Ids \X Entries),
           Gathered(seq, Ids, L, L)
    PROVE  Cardinality(SkippedUpTo(seq, Len(seq))) =
           Cardinality({r \in L : r[2].path # NoId /\ ZoneOf(r[2]) = NoZone})
<1> DEFINE S == SkippedUpTo(seq, Len(seq))
           R == {r \in L : r[2].path # NoId /\ ZoneOf(r[2]) = NoZone}
<1>1. PICK h \in [1 .. Len(seq) -> L] :
        /\ \A k \in 1 .. Len(seq) : seq[k] = h[k][2] /\ seq[k].path # NoId
        /\ \A r \in L : r[1] \in Ids /\ r[2].path # NoId => \E k \in 1 .. Len(seq) : h[k] = r
        /\ \A j, k \in 1 .. Len(seq) : h[j] = h[k] => j = k
  BY DEF Gathered
<1> DEFINE f == [k \in S |-> h[k]]
<1>2. S = {k \in 1 .. Len(seq) : ZoneOf(seq[k]) = NoZone}
  BY DEF SkippedUpTo
<1>3. f \in [S -> R] /\ \A j, k \in S : f[j] = f[k] => j = k
  BY <1>1, <1>2
<1>4. ASSUME NEW r \in R PROVE \E k \in S : f[k] = r
  <2>1. PICK k \in 1 .. Len(seq) : h[k] = r
    BY <1>1
  <2>2. k \in S
    BY <1>1, <1>2, <2>1
  <2> QED
    BY <2>1, <2>2
<1>5. IsFiniteSet(S)
  <2>1. IsFiniteSet(1 .. Len(seq))
    BY FS_Interval
  <2>2. S \in SUBSET (1 .. Len(seq))
    BY <1>2
  <2> HIDE DEF S
  <2> QED
    BY <2>1, <2>2, FS_Subset, Zenon
<1> HIDE DEF f, S, R
<1>6. f \in Bijection(S, R)
  BY <1>3, <1>4 DEF Bijection, Injection, Surjection, IsInjective
<1>7. ExistsBijection(S, R)
  BY <1>6 DEF ExistsBijection
<1>8. Cardinality(R) = Cardinality(S)
  BY <1>5, <1>7, FS_Bijection
<1> QED
  BY <1>8 DEF S, R

\* BuildSnapshot over what a poll gathered.
LEMMA SnapshotSays ==
    ASSUME NEW seq \in Seq(Entries), NEW T \in SUBSET (Ids \X Entries), NEW L \in SUBSET T,
           Gathered(seq, Ids, T, L)
    PROVE  LET snap == BuildSnapshot(Declarations(seq))
           IN  /\ snap.zoneOf \in [Names -> Zones \cup {NoZone}]
               /\ snap.Names \in Nat /\ snap.Conflicts \in Nat /\ snap.Skipped \in Nat
               /\ Bracketed(snap.zoneOf, T, L)
               /\ T = L => Counted(snap, L)
<1> DEFINE acc == Declarations(seq)
           snap == BuildSnapshot(acc)
           D == ZonesUpTo(seq, Len(seq))
           Some(n) == DeclaredZones(EntriesIn(T), n)
           Always(n) == DeclaredZones(EntriesIn(L), n)
<1>1. acc \in Accs /\ Means(acc, D) /\ acc.skipped = Cardinality(SkippedUpTo(seq, Len(seq)))
  BY DeclarationsMean DEF LoopInv
<1>2. \A n \in Names : /\ Always(n) \subseteq D[n] /\ D[n] \subseteq Some(n)
                       /\ IsFiniteSet(D[n]) /\ D[n] \subseteq Zones
  BY ZonesBracketed, Zenon
<1>3. /\ snap.zoneOf = [n \in Names |-> IF n \in acc.conflicting THEN NoZone ELSE acc.zoneOf[n]]
      /\ snap.Names = Cardinality({n \in Names : snap.zoneOf[n] # NoZone})
      /\ snap.Conflicts = Cardinality(acc.conflicting)
      /\ snap.Skipped = acc.skipped
  BY Zenon DEF BuildSnapshot
<1> HIDE DEF acc, snap, D, Some, Always
<1>4. NoZone \notin Zones /\ IsFiniteSet(Names)
  BY RegistryConstants
<1>5. /\ acc.zoneOf \in [Names -> Zones \cup {NoZone}] /\ acc.conflicting \subseteq Names
      /\ acc.skipped \in Nat
  BY <1>1 DEF Accs
<1>6. snap.zoneOf \in [Names -> Zones \cup {NoZone}]
  BY <1>3, <1>5
<1>7. snap.Names \in Nat /\ snap.Conflicts \in Nat /\ snap.Skipped \in Nat
  <2> DEFINE R == {n \in Names : snap.zoneOf[n] # NoZone}
  <2>1. R \in SUBSET Names
    OBVIOUS
  <2> HIDE DEF R
  <2>2. IsFiniteSet(R) /\ IsFiniteSet(acc.conflicting)
    BY <1>4, <1>5, <2>1, FS_Subset
  <2>3. Cardinality(R) \in Nat /\ Cardinality(acc.conflicting) \in Nat
    BY <2>2, FS_CardinalityType
  <2> QED
    BY <1>3, <1>5, <2>3 DEF R
<1>8. ASSUME NEW n \in Names
      PROVE  /\ snap.zoneOf[n] # NoZone => D[n] = {snap.zoneOf[n]}
             /\ \A z : D[n] = {z} => snap.zoneOf[n] = z /\ z # NoZone
             /\ n \in acc.conflicting <=> D[n] # {} /\ ~ \E z : D[n] = {z}
  <2>1. /\ acc.zoneOf[n] = NoZone <=> D[n] = {}
        /\ acc.zoneOf[n] # NoZone => acc.zoneOf[n] \in D[n]
        /\ n \in acc.conflicting <=> \E z \in D[n] : z # acc.zoneOf[n]
    BY <1>1 DEF Means
  <2>2. snap.zoneOf[n] = IF n \in acc.conflicting THEN NoZone ELSE acc.zoneOf[n]
    BY <1>3
  <2>3. D[n] \subseteq Zones
    BY <1>2
  <2>4. snap.zoneOf[n] # NoZone => D[n] = {snap.zoneOf[n]}
    BY <2>1, <2>2
  <2>5. \A z : D[n] = {z} => snap.zoneOf[n] = z /\ z # NoZone
    BY <1>4, <2>1, <2>2, <2>3
  <2>6. n \in acc.conflicting <=> D[n] # {} /\ ~ \E z : D[n] = {z}
    BY <2>1
  <2> QED
    BY <2>4, <2>5, <2>6, Zenon
<1>9. \A n \in Names : Cardinality(D[n]) \in Nat /\ (Cardinality(D[n]) = 0 <=> D[n] = {})
                       /\ (Cardinality(D[n]) = 1 <=> \E z : D[n] = {z})
  <2> SUFFICES ASSUME NEW n \in Names
               PROVE  /\ Cardinality(D[n]) \in Nat
                      /\ Cardinality(D[n]) = 0 <=> D[n] = {}
                      /\ Cardinality(D[n]) = 1 <=> \E z : D[n] = {z}
    BY Zenon
  <2>1. IsFiniteSet(D[n])
    BY <1>2
  <2>2. Cardinality(D[n]) \in Nat
    BY <2>1, FS_CardinalityType
  <2>3. Cardinality(D[n]) = 0 <=> D[n] = {}
    BY <2>1, FS_EmptySet
  <2>4. Cardinality(D[n]) = 1 <=> \E z : D[n] = {z}
    BY <2>1, FS_Singleton, Zenon
  <2> QED
    BY <2>2, <2>3, <2>4, Zenon
<1>10. Bracketed(snap.zoneOf, T, L)
  <2> SUFFICES ASSUME NEW n \in Names
               PROVE  /\ snap.zoneOf[n] # NoZone =>
                            snap.zoneOf[n] \in Some(n) /\ Always(n) \subseteq {snap.zoneOf[n]}
                      /\ Some(n) = Always(n) /\ Cardinality(Some(n)) = 1 =>
                            snap.zoneOf[n] \in Some(n)
    BY DEF Bracketed, Some, Always
  <2>1. Always(n) \subseteq D[n] /\ D[n] \subseteq Some(n)
    BY <1>2
  <2>2. snap.zoneOf[n] # NoZone =>
            snap.zoneOf[n] \in Some(n) /\ Always(n) \subseteq {snap.zoneOf[n]}
    BY <1>8, <2>1
  <2>3. ASSUME Some(n) = Always(n), Cardinality(Some(n)) = 1
        PROVE  snap.zoneOf[n] \in Some(n)
    <3>1. D[n] = Some(n)
      BY <2>1, <2>3, Zenon
    <3>2. PICK z : D[n] = {z}
      BY <1>9, <2>3, <3>1, Zenon
    <3> QED
      BY <1>8, <3>1, <3>2
  <2> QED
    BY <2>2, <2>3
<1>11. ASSUME T = L PROVE Counted(snap, L)
  <2>1. \A n \in Names : Always(n) = D[n]
    BY <1>2, <1>11, Zenon DEF Some, Always
  <2>2. \A n \in Names : snap.zoneOf[n] # NoZone <=> Cardinality(Always(n)) = 1
    <3> SUFFICES ASSUME NEW n \in Names
                 PROVE  snap.zoneOf[n] # NoZone <=> \E z : D[n] = {z}
      BY <1>9, <2>1, Zenon
    <3> QED
      BY <1>8, Zenon
  <2>3. \A n \in Names : n \in acc.conflicting <=> Cardinality(Always(n)) > 1
    <3> SUFFICES ASSUME NEW n \in Names
                 PROVE  n \in acc.conflicting <=> Cardinality(D[n]) > 1
      BY <2>1
    <3>1. n \in acc.conflicting <=> Cardinality(D[n]) # 0 /\ Cardinality(D[n]) # 1
      BY <1>8, <1>9, Zenon
    <3>2. Cardinality(D[n]) \in Nat
      BY <1>9
    <3> QED
      BY <3>1, <3>2
  <2>4. snap.Names = Cardinality({n \in Names : Cardinality(Always(n)) = 1})
    <3>1. {n \in Names : snap.zoneOf[n] # NoZone} = {n \in Names : Cardinality(Always(n)) = 1}
      BY <2>2
    <3> QED
      BY <1>3, <3>1, Zenon
  <2>5. snap.Conflicts = Cardinality({n \in Names : Cardinality(Always(n)) > 1})
    <3>1. acc.conflicting = {n \in Names : Cardinality(Always(n)) > 1}
      BY <1>5, <2>3
    <3> QED
      BY <1>3, <3>1
  <2>6. snap.Skipped = Cardinality({r \in L : r[2].path # NoId /\ ZoneOf(r[2]) = NoZone})
    <3>1. L \in SUBSET (Ids \X Entries) /\ Gathered(seq, Ids, L, L)
      BY <1>11
    <3>2. Cardinality(SkippedUpTo(seq, Len(seq))) =
              Cardinality({r \in L : r[2].path # NoId /\ ZoneOf(r[2]) = NoZone})
      BY <3>1, SkippedCounted
    <3> QED
      BY <1>1, <1>3, <3>2
  <2> QED
    BY <2>4, <2>5, <2>6 DEF Counted, Always
<1> QED
  BY <1>6, <1>7, <1>10, <1>11 DEF snap, acc

(***************************************************************************)
(* The steps.                                                              *)
(***************************************************************************)
LEMMA InitHolds == Init => IInv
<1> SUFFICES ASSUME Init PROVE IInv
  OBVIOUS
<1>1. TypeOK
  BY PollerConstants DEF Init, TypeOK
<1>2. Paging
  BY DEF Init, Paging
<1> QED
  BY <1>1, <1>2 DEF Init, IInv, SnapshotIsBracketed, StatsAreTrue

\* Steps that leave the published snapshot alone keep what is said of it.
LEMMA PublishedStays ==
    ASSUME IInv, UNCHANGED <<store, stats, basis>>
    PROVE  SnapshotIsBracketed' /\ StatsAreTrue'
<1>1. SnapshotIsBracketed /\ StatsAreTrue
  BY DEF IInv
<1> QED
  BY <1>1 DEF SnapshotIsBracketed, StatsAreTrue

\* SPIRE's entries change.
LEMMA ChangeKeeps ==
    ASSUME IInv, NEW id \in Ids, Change(id)
    PROVE  IInv'
<1>1. TypeOK /\ Paging
  BY DEF IInv
<1>2. TypeOK'
  <2>1. /\ server \in [Ids -> Entries \cup {NoEntry}] /\ changes \in 0 .. MaxChanges
        /\ changes < MaxChanges /\ changes' = changes + 1
        /\ \E e \in Entries \cup {NoEntry} : server' = [server EXCEPT ![id] = e]
    BY <1>1, Zenon DEF TypeOK, Change
  <2>2. server' \in [Ids -> Entries \cup {NoEntry}] /\ changes' \in 0 .. MaxChanges
    BY <2>1, PollerConstants
  <2> QED
    BY <1>1, <2>2 DEF TypeOK, Change, localVars
<1>3. Paging'
  <2>1. UNCHANGED <<pc, pages, token, seenTokens, all, pollErrors>>
    BY DEF Change, localVars
  <2>2. CASE pc = "paging"
    <3>1. /\ touched \subseteq Ids \X Entries /\ pollErrors < MaxErrors
          /\ Registrations(server) \subseteq touched /\ lasting \subseteq Registrations(server)
          /\ Gathered(all, 1 .. token, touched, lasting)
      BY <1>1, <2>2 DEF Paging
    <3>2. /\ touched' = touched \cup Registrations(server')
          /\ lasting' = lasting \cap Registrations(server')
      BY <2>2, Zenon DEF Change
    <3>3. Registrations(server') \subseteq Ids \X Entries
      BY <1>2, RegistrationsAre DEF TypeOK
    <3>4. Gathered(all, 1 .. token, touched', lasting')
      <4>1. lasting \subseteq touched /\ touched \subseteq touched' /\ lasting' \subseteq lasting
        BY <3>1, <3>2
      <4> QED
        BY <3>1, <4>1, GatheredThroughChange
    <3>5. touched' \subseteq Ids \X Entries
      BY <3>1, <3>2, <3>3
    <3>6. Registrations(server') \subseteq touched' /\ lasting' \subseteq Registrations(server')
      BY <3>2
    <3>7. Registrations(server)' = Registrations(server')
      BY DEF Registrations, Registered
    <3>8. Gathered(all, 1 .. token, touched, lasting)'
      BY <2>1, <3>4 DEF Gathered
    <3> QED
      BY <2>1, <2>2, <3>1, <3>5, <3>6, <3>7, <3>8 DEF Paging
  <2>3. CASE pc # "paging"
    BY <1>1, <2>1, <2>3 DEF Paging, Change
  <2> QED
    BY <2>2, <2>3
<1>4. SnapshotIsBracketed' /\ StatsAreTrue'
  BY PublishedStays DEF Change
<1> QED
  BY <1>2, <1>3, <1>4 DEF IInv

\* PollOnce starts.
LEMMA BeginKeeps ==
    ASSUME IInv, Begin
    PROVE  IInv'
<1>1. TypeOK /\ Paging
  BY DEF IInv
<1>2. TypeOK'
  BY <1>1 DEF TypeOK, Begin, localVars
<1>3. Paging'
  <2>1. /\ token = 0 /\ all = <<>> /\ pollErrors < MaxErrors /\ pc' = "paging"
        /\ touched' = Registrations(server) /\ lasting' = Registrations(server)
        /\ UNCHANGED <<server, token, all, pollErrors>>
    BY <1>1 DEF Paging, Begin, localVars
  <2>2. Registrations(server) \subseteq Ids \X Entries
    BY <1>1, RegistrationsAre DEF TypeOK
  <2>3. ASSUME NEW T PROVE Gathered(<<>>, 1 .. 0, T, T)
    <3> DEFINE h == [k \in 1 .. 0 |-> k]
    <3>1. h \in [1 .. Len(<<>>) -> T] /\ Len(<<>>) = 0
      OBVIOUS
    <3>2. \A x : x \notin 1 .. 0
      OBVIOUS
    <3> QED
      BY <3>1, <3>2, Zenon DEF Gathered
  <2>4. Gathered(all, 1 .. token, touched, lasting)'
    <3>1. all' = <<>> /\ token' = 0 /\ touched' = lasting'
      BY <2>1
    <3>2. Gathered(all', 1 .. token', touched', lasting')
      BY <2>3, <3>1
    <3> QED
      BY <3>2, Zenon DEF Gathered
  <2>5. Registrations(server)' = Registrations(server)
    BY <2>1 DEF Registrations, Registered
  <2> QED
    BY <2>1, <2>2, <2>4, <2>5 DEF Paging
<1>4. SnapshotIsBracketed' /\ StatsAreTrue'
  BY PublishedStays DEF Begin
<1> QED
  BY <1>2, <1>3, <1>4 DEF IInv

\* PollOnce returns: its locals are gone, what it gathered with them.
LEMMA ReturnKeeps ==
    ASSUME Return
    PROVE  Paging'
BY DEF Return, Paging

\* PollOnce returns an error.
LEMMA FailKeeps ==
    ASSUME IInv, pc = "paging", Fail
    PROVE  IInv'
<1>1. TypeOK /\ Paging
  BY DEF IInv
<1>2. TypeOK'
  <2>1. pollErrors \in 0 .. MaxErrors /\ pollErrors < MaxErrors /\ pollErrors' = pollErrors + 1
    BY <1>1 DEF TypeOK, Paging, Fail
  <2>2. pollErrors' \in 0 .. MaxErrors
    BY <2>1, PollerConstants
  <2> QED
    BY <1>1, <2>2, PollerConstants DEF TypeOK, Fail, Return
<1>3. Paging'
  BY ReturnKeeps DEF Fail
<1>4. SnapshotIsBracketed' /\ StatsAreTrue'
  BY PublishedStays DEF Fail
<1> QED
  BY <1>2, <1>3, <1>4 DEF IInv

\* Another page follows: what was gathered so far, asked up to the next token.
LEMMA PageKeeps ==
    ASSUME IInv, pc = "paging", ~MustAbort,
           NEW sofar \in Seq(Entries), NEW next \in Tokens,
           NEW kept, kept \subseteq lasting,
           Gathered(sofar, 1 .. next, touched, kept),
           token' = next, pages' = pages + 1, seenTokens' = seenTokens \cup ({token} \ {0}),
           all' = sofar, lasting' = kept,
           UNCHANGED <<server, changes, pc, store, stats, pollErrors, touched, basis>>
    PROVE  IInv'
<1>1. TypeOK /\ Paging
  BY DEF IInv
<1>2. TypeOK'
  <2>1. pages \in 0 .. maxPollPages /\ pages < maxPollPages
    BY <1>1, PollerConstants DEF TypeOK, MustAbort
  <2>2. pages' \in 0 .. maxPollPages
    BY <2>1, PollerConstants
  <2>3. seenTokens' \subseteq Tokens
    BY <1>1 DEF TypeOK
  <2> QED
    BY <1>1, <2>2, <2>3 DEF TypeOK
<1>3. Paging'
  <2>1. /\ touched \subseteq Ids \X Entries /\ pollErrors < MaxErrors
        /\ Registrations(server) \subseteq touched /\ lasting \subseteq Registrations(server)
    BY <1>1 DEF Paging
  <2>2. Registrations(server)' = Registrations(server)
    BY DEF Registrations, Registered
  <2>3. Gathered(all, 1 .. token, touched, lasting)'
    BY DEF Gathered
  <2> QED
    BY <2>1, <2>2, <2>3 DEF Paging
<1>4. SnapshotIsBracketed' /\ StatsAreTrue'
  BY PublishedStays
<1> QED
  BY <1>2, <1>3, <1>4 DEF IInv

\* The last page: the snapshot is built and published.
LEMMA PublishKeeps ==
    ASSUME IInv, pc = "paging", NEW sofar \in Seq(Entries),
           Gathered(sofar, Ids, touched, lasting), Return,
           store' = BuildSnapshot(Declarations(sofar)).zoneOf,
           stats' = [f \in DOMAIN stats |-> BuildSnapshot(Declarations(sofar))[f]],
           pollErrors' = 0, basis' = [touched |-> touched, lasting |-> lasting]
    PROVE  IInv'
<1> DEFINE snap == BuildSnapshot(Declarations(sofar))
<1>1. TypeOK /\ Paging
  BY DEF IInv
<1>2. touched \in SUBSET (Ids \X Entries) /\ lasting \in SUBSET touched
  BY <1>1 DEF Paging
<1>3. /\ snap.zoneOf \in [Names -> Zones \cup {NoZone}]
      /\ snap.Names \in Nat /\ snap.Conflicts \in Nat /\ snap.Skipped \in Nat
      /\ Bracketed(snap.zoneOf, touched, lasting)
      /\ touched = lasting => Counted(snap, lasting)
  BY <1>2, SnapshotSays, Zenon
<1>4. store' = snap.zoneOf /\ stats' = [f \in DOMAIN stats |-> snap[f]]
  OBVIOUS
<1> HIDE DEF snap
<1>5. DOMAIN stats = {"Names", "Conflicts", "Skipped"}
  BY <1>1 DEF TypeOK
<1>6. /\ stats' \in [{"Names", "Conflicts", "Skipped"} -> Nat]
      /\ stats'.Names = snap.Names /\ stats'.Conflicts = snap.Conflicts
      /\ stats'.Skipped = snap.Skipped
  BY <1>3, <1>4, <1>5
<1>7. TypeOK'
  <2>1. /\ server' \in [Ids -> Entries \cup {NoEntry}] /\ changes' \in 0 .. MaxChanges
        /\ pc' = "idle" /\ pages' = 0 /\ token' = 0 /\ seenTokens' = {} /\ all' = <<>>
    BY <1>1 DEF TypeOK, Return
  <2>2. pages' \in 0 .. maxPollPages /\ pollErrors' \in 0 .. MaxErrors /\ all' \in Seq(Entries)
    BY <2>1, PollerConstants
  <2>3. store' \in [Names -> Zones \cup {NoZone}]
    BY <1>3, <1>4
  <2> QED
    BY <1>6, <2>1, <2>2, <2>3 DEF TypeOK
<1>8. Paging'
  BY ReturnKeeps
<1>9. basis.touched' = touched /\ basis.lasting' = lasting
  OBVIOUS
<1>10. SnapshotIsBracketed'
  BY <1>3, <1>4, <1>9, Zenon DEF SnapshotIsBracketed, Bracketed
<1>11. StatsAreTrue'
  BY <1>3, <1>6, <1>9, Zenon DEF StatsAreTrue, Counted
<1> QED
  BY <1>7, <1>8, <1>10, <1>11 DEF IInv

\* PollOnce takes a page of a server that pages as it should.
LEMMA FetchKeeps ==
    ASSUME IInv, Fetch
    PROVE  IInv'
<1> DEFINE next == NextToken(token)
<1>1. TypeOK /\ Paging /\ pc = "paging" /\ ~MustAbort
  BY DEF IInv, Fetch, TakePage
<1>2. PICK page \in ListEntries(token) :
        \/ /\ next = 0
           /\ Return
           /\ store' = BuildSnapshot(Declarations(all \o page)).zoneOf
           /\ stats' = [f \in DOMAIN stats |-> BuildSnapshot(Declarations(all \o page))[f]]
           /\ pollErrors' = 0
           /\ basis' = [touched |-> touched, lasting |-> lasting]
        \/ /\ next # 0
           /\ token' = next
           /\ pages' = pages + 1
           /\ seenTokens' = seenTokens \cup ({token} \ {0})
           /\ all' = all \o page
           /\ lasting' = lasting
           /\ UNCHANGED <<server, changes, pc, store, stats, pollErrors, touched, basis>>
  <2>1. TakePage(next, lasting)
    BY DEF Fetch
  <2> HIDE DEF next
  <2>2. CASE next = 0
    <3> DEFINE New(acc) == [f \in DOMAIN stats |-> BuildSnapshot(acc)[f]]
               Done(seq) == /\ Return
                            /\ store' = BuildSnapshot(Declarations(seq)).zoneOf
                            /\ stats' = New(Declarations(seq))
                            /\ pollErrors' = 0
                            /\ basis' = [touched |-> touched, lasting |-> lasting]
    <3>1. \E sofar \in {all \o page : page \in ListEntries(token)} :
             \E acc \in {Declarations(sofar)} :
                /\ Return /\ store' = BuildSnapshot(acc).zoneOf /\ stats' = New(acc)
                /\ pollErrors' = 0
                /\ basis' = [touched |-> touched, lasting |-> lasting]
      BY <2>1, <2>2, Zenon DEF TakePage
    <3> HIDE DEF New
    <3>2. \E page \in ListEntries(token) : Done(all \o page)
      BY <3>1, Zenon
    <3> QED
      BY <2>2, <3>2 DEF New
  <2>3. CASE next # 0
    BY <2>1, <2>3 DEF TakePage
  <2> QED
    BY <2>2, <2>3
<1> DEFINE sofar == all \o page
           asked == (1 .. token) \cup Page(token)
<1>3. sofar \in Seq(Entries) /\ Gathered(sofar, asked, touched, lasting)
  BY <1>1, CallGathers, Zenon
<1>4. token \in Nat /\ server \in [Ids -> Entries \cup {NoEntry}]
  BY <1>1, PollerConstants DEF TypeOK, Tokens
<1>5. touched \subseteq Ids \X Entries /\ lasting \subseteq Registrations(server)
  BY <1>1 DEF Paging
<1>6. \A id \in Ids : id \in Nat /\ id >= 1 /\ id \in Tokens
  BY PollerConstants DEF Ids, Tokens
<1>7. \A r \in lasting : r[1] \in Ids /\ (r[1] \in 1 .. token \/ r[1] \in After(token))
  <2>1. \A r \in lasting : r[1] \in Registered(server) /\ r[1] \in Ids
    BY <1>4, <1>5, RegistrationsAre DEF Registered
  <2>2. \A id \in Registered(server) : id \in Ids => id \in 1 .. token \/ id \in After(token)
    BY <1>4, <1>6 DEF After
  <2> QED
    BY <2>1, <2>2
<1>8. CASE next = 0
  <2>1. Page(token) = After(token)
    BY <1>4, <1>8, PagesAdvance
  <2>2. \A r \in lasting : r[1] \in Ids => r[1] \in asked
    BY <1>7, <2>1
  <2>3. \A r \in touched : r[1] \in asked => r[1] \in Ids
    BY <1>5
  <2> HIDE DEF asked, sofar
  <2>4. Gathered(sofar, Ids, touched, lasting)
    BY <1>3, <2>2, <2>3, GatheredElsewhere
  <2> QED
    BY <1>1, <1>2, <1>3, <1>8, <2>4, PublishKeeps, Zenon DEF sofar
<1>9. CASE next # 0
  <2>1. /\ next \in Ids /\ next > token
        /\ \A id \in After(token) : id \in Page(token) <=> id <= next
        /\ Page(token) \subseteq After(token)
    BY <1>4, <1>9, PagesAdvance
  <2> DEFINE upto == 1 .. next
  <2> HIDE DEF next
  <2>2. next \in Nat /\ next \in Tokens
    BY <1>6, <2>1
  <2>3. \A r \in lasting : r[1] \in upto => r[1] \in asked
    BY <1>7, <2>1, <2>2
  <2>4. \A id \in asked : id \in upto
    <3>1. \A id \in 1 .. token : id \in upto
      BY <1>4, <2>1, <2>2
    <3>2. \A id \in After(token) : id \in Nat /\ id >= 1
      BY <1>6 DEF After, Registered
    <3> QED
      BY <2>1, <2>2, <3>1, <3>2
  <2> HIDE DEF asked, upto
  <2>5. Gathered(sofar, upto, touched, lasting)
    BY <1>3, <2>3, <2>4, GatheredElsewhere
  <2>6. lasting \subseteq lasting
    OBVIOUS
  <2> QED
    BY <1>1, <1>2, <1>3, <1>9, <2>2, <2>5, <2>6, PageKeeps, Zenon DEF upto
<1> QED
  BY <1>8, <1>9

\* PollOnce takes a page that comes with a token of the server's choosing.
LEMMA FetchWrongTokenKeeps ==
    ASSUME IInv, FetchWrongToken
    PROVE  IInv'
<1>1. PICK next \in Tokens : TakePage(next, {})
  BY DEF FetchWrongToken
<1>2. TypeOK /\ Paging /\ pc = "paging" /\ ~MustAbort /\ next # 0
  BY <1>1, PollerConstants DEF IInv, TakePage, Tokens
<1>3. PICK page \in ListEntries(token) :
           /\ token' = next
           /\ pages' = pages + 1
           /\ seenTokens' = seenTokens \cup ({token} \ {0})
           /\ all' = all \o page
           /\ lasting' = {}
           /\ UNCHANGED <<server, changes, pc, store, stats, pollErrors, touched, basis>>
  BY <1>1, <1>2 DEF TakePage
<1> DEFINE sofar == all \o page
           asked == (1 .. token) \cup Page(token)
<1>4. sofar \in Seq(Entries) /\ Gathered(sofar, asked, touched, lasting)
  BY <1>2, CallGathers, Zenon
<1>5. Gathered(sofar, 1 .. next, touched, {})
  <2>1. PICK h \in [1 .. Len(sofar) -> touched] :
          \A k \in 1 .. Len(sofar) : sofar[k] = h[k][2] /\ sofar[k].path # NoId
    BY <1>4 DEF Gathered
  <2>2. touched = {} => \A k \in 1 .. Len(sofar) : FALSE
    BY <2>1
  <2> HIDE DEF sofar
  <2> QED
    BY <2>1, <2>2 DEF Gathered
<1>6. {} \subseteq lasting
  OBVIOUS
<1> HIDE DEF sofar
<1>7. all' = sofar
  BY <1>3 DEF sofar
<1> QED
  BY <1>2, <1>3, <1>4, <1>5, <1>6, <1>7, PageKeeps

(***************************************************************************)
(* The theorems.                                                           *)
(***************************************************************************)
\* Every step keeps the invariant.
LEMMA NextKeeps == IInv /\ [Next]_vars => IInv'
<1> SUFFICES ASSUME IInv, [Next]_vars PROVE IInv'
  OBVIOUS
<1>1. ASSUME NEW id \in Ids, Change(id) PROVE IInv'
  BY <1>1, ChangeKeeps
<1>2. CASE Begin
  BY <1>2, BeginKeeps
<1>3. CASE Fetch
  BY <1>3, FetchKeeps
<1>4. CASE FetchWrongToken
  BY <1>4, FetchWrongTokenKeeps
<1>5. CASE CallFails \/ Abort
  <2>1. pc = "paging" /\ Fail
    BY <1>5 DEF CallFails, Abort
  <2> QED
    BY <2>1, FailKeeps
<1>6. CASE UNCHANGED vars
  <2>1. UNCHANGED <<server, changes, pc, pages, token, seenTokens, all, store, stats,
                    pollErrors, touched, lasting, basis>>
    BY <1>6 DEF vars, localVars
  <2>2. TypeOK /\ Paging
    BY DEF IInv
  <2>3. TypeOK'
    BY <2>1, <2>2 DEF TypeOK
  <2>4. Paging'
    <3>1. Registrations(server)' = Registrations(server)
      BY <2>1 DEF Registrations, Registered
    <3>2. ASSUME Gathered(all, 1 .. token, touched, lasting)
          PROVE  Gathered(all, 1 .. token, touched, lasting)'
      <4>1. Gathered(all', 1 .. token', touched', lasting')
        BY <2>1, <3>2
      <4> QED
        BY <4>1, Zenon DEF Gathered
    <3> QED
      BY <2>1, <2>2, <3>1, <3>2 DEF Paging
  <2> QED
    BY <2>1, <2>3, <2>4, PublishedStays DEF IInv
<1> QED
  BY <1>1, <1>2, <1>3, <1>4, <1>5, <1>6 DEF Next, PollStep

\* At every moment of every poll PollOnce holds each registration that stayed
\* since the poll began and lies in the pages it asked for, and nothing that
\* was never registered.
THEOREM Invariance == Spec => []IInv
<1>1. Init => IInv
  BY InitHolds
<1>2. IInv /\ [Next]_vars => IInv'
  BY NextKeeps
<1> QED
  BY <1>1, <1>2, PTL DEF Spec

\* The variables of Poller and Store keep their types; PollOnce never asks for
\* more than maxPollPages pages.
THEOREM TypeCorrect == Spec => []TypeOK
<1>1. IInv => TypeOK
  BY DEF IInv
<1> QED
  BY <1>1, Invariance, PTL

\* What Store.Lookup answers from: a name resolves only to a zone it was
\* declared in during the poll, and to none it conflicts with; a name whose
\* declarations did not change and agree resolves.
THEOREM SnapshotsAreBracketed == Spec => []SnapshotIsBracketed
<1>1. IInv => SnapshotIsBracketed
  BY DEF IInv
<1> QED
  BY <1>1, Invariance, PTL

\* OnSnapshot's Stats count each name, conflict and skipped entry once.
THEOREM StatsAreAlwaysTrue == Spec => []StatsAreTrue
<1>1. IInv => StatsAreTrue
  BY DEF IInv
<1> QED
  BY <1>1, Invariance, PTL

\* A PollOnce that returns an error leaves the Store's snapshot, and no step
\* makes a ready Store unready.
THEOREM FailuresKeepSnapshot == Spec => FailureKeepsSnapshot
<1> DEFINE Kept == pollErrors' > pollErrors \/ store' = NotReady => store' = store
<1>1. ASSUME IInv, IInv', [Next]_vars PROVE [Kept]_vars
  <2>1. CASE store' = store
    BY <2>1
  <2>2. CASE store' # store
    <3>1. pollErrors \in Nat
      BY <1>1, PollerConstants DEF IInv, TypeOK
    <3>2. PICK seq \in Seq(Entries) :
              /\ store' = BuildSnapshot(Declarations(seq)).zoneOf
              /\ pollErrors' = 0
      <4>1. TypeOK /\ Paging
        BY <1>1 DEF IInv
      <4>2. pc = "paging" /\ (Fetch \/ FetchWrongToken)
        BY <1>1, <2>2, Zenon DEF Next, PollStep, Change, Begin, CallFails, Abort, Fail, Fetch,
                          FetchWrongToken, TakePage, vars
      <4>3. PICK page \in ListEntries(token) :
                /\ store' = BuildSnapshot(Declarations(all \o page)).zoneOf
                /\ pollErrors' = 0
        BY <2>2, <4>2, Zenon DEF Fetch, FetchWrongToken, TakePage
      <4>4. all \o page \in Seq(Entries)
        BY <4>1, <4>2, CallGathers
      <4> QED
        BY <4>3, <4>4, Zenon
    <3>3. store' # NotReady
      <4>1. BuildSnapshot(Declarations(seq)).zoneOf =
              [n \in Names |-> IF n \in Declarations(seq).conflicting
                               THEN NoZone ELSE Declarations(seq).zoneOf[n]]
        BY DEF BuildSnapshot
      <4>2. Declarations(seq) \in Accs
        BY DeclarationsMean DEF LoopInv
      <4>3. Declarations(seq).zoneOf \in [Names -> Zones \cup {NoZone}]
        BY <4>2 DEF Accs
      <4>4. store' \in [Names -> Zones \cup {NoZone}]
        BY <3>2, <4>1, <4>3
      <4> QED
        BY <4>4, PollerConstants
    <3> QED
      BY <3>1, <3>2, <3>3
  <2> QED
    BY <2>1, <2>2
<1> QED
  BY <1>1, Invariance, PTL DEF Spec, FailureKeepsSnapshot
=============================================================================
