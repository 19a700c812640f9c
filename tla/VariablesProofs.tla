--------------------------- MODULE VariablesProofs ---------------------------
(* Proofs about Variables.tla: between instructions the five lists are     *)
(* whole; no walk meets a freed variable as long as the instructions that  *)
(* remove before they solve get literals; and then the lists implement     *)
(* scopes that map names to values.                                        *)
EXTENDS Variables, SequenceTheorems, FiniteSetTheorems, TLAPS

HeapType(h) ==
    h \in [begin : [Lists -> Pointer], end : [Lists -> Pointer], size : [Lists -> Nat],
           next : [Nodes -> Pointer], prev : [Nodes -> Pointer],
           var : [Nodes -> [name : Names, value : Values] \union {Free}]]

Spots(h, l) == 1 .. h.size[l]

(* The variables of list l from begin to end are s[1], s[2], ...           *)
ListOf(h, l, s) ==
    /\ s \in [Spots(h, l) -> Live(h)]
    /\ \A i, j \in Spots(h, l) : i # j => h.var[s[i]].name # h.var[s[j]].name
    /\ IF h.size[l] = 0 THEN h.begin[l] = NULL /\ h.end[l] = NULL
       ELSE h.begin[l] = s[1] /\ h.end[l] = s[h.size[l]]
    /\ \A i \in Spots(h, l) : i < h.size[l] => h.next[s[i]] = s[i + 1] /\ h.prev[s[i + 1]] = s[i]

Closed(h, l, s) == h.size[l] # 0 => h.next[s[h.size[l]]] = NULL

(* The lists of the heap, all closed, but one whose last variable may have *)
(* been removed: then the new last one goes on pointing to freed memory.   *)
Laid(h, s, open) ==
    /\ HeapType(h) /\ DOMAIN s = Lists
    /\ \A l \in Lists : ListOf(h, l, s[l])
    /\ \A l \in Lists : \/ Closed(h, l, s[l])
                        \/ l = open /\ h.next[s[l][h.size[l]]] \in Nodes \ Live(h)
    /\ \A k, l \in Lists : \A i \in Spots(h, k), j \in Spots(h, l) : s[k][i] = s[l][j] => k = l
    /\ \A v \in Live(h) : \E l \in Lists : \E i \in Spots(h, l) : v = s[l][i]
    /\ \A v \in Nodes \ Live(h) : h.next[v] = NULL

Whole(h, s) == Laid(h, s, "none")
-----------------------------------------------------------------------------
LEMMA OrderIs ==
    /\ DOMAIN Order = 1 .. 5
    /\ Lists = {"frame", "head", "outer", "module", "global"}
    /\ "none" \notin Lists
<1>1. DOMAIN Order = 1 .. 5
  BY DEF Order
<1>2. \A l : l \in Lists <=> \E i \in 1 .. 5 : l = Order[i]
  BY <1>1 DEF Lists
<1>3. \A i \in 1 .. 5 : i = 1 \/ i = 2 \/ i = 3 \/ i = 4 \/ i = 5
  OBVIOUS
<1>4. /\ Order[1] = "frame" /\ Order[2] = "head" /\ Order[3] = "outer"
      /\ Order[4] = "module" /\ Order[5] = "global"
  BY DEF Order
<1>5. Lists = {"frame", "head", "outer", "module", "global"}
  BY <1>2, <1>3, <1>4
<1> QED BY <1>1, <1>5

(* Natural numbers have a least one.                                       *)
LEMMA Least ==
    ASSUME NEW S \in SUBSET Nat, S # {}
    PROVE  \E m \in S : \A n \in S : m <= n
<1> DEFINE R == {p \in Nat \X Nat : p[1] < p[2]}
<1>1. IsWellFoundedOn(R, Nat)
  BY NatLessThanWellFounded DEF OpToRel, IsWellFoundedOn
<1>2. PICK m \in S : \A n \in S : ~ (<<n, m>> \in R)
  BY <1>1, WFMin
<1>3. ASSUME NEW n \in S PROVE m <= n
  <2>1. m \in Nat /\ n \in Nat
    OBVIOUS
  <2>2. ~ (n < m)
    BY <1>2, <2>1
  <2> QED BY <2>1, <2>2
<1> QED BY <1>3

(* What holds at the end of a list and at a place whenever it holds at the *)
(* next one holds everywhere.                                              *)
LEMMA FromTheEnd ==
    ASSUME NEW m \in Nat, NEW T, m \in T, \A i \in 1 .. m : i < m /\ i + 1 \in T => i \in T
    PROVE  \A i \in 1 .. m : i \in T
<1> SUFFICES ASSUME NEW b \in 1 .. m, b \notin T PROVE FALSE
  OBVIOUS
<1> DEFINE bad == {d \in Nat : d <= m /\ m - d \in 1 .. m /\ m - d \notin T}
<1>1. m - b \in bad
  <2>1. m - b \in Nat /\ m - b <= m /\ m - (m - b) = b
    OBVIOUS
  <2> QED BY <2>1
<1>2. PICK d \in bad : \A e \in bad : d <= e
  BY <1>1, Least
<1>3. d # 0
  OBVIOUS
<1>4. d - 1 \in Nat /\ d - 1 <= m /\ m - (d - 1) = (m - d) + 1 /\ m - d < m
      /\ (m - d) + 1 \in 1 .. m /\ m - d \in 1 .. m
  BY <1>3
<1>5. (m - d) + 1 \in T
  BY <1>2, <1>4
<1> QED BY <1>4, <1>5
-----------------------------------------------------------------------------
(* The node a lookup of n that starts at place i of list l ends at.        *)
Outcome(h, s, n, l, i, w) ==
    \/ \E j \in Spots(h, l) : i <= j /\ h.var[s[l][j]].name = n /\ w = s[l][j]
    \/ /\ \A j \in Spots(h, l) : i <= j => h.var[s[l][j]].name # n
       /\ w = IF Closed(h, l, s[l]) THEN NULL ELSE Freed

LEMMA LaidFacts ==
    ASSUME NEW h, NEW s, NEW open, Laid(h, s, open), NEW l \in Lists
    PROVE  /\ h.size[l] \in Nat
           /\ \A i \in Spots(h, l) : s[l][i] \in Nodes /\ h.var[s[l][i]] # Free
           /\ \A i, j \in Spots(h, l) : i # j => h.var[s[l][i]].name # h.var[s[l][j]].name
           /\ \A i \in Spots(h, l) : i < h.size[l] =>
                 h.next[s[l][i]] = s[l][i + 1] /\ h.prev[s[l][i + 1]] = s[l][i]
           /\ h.size[l] # 0 => h.size[l] \in Spots(h, l) /\ 1 \in Spots(h, l)
           /\ \A k \in Lists : \A i \in Spots(h, k), j \in Spots(h, l) :
                 s[k][i] = s[l][j] => k = l /\ i = j
<1>1. /\ h.size[l] \in Nat /\ ListOf(h, l, s[l])
  BY DEF Laid, HeapType
<1>2. \A i \in Spots(h, l) : s[l][i] \in Live(h)
  BY <1>1 DEF ListOf
<1>3. /\ \A i, j \in Spots(h, l) : i # j => h.var[s[l][i]].name # h.var[s[l][j]].name
      /\ \A i \in Spots(h, l) : i < h.size[l] =>
                 h.next[s[l][i]] = s[l][i + 1] /\ h.prev[s[l][i + 1]] = s[l][i]
  BY <1>1 DEF ListOf
<1>4. h.size[l] # 0 => h.size[l] \in Spots(h, l) /\ 1 \in Spots(h, l)
  BY <1>1 DEF Spots
<1>5. ASSUME NEW k \in Lists, NEW i \in Spots(h, k), NEW j \in Spots(h, l), s[k][i] = s[l][j]
      PROVE  k = l /\ i = j
  <2>1. k = l
    BY <1>5 DEF Laid
  <2> QED BY <1>3, <1>5, <2>1
<1> QED BY <1>1, <1>2, <1>3, <1>4, <1>5 DEF Live

LEMMA OutcomeSteps ==
    ASSUME NEW h, NEW s, NEW open, Laid(h, s, open), NEW n, NEW l \in Lists, NEW i \in Spots(h, l), NEW w
    PROVE  /\ h.var[s[l][i]].name = n => (Outcome(h, s, n, l, i, w) <=> w = s[l][i])
           /\ h.var[s[l][i]].name # n /\ i < h.size[l] =>
                 i + 1 \in Spots(h, l) /\ (Outcome(h, s, n, l, i, w) <=> Outcome(h, s, n, l, i + 1, w))
           /\ h.var[s[l][i]].name # n /\ i = h.size[l] =>
                 (Outcome(h, s, n, l, i, w) <=> w = IF Closed(h, l, s[l]) THEN NULL ELSE Freed)
<1>1. /\ h.size[l] \in Nat /\ Spots(h, l) = 1 .. h.size[l]
      /\ \A j, k \in Spots(h, l) : j # k => h.var[s[l][j]].name # h.var[s[l][k]].name
  BY LaidFacts DEF Spots
<1>2. \A j \in Spots(h, l) : (i <= j) <=> (j = i \/ i + 1 <= j)
  BY <1>1
<1>3. i = h.size[l] => \A j \in Spots(h, l) : i <= j => j = i
  BY <1>1
<1>4. i < h.size[l] => i + 1 \in Spots(h, l)
  BY <1>1
<1>5. i <= i
  BY <1>1
<1> QED BY <1>1, <1>2, <1>3, <1>4, <1>5 DEF Outcome

(* There is one outcome.                                                   *)
LEMMA OutcomeIsOne ==
    ASSUME NEW h, NEW s, NEW open, Laid(h, s, open), NEW n, NEW l \in Lists, NEW i \in Spots(h, l)
    PROVE  /\ \E w : Outcome(h, s, n, l, i, w)
           /\ \A w, x : Outcome(h, s, n, l, i, w) /\ Outcome(h, s, n, l, i, x) => w = x
<1>1. \A j, k \in Spots(h, l) : j # k => h.var[s[l][j]].name # h.var[s[l][k]].name
  BY LaidFacts
<1> QED BY <1>1 DEF Outcome

(* The lookup ends where the list says.                                    *)
LEMMA LookupEnds ==
    ASSUME NEW h, NEW s, NEW open, Laid(h, s, open), NEW n \in Names, NEW l \in Lists
    PROVE  /\ h.size[l] = 0 => Lookup(h, l, n) = NULL
           /\ h.size[l] # 0 => Outcome(h, s, n, l, 1, Lookup(h, l, n))
<1> DEFINE Body(f, v) ==
              IF v = NULL THEN NULL
              ELSE CASE h.var[v] = Free    -> Freed
                     [] h.var[v].name = n  -> v
                     [] OTHER              -> f[h.next[v]]
           F == CHOOSE f : f = [v \in Nodes \union {NULL} |->
                                   IF v = NULL THEN NULL
                                   ELSE CASE h.var[v] = Free    -> Freed
                                          [] h.var[v].name = n  -> v
                                          [] OTHER              -> f[h.next[v]]]
           at(v, w) == \E k \in Lists : \E i \in Spots(h, k) : v = s[k][i] /\ Outcome(h, s, n, k, i, w)
           g == [v \in Nodes \union {NULL} |->
                   IF v = NULL THEN NULL ELSE IF h.var[v] = Free THEN Freed ELSE CHOOSE w : at(v, w)]
<1>1. /\ \A v \in Nodes : h.next[v] \in Nodes \union {NULL}
      /\ \A v \in Nodes : h.var[v] = Free => h.var[v].name # n
      /\ NULL \notin Nodes
      /\ \A v \in Nodes : h.var[v] # Free =>
            \E k \in Lists : \E i \in Spots(h, k) : v = s[k][i]
  BY VariablesAssumption DEF Laid, HeapType, Pointer, Free, Live
<1>2. ASSUME NEW k \in Lists, NEW i \in Spots(h, k)
      PROVE  /\ s[k][i] \in Nodes /\ h.var[s[k][i]] # Free /\ s[k][i] # NULL
             /\ \A w : at(s[k][i], w) <=> Outcome(h, s, n, k, i, w)
             /\ \A w : Outcome(h, s, n, k, i, w) <=> w = g[s[k][i]]
  <2>1. s[k][i] \in Nodes /\ h.var[s[k][i]] # Free /\ s[k][i] # NULL
    BY <1>1, LaidFacts
  <2>2. \A m \in Lists : \A j \in Spots(h, m) : s[k][i] = s[m][j] => k = m /\ i = j
    BY LaidFacts
  <2>3. \A w : at(s[k][i], w) <=> Outcome(h, s, n, k, i, w)
    BY <2>2
  <2>4. /\ \E w : Outcome(h, s, n, k, i, w)
        /\ \A w, x : Outcome(h, s, n, k, i, w) /\ Outcome(h, s, n, k, i, x) => w = x
    BY OutcomeIsOne
  <2>5. g[s[k][i]] = CHOOSE w : at(s[k][i], w)
    BY <2>1
  <2> HIDE DEF at, g
  <2>6. at(s[k][i], g[s[k][i]])
    BY <2>3, <2>4, <2>5
  <2> QED BY <2>1, <2>3, <2>4, <2>6
<1>3. g[NULL] = NULL /\ \A v \in Nodes : h.var[v] = Free => g[v] = Freed
  BY <1>1
<1>g. DOMAIN g = Nodes \union {NULL} /\ g = [v \in Nodes \union {NULL} |-> g[v]]
  OBVIOUS
<1> HIDE DEF g, at
<1>4. ASSUME NEW k \in Lists, NEW i \in Spots(h, k), i = h.size[k]
      PROVE  (IF Closed(h, k, s[k]) THEN NULL ELSE Freed) = g[h.next[s[k][i]]]
  <2>0. h.size[k] # 0
    BY <1>4, LaidFacts DEF Spots
  <2>1. CASE Closed(h, k, s[k])
    BY <1>3, <1>4, <2>0, <2>1 DEF Closed
  <2>2. CASE ~Closed(h, k, s[k])
    <3>1. h.next[s[k][i]] \in Nodes \ Live(h)
      BY <1>4, <2>2 DEF Laid
    <3> QED BY <1>3, <2>2, <3>1 DEF Live
  <2> QED BY <2>1, <2>2
<1>5. ASSUME NEW v \in Nodes \union {NULL} PROVE g[v] = Body(g, v)
  <2>1. CASE v = NULL
    BY <1>3, <2>1
  <2>2. CASE v \in Nodes /\ h.var[v] = Free
    BY <1>1, <1>3, <2>2
  <2>3. ASSUME v \in Nodes, h.var[v] # Free, h.var[v].name = n PROVE g[v] = v
    <3>1. PICK k \in Lists : \E i \in Spots(h, k) : v = s[k][i]
      BY <1>1, <2>3
    <3>2. PICK i \in Spots(h, k) : v = s[k][i]
      BY <3>1
    <3>3. Outcome(h, s, n, k, i, v)
      BY <2>3, <3>2, OutcomeSteps
    <3> QED BY <1>2, <3>2, <3>3
  <2>4. ASSUME v \in Nodes, h.var[v] # Free, h.var[v].name # n PROVE g[v] = g[h.next[v]]
    <3>1. PICK k \in Lists : \E i \in Spots(h, k) : v = s[k][i]
      BY <1>1, <2>4
    <3>2. PICK i \in Spots(h, k) : v = s[k][i]
      BY <3>1
    <3>3. CASE i < h.size[k]
      <4>1. i + 1 \in Spots(h, k) /\ h.next[v] = s[k][i + 1]
            /\ \A w : Outcome(h, s, n, k, i, w) <=> Outcome(h, s, n, k, i + 1, w)
        BY <2>4, <3>2, <3>3, OutcomeSteps, LaidFacts
      <4>2. Outcome(h, s, n, k, i + 1, g[h.next[v]])
        BY <1>2, <4>1
      <4> QED BY <1>2, <3>2, <4>1, <4>2
    <3>4. CASE i = h.size[k]
      <4>1. PICK w : w = IF Closed(h, k, s[k]) THEN NULL ELSE Freed
        OBVIOUS
      <4>2. Outcome(h, s, n, k, i, w)
        BY <2>4, <3>2, <3>4, <4>1, OutcomeSteps
      <4>3. w = g[h.next[v]]
        BY <1>4, <3>2, <3>4, <4>1
      <4> QED BY <1>2, <3>2, <4>2, <4>3
    <3>5. i < h.size[k] \/ i = h.size[k]
      BY LaidFacts DEF Spots
    <3> QED BY <3>3, <3>4, <3>5
  <2>5. CASE v \in Nodes /\ h.var[v] # Free /\ h.var[v].name = n
    BY <1>1, <2>3, <2>5
  <2>6. CASE v \in Nodes /\ h.var[v] # Free /\ h.var[v].name # n
    BY <1>1, <2>4, <2>6
  <2> QED BY <2>1, <2>2, <2>5, <2>6
<1>6. g = [v \in Nodes \union {NULL} |-> Body(g, v)]
  BY <1>5, <1>g
<1>7. F = [v \in Nodes \union {NULL} |-> Body(F, v)]
  BY <1>6
<1>8. Lookup(h, l, n) = F[h.begin[l]]
  BY DEF Lookup
<1>9. \A v \in Nodes \union {NULL} : F[v] = Body(F, v)
  <2> HIDE DEF F, Body
  <2> QED BY <1>7
<1> HIDE DEF F
<1>10. h.size[l] \in Nat /\ ListOf(h, l, s[l])
  <2>1. h.size[l] \in Nat
    BY LaidFacts
  <2> QED BY <2>1 DEF Laid
<1>11. CASE h.size[l] = 0
  BY <1>8, <1>9, <1>10, <1>11 DEF ListOf
<1>12. CASE h.size[l] # 0
  <2> DEFINE T == {i \in Spots(h, l) : Outcome(h, s, n, l, i, F[s[l][i]])}
  <2>0. h.size[l] \in Spots(h, l) /\ 1 \in Spots(h, l)
    BY <1>12, LaidFacts
  <2>1. ASSUME NEW i \in Spots(h, l), h.var[s[l][i]].name = n PROVE i \in T
    <3>1. F[s[l][i]] = s[l][i]
      BY <1>1, <1>2, <1>9, <2>1
    <3> QED BY <2>1, <3>1, OutcomeSteps
  <2>2. ASSUME NEW i \in Spots(h, l), h.var[s[l][i]].name # n PROVE F[s[l][i]] = F[h.next[s[l][i]]]
    BY <1>1, <1>2, <1>9, <2>2
  <2>3. h.size[l] \in T
    <3> DEFINE i == h.size[l]
    <3>1. CASE h.var[s[l][i]].name = n
      BY <2>0, <2>1, <3>1
    <3>2. CASE h.var[s[l][i]].name # n
      <4>1. F[s[l][i]] = F[h.next[s[l][i]]]
        BY <2>0, <2>2, <3>2
      <4>2. h.next[s[l][i]] = IF Closed(h, l, s[l]) THEN NULL ELSE h.next[s[l][i]]
        BY <1>12 DEF Closed
      <4>3. ~Closed(h, l, s[l]) => h.next[s[l][i]] \in Nodes /\ h.var[h.next[s[l][i]]] = Free
        BY DEF Laid, Live
      <4>4. F[s[l][i]] = IF Closed(h, l, s[l]) THEN NULL ELSE Freed
        BY <1>1, <1>9, <4>1, <4>2, <4>3
      <4> QED BY <2>0, <3>2, <4>4, OutcomeSteps
    <3> QED BY <3>1, <3>2
  <2>4. ASSUME NEW i \in Spots(h, l), i < h.size[l], i + 1 \in T PROVE i \in T
    <3>1. CASE h.var[s[l][i]].name = n
      BY <2>1, <3>1
    <3>2. CASE h.var[s[l][i]].name # n
      <4>1. F[s[l][i]] = F[s[l][i + 1]]
        BY <2>2, <2>4, <3>2, LaidFacts
      <4>2. Outcome(h, s, n, l, i + 1, F[s[l][i]])
        BY <2>4, <4>1
      <4> QED BY <2>4, <3>2, <4>2, OutcomeSteps
    <3> QED BY <3>1, <3>2
  <2>5. \A i \in 1 .. h.size[l] : i \in T
    <3> HIDE DEF T
    <3> QED BY <1>10, <2>3, <2>4, FromTheEnd DEF Spots
  <2>6. h.begin[l] = s[l][1]
    BY <1>10, <1>12 DEF ListOf
  <2> QED BY <1>8, <1>12, <2>0, <2>5, <2>6 DEF Spots
<1> QED BY <1>11, <1>12

LEMMA LookupSays ==
    ASSUME NEW h, NEW s, NEW open, Laid(h, s, open), NEW n \in Names, NEW l \in Lists
    PROVE  /\ \A j \in Spots(h, l) : h.var[s[l][j]].name = n => Lookup(h, l, n) = s[l][j]
           /\ (\A j \in Spots(h, l) : h.var[s[l][j]].name # n) =>
                 Lookup(h, l, n) = IF Closed(h, l, s[l]) THEN NULL ELSE Freed
<1>1. h.size[l] \in Nat
  BY LaidFacts
<1>2. CASE h.size[l] = 0
  BY <1>2, LookupEnds DEF Spots, Closed
<1>3. CASE h.size[l] # 0
  <2>1. Outcome(h, s, n, l, 1, Lookup(h, l, n))
    BY <1>3, LookupEnds
  <2>2. \A j \in Spots(h, l) : 1 <= j
    BY <1>1 DEF Spots
  <2>3. \A i, j \in Spots(h, l) : i # j => h.var[s[l][i]].name # h.var[s[l][j]].name
    BY LaidFacts
  <2> QED BY <2>1, <2>2, <2>3 DEF Outcome
<1> QED BY <1>2, <1>3

(* A lookup in a whole list finds the variable of the name, if there is    *)
(* one.                                                                    *)
LEMMA WholeLookup ==
    ASSUME NEW h, NEW s, Whole(h, s), NEW n \in Names, NEW l \in Lists
    PROVE  \/ /\ Lookup(h, l, n) = NULL
              /\ \A j \in Spots(h, l) : h.var[s[l][j]].name # n
           \/ \E j \in Spots(h, l) : /\ Lookup(h, l, n) = s[l][j] /\ h.var[s[l][j]].name = n
                                     /\ s[l][j] \in Nodes /\ s[l][j] # NULL /\ h.var[s[l][j]] # Free
<1>1. Closed(h, l, s[l])
  BY OrderIs DEF Whole, Laid
<1>2. \A j \in Spots(h, l) : s[l][j] \in Nodes /\ s[l][j] # NULL /\ h.var[s[l][j]] # Free
  BY LaidFacts, VariablesAssumption DEF Whole
<1>3. /\ \A j \in Spots(h, l) : h.var[s[l][j]].name = n => Lookup(h, l, n) = s[l][j]
      /\ (\A j \in Spots(h, l) : h.var[s[l][j]].name # n) => Lookup(h, l, n) = NULL
  BY <1>1, LookupSays DEF Whole
<1> QED BY <1>2, <1>3

(* As many values as places, when no two places have the same.             *)
LEMMA Different ==
    ASSUME NEW m \in Nat, NEW f, \A i, j \in 1 .. m : f[i] = f[j] => i = j
    PROVE  LET met == {f[i] : i \in 1 .. m}
           IN  IsFiniteSet(met) /\ Cardinality(met) = m
<1> DEFINE met == {f[i] : i \in 1 .. m}
           g == [i \in 1 .. m |-> f[i]]
<1>1. g \in Bijection(1 .. m, met)
  <2>1. g \in [1 .. m -> met]
    OBVIOUS
  <2>2. \A v \in met : \E i \in 1 .. m : g[i] = v
    OBVIOUS
  <2>3. \A i, j \in 1 .. m : g[i] = g[j] => i = j
    OBVIOUS
  <2> QED BY <2>1, <2>2, <2>3 DEF Bijection, Injection, Surjection, IsInjective
<1>2. IsFiniteSet(1 .. m) /\ Cardinality(1 .. m) = m
  <2>1. \A a, b \in Int : IsFiniteSet(a .. b) /\ Cardinality(a .. b) = IF a > b THEN 0 ELSE b - a + 1
    BY FS_Interval
  <2> QED BY <2>1
<1> QED BY <1>1, <1>2, FS_Bijection DEF ExistsBijection

(* A list is no longer than there are nodes.                               *)
LEMMA ListFits ==
    ASSUME NEW h, NEW s, NEW open, Laid(h, s, open), NEW l \in Lists
    PROVE  LET met == {s[l][i] : i \in 1 .. h.size[l]}
           IN  /\ IsFiniteSet(met) /\ Cardinality(met) = h.size[l]
               /\ met \subseteq Nodes /\ h.size[l] <= Cardinality(Nodes)
<1> DEFINE met == {s[l][i] : i \in 1 .. h.size[l]}
<1>1. h.size[l] \in Nat /\ Spots(h, l) = 1 .. h.size[l]
  BY LaidFacts DEF Spots
<1>2. \A i \in 1 .. h.size[l] : s[l][i] \in Nodes
  BY <1>1, LaidFacts
<1>3. \A i, j \in 1 .. h.size[l] : s[l][i] = s[l][j] => i = j
  BY <1>1, LaidFacts
<1>4. IsFiniteSet(met) /\ Cardinality(met) = h.size[l]
  BY <1>1, <1>3, Different
<1>5. met \subseteq Nodes
  BY <1>2
<1>6. Cardinality(met) <= Cardinality(Nodes)
  BY <1>5, FS_Subset, VariablesAssumption
<1> QED BY <1>4, <1>5, <1>6

(* A walk through a whole list meets its variables in their order, and     *)
(* then NULL.                                                              *)
LEMMA WalkIs ==
    ASSUME NEW h, NEW s, Whole(h, s), NEW l \in Lists
    PROVE  /\ DOMAIN Walk(h, l) = 0 .. Cardinality(Nodes)
           /\ \A k \in 0 .. Cardinality(Nodes) :
                 Walk(h, l)[k] = IF k < h.size[l] THEN s[l][k + 1] ELSE NULL
<1> DEFINE N == Cardinality(Nodes)
           Body(f, k) == IF k = 0 THEN h.begin[l]
                         ELSE IF f[k - 1] # NULL /\ h.var[f[k - 1]] # Free THEN h.next[f[k - 1]] ELSE NULL
           F == CHOOSE f : f = [k \in 0 .. Cardinality(Nodes) |->
                                  IF k = 0 THEN h.begin[l]
                                  ELSE IF f[k - 1] # NULL /\ h.var[f[k - 1]] # Free
                                       THEN h.next[f[k - 1]] ELSE NULL]
           z == h.size[l]
           g == [k \in 0 .. N |-> IF k < z THEN s[l][k + 1] ELSE NULL]
<1>1. N \in Nat /\ z \in Nat /\ z <= N
  BY FS_CardinalityType, VariablesAssumption, LaidFacts, ListFits DEF Whole
<1>2. /\ \A i \in 1 .. z : s[l][i] # NULL /\ h.var[s[l][i]] # Free
      /\ \A i \in 1 .. z : i < z => h.next[s[l][i]] = s[l][i + 1]
  BY <1>1, LaidFacts, VariablesAssumption DEF Whole, Spots
<1>3. /\ z # 0 => h.begin[l] = s[l][1] /\ h.next[s[l][z]] = NULL
      /\ z = 0 => h.begin[l] = NULL
  <2>1. Closed(h, l, s[l]) /\ ListOf(h, l, s[l])
    BY OrderIs DEF Whole, Laid
  <2> QED BY <2>1 DEF Closed, ListOf
<1>4. ASSUME NEW k \in 0 .. N PROVE g[k] = Body(g, k)
  <2>1. CASE k = 0
    BY <1>1, <1>3, <2>1
  <2>2. CASE k # 0
    <3>1. k - 1 \in 0 .. N /\ (k - 1) + 1 = k /\ g[k - 1] = IF k - 1 < z THEN s[l][k] ELSE NULL
      BY <1>1, <2>2
    <3>2. CASE k - 1 < z
      <4>1. k \in 1 .. z /\ g[k - 1] = s[l][k] /\ g[k - 1] # NULL /\ h.var[g[k - 1]] # Free
        BY <1>1, <1>2, <2>2, <3>1, <3>2
      <4>2. h.next[s[l][k]] = IF k < z THEN s[l][k + 1] ELSE NULL
        BY <1>1, <1>2, <1>3, <4>1
      <4> QED BY <2>2, <4>1, <4>2
    <3>3. CASE ~ (k - 1 < z)
      BY <1>1, <2>2, <3>1, <3>3
    <3> QED BY <3>2, <3>3
  <2> QED BY <2>1, <2>2
<1>5. g = [k \in 0 .. N |-> Body(g, k)]
  <2>1. g = [k \in 0 .. N |-> g[k]]
    OBVIOUS
  <2> HIDE DEF g, Body
  <2> QED BY <1>4, <2>1
<1>6. F = [k \in 0 .. N |-> Body(F, k)]
  <2> HIDE DEF g
  <2> QED BY <1>5
<1>7. Walk(h, l) = F
  BY DEF Walk
<1>8. DOMAIN F = 0 .. N /\ \A k \in 0 .. N : F[k] = Body(F, k)
  <2> HIDE DEF F, Body
  <2> QED BY <1>6
<1> HIDE DEF F
<1>9. ASSUME NEW b \in 0 .. N, F[b] # g[b] PROVE FALSE
  <2> DEFINE bad == {k \in 0 .. N : F[k] # g[k]}
  <2>0. b \in bad
    BY <1>9
  <2>1. PICK m \in bad : \A k \in bad : m <= k
    <3> HIDE DEF g
    <3>1. bad \in SUBSET Nat /\ bad # {}
      BY <1>1, <2>0
    <3> QED BY <3>1, Least
  <2>2. CASE m = 0
    BY <1>4, <1>8, <2>1, <2>2
  <2>3. CASE m # 0
    <3>1. m - 1 \in 0 .. N /\ ~ (m <= m - 1)
      BY <1>1, <2>1, <2>3
    <3> HIDE DEF g
    <3>2. F[m - 1] = g[m - 1]
      BY <2>1, <3>1
    <3> QED BY <1>4, <1>8, <2>1, <2>3, <3>2
  <2> QED BY <2>2, <2>3
<1> QED BY <1>7, <1>8, <1>9
-----------------------------------------------------------------------------
(* What a removal of the j-th variable of a list does to the fields.       *)
Cut(h, s, l, j, g) ==
    LET z == h.size[l]
        v == s[l][j]
    IN  /\ HeapType(g)
        /\ g.size = [h.size EXCEPT ![l] = z - 1]
        /\ g.var = [h.var EXCEPT ![v] = Free]
        /\ g.begin = [h.begin EXCEPT ![l] = IF z = 1 THEN NULL ELSE IF j = 1 THEN s[l][2] ELSE @]
        /\ g.end = [h.end EXCEPT ![l] = IF z = 1 THEN NULL
                                        ELSE IF j = z /\ j # 1 THEN s[l][z - 1] ELSE @]
        /\ g.next[v] = NULL
        /\ \A w \in Nodes : w # v =>
              /\ g.next[w] = IF 1 < j /\ j < z /\ w = s[l][j - 1] THEN s[l][j + 1] ELSE h.next[w]
              /\ g.prev[w] = IF 1 < j /\ j < z /\ w = s[l][j + 1] THEN s[l][j - 1] ELSE h.prev[w]

LEMMA Unlinked ==
    ASSUME NEW h, NEW s, Whole(h, s), NEW l \in Lists, NEW j \in Spots(h, l)
    PROVE  Cut(h, s, l, j, ListRemove(h, l, s[l][j]))
<1> DEFINE z == h.size[l]
           v == s[l][j]
           d == [Destroy(h, v) EXCEPT !.size[l] = @ - 1]
           g == ListRemove(h, l, v)
<1>1. /\ HeapType(h) /\ z \in Nat /\ z # 0 /\ 1 <= j /\ j <= z /\ j \in Int
      /\ v \in Nodes /\ v # NULL
      /\ NULL \in Pointer /\ \A w \in Nodes : w \in Pointer
  <2>0. HeapType(h)
    BY DEF Whole, Laid
  <2>1. HeapType(h) /\ z \in Nat /\ v \in Nodes
    BY <2>0, LaidFacts DEF Whole
  <2>2. z # 0 /\ 1 <= j /\ j <= z /\ j \in Int
    BY <2>1 DEF Spots
  <2> QED BY <2>1, <2>2, VariablesAssumption DEF Pointer
<1>2. /\ h.begin[l] = s[l][1] /\ h.end[l] = s[l][z]
      /\ (v = h.begin[l] <=> j = 1) /\ (v = h.end[l] <=> j = z)
  <2>1. h.begin[l] = s[l][1] /\ h.end[l] = s[l][z]
    BY <1>1 DEF Whole, Laid, ListOf
  <2>2. 1 \in Spots(h, l) /\ z \in Spots(h, l)
    BY <1>1, LaidFacts DEF Whole
  <2>3. \A i \in Spots(h, l) : s[l][i] = v <=> i = j
    BY LaidFacts DEF Whole
  <2> QED BY <2>1, <2>2, <2>3
<1>3. /\ 1 < j => h.prev[v] = s[l][j - 1] /\ s[l][j - 1] \in Nodes /\ s[l][j - 1] # v
      /\ j < z => h.next[v] = s[l][j + 1] /\ s[l][j + 1] \in Nodes /\ s[l][j + 1] # v
  <2>1. /\ \A i \in 1 .. z : s[l][i] \in Nodes
        /\ \A i \in 1 .. z : i < z => h.next[s[l][i]] = s[l][i + 1] /\ h.prev[s[l][i + 1]] = s[l][i]
        /\ \A i, k \in 1 .. z : s[l][i] = s[l][k] => i = k
    BY LaidFacts DEF Whole, Spots
  <2>2. 1 < j => j - 1 \in 1 .. z /\ j - 1 < z /\ (j - 1) + 1 = j
    BY <1>1
  <2>3. j < z => j + 1 \in 1 .. z /\ j \in 1 .. z
    BY <1>1
  <2> QED BY <1>1, <2>1, <2>2, <2>3
<1>4. /\ h.size \in [Lists -> Nat] /\ h.begin \in [Lists -> Pointer] /\ h.end \in [Lists -> Pointer]
      /\ h.next \in [Nodes -> Pointer] /\ h.prev \in [Nodes -> Pointer]
      /\ h.var \in [Nodes -> [name : Names, value : Values] \union {Free}]
      /\ h = [begin |-> h.begin, end |-> h.end, size |-> h.size, next |-> h.next,
              prev |-> h.prev, var |-> h.var]
  BY <1>1 DEF HeapType
<1>5. /\ d.begin = h.begin /\ d.end = h.end /\ d.size = [h.size EXCEPT ![l] = z - 1]
      /\ d.next = [h.next EXCEPT ![v] = NULL] /\ d.prev = [h.prev EXCEPT ![v] = NULL]
      /\ d.var = [h.var EXCEPT ![v] = Free]
      /\ d = [begin |-> d.begin, end |-> d.end, size |-> d.size, next |-> d.next,
              prev |-> d.prev, var |-> d.var]
  <2> HIDE DEF v
  <2>1. Destroy(h, v) = [begin |-> h.begin, end |-> h.end, size |-> h.size,
                         next |-> [h.next EXCEPT ![v] = NULL], prev |-> [h.prev EXCEPT ![v] = NULL],
                         var |-> [h.var EXCEPT ![v] = Free]]
    <3>1. PICK a, b, c, e, f, i : h = [begin |-> a, end |-> b, size |-> c, next |-> e, prev |-> f,
                                       var |-> i]
      BY <1>4
    <3>2. Destroy(h, v) = [[h EXCEPT !.var[v] = Free, !.next[v] = NULL] EXCEPT !.prev[v] = NULL]
      BY DEF Destroy
    <3> QED BY <3>1, <3>2
  <2>2. d = [Destroy(h, v) EXCEPT !.size = [h.size EXCEPT ![l] = z - 1]]
    BY <1>4, <2>1
  <2>3. d = [begin |-> h.begin, end |-> h.end, size |-> [h.size EXCEPT ![l] = z - 1],
             next |-> [h.next EXCEPT ![v] = NULL], prev |-> [h.prev EXCEPT ![v] = NULL],
             var |-> [h.var EXCEPT ![v] = Free]]
    BY <2>1, <2>2
  <2> HIDE DEF d
  <2> QED BY <2>3
<1> HIDE DEF d, v
<1>6. g = IF z = 1 THEN [d EXCEPT !.begin[l] = NULL, !.end[l] = NULL]
          ELSE CASE v = h.begin[l] -> [d EXCEPT !.begin[l] = h.next[v]]
               [] v = h.end[l]     -> [d EXCEPT !.end[l] = h.prev[v]]
               [] OTHER            -> [d EXCEPT !.next[h.prev[v]] = h.next[v],
                                                !.prev[h.next[v]] = h.prev[v]]
  BY DEF ListRemove, d, v
<1> HIDE DEF g
<1> DEFINE Says ==
       /\ g.size = d.size /\ g.var = d.var
       /\ g.begin = [h.begin EXCEPT ![l] = IF z = 1 THEN NULL ELSE IF j = 1 THEN s[l][2] ELSE @]
       /\ g.end = [h.end EXCEPT ![l] = IF z = 1 THEN NULL
                                       ELSE IF j = z /\ j # 1 THEN s[l][z - 1] ELSE @]
       /\ g.next = IF 1 < j /\ j < z THEN [d.next EXCEPT ![s[l][j - 1]] = s[l][j + 1]] ELSE d.next
       /\ g.prev = IF 1 < j /\ j < z THEN [d.prev EXCEPT ![s[l][j + 1]] = s[l][j - 1]] ELSE d.prev
       /\ g = [begin |-> g.begin, end |-> g.end, size |-> g.size, next |-> g.next,
               prev |-> g.prev, var |-> g.var]
<1>7. ASSUME z = 1 PROVE Says
  <2>1. g = [d EXCEPT !.begin[l] = NULL, !.end[l] = NULL] /\ j = 1
    BY <1>1, <1>6, <1>7
  <2>2. g = [begin |-> [h.begin EXCEPT ![l] = NULL], end |-> [h.end EXCEPT ![l] = NULL],
             size |-> d.size, next |-> d.next, prev |-> d.prev, var |-> d.var]
    BY <1>5, <2>1
  <2>3. g.begin = [h.begin EXCEPT ![l] = NULL] /\ g.end = [h.end EXCEPT ![l] = NULL]
        /\ g.size = d.size /\ g.next = d.next /\ g.prev = d.prev /\ g.var = d.var
        /\ g = [begin |-> g.begin, end |-> g.end, size |-> g.size, next |-> g.next,
                prev |-> g.prev, var |-> g.var]
    BY <2>2
  <2> HIDE DEF z
  <2> QED BY <1>7, <2>1, <2>3
<1>8. ASSUME z # 1 /\ j = 1 PROVE Says
  <2>1. g = [d EXCEPT !.begin[l] = s[l][2]] /\ j < z
    BY <1>1, <1>2, <1>3, <1>6, <1>8
  <2>2. [h.end EXCEPT ![l] = @] = h.end
    BY <1>4
  <2> QED BY <1>1, <1>5, <1>8, <2>1, <2>2
<1>9. ASSUME z # 1 /\ j # 1 /\ j = z PROVE Says
  <2>1. g = [d EXCEPT !.end[l] = s[l][z - 1]] /\ 1 < j
    BY <1>1, <1>2, <1>3, <1>6, <1>9
  <2>2. [h.begin EXCEPT ![l] = @] = h.begin
    BY <1>4
  <2> QED BY <1>1, <1>5, <1>9, <2>1, <2>2
<1>10. ASSUME z # 1 /\ j # 1 /\ j # z PROVE Says
  <2>0. 1 < j /\ j < z
    BY <1>1, <1>10
  <2>1. g = [d EXCEPT !.next[s[l][j - 1]] = s[l][j + 1], !.prev[s[l][j + 1]] = s[l][j - 1]]
    BY <1>2, <1>3, <1>6, <1>10, <2>0
  <2>2. [h.begin EXCEPT ![l] = @] = h.begin /\ [h.end EXCEPT ![l] = @] = h.end
    BY <1>4
  <2> QED BY <1>1, <1>5, <1>10, <2>0, <2>1, <2>2
<1>11. Says
  BY <1>7, <1>8, <1>9, <1>10
<1>12. HeapType(g)
  <2>1. z # 1 /\ j = 1 => s[l][2] \in Pointer
    BY <1>1, <1>3
  <2>2. j = z /\ j # 1 => s[l][z - 1] \in Pointer
    BY <1>1, <1>3
  <2>3. g.begin \in [Lists -> Pointer] /\ g.end \in [Lists -> Pointer]
    BY <1>1, <1>4, <1>11, <2>1, <2>2
  <2>4. g.next \in [Nodes -> Pointer] /\ g.prev \in [Nodes -> Pointer]
    BY <1>1, <1>3, <1>4, <1>5, <1>11
  <2>5. g.size \in [Lists -> Nat]
    BY <1>1, <1>4, <1>5, <1>11
  <2>6. g.var \in [Nodes -> [name : Names, value : Values] \union {Free}]
    BY <1>1, <1>4, <1>5, <1>11
  <2> QED BY <1>11, <2>3, <2>4, <2>5, <2>6 DEF HeapType
<1>13. g.next[v] = NULL
  <2>1. d.next[v] = NULL /\ d.next \in [Nodes -> Pointer]
    BY <1>1, <1>4, <1>5
  <2> QED BY <1>1, <1>3, <1>11, <2>1
<1>14. ASSUME NEW w \in Nodes, w # v
       PROVE  /\ g.next[w] = IF 1 < j /\ j < z /\ w = s[l][j - 1] THEN s[l][j + 1] ELSE h.next[w]
              /\ g.prev[w] = IF 1 < j /\ j < z /\ w = s[l][j + 1] THEN s[l][j - 1] ELSE h.prev[w]
  <2>1. d.next[w] = h.next[w] /\ d.prev[w] = h.prev[w] /\ d.next \in [Nodes -> Pointer]
        /\ d.prev \in [Nodes -> Pointer]
    BY <1>1, <1>4, <1>5, <1>14
  <2> QED BY <1>11, <2>1
<1> QED BY <1>5, <1>11, <1>12, <1>13, <1>14 DEF g, v, Cut

(* The lists t of heap g are the lists s of h without the j-th place of l. *)
Shorter(h, s, l, j, g, t) ==
    /\ \A k \in Lists : \A i \in Spots(g, k) :
          \E b \in Spots(h, k) : /\ ~ (k = l /\ b = j) /\ t[k][i] = s[k][b]
                                 /\ g.var[t[k][i]] = h.var[s[k][b]]
    /\ \A k \in Lists : \A b \in Spots(h, k) : ~ (k = l /\ b = j) =>
          \E i \in Spots(g, k) : t[k][i] = s[k][b] /\ g.var[t[k][i]] = h.var[s[k][b]]

(* A removal leaves a list without the variable, open if it was the last.  *)
LEMMA Removed ==
    ASSUME NEW h, NEW s, Whole(h, s), NEW l \in Lists, NEW j \in Spots(h, l)
    PROVE  \E t : /\ Laid(ListRemove(h, l, s[l][j]), t, l)
                  /\ Shorter(h, s, l, j, ListRemove(h, l, s[l][j]), t)
<1> DEFINE z == h.size[l]
           v == s[l][j]
           g == ListRemove(h, l, v)
           t == [s EXCEPT ![l] = [i \in 1 .. z - 1 |-> IF i < j THEN s[l][i] ELSE s[l][i + 1]]]
           r(i) == IF i < j THEN i ELSE i + 1
<1>1. /\ HeapType(h) /\ DOMAIN s = Lists
      /\ \A k \in Lists : h.size[k] \in Nat /\ ListOf(h, k, s[k]) /\ Closed(h, k, s[k])
      /\ \A w \in Live(h) : \E k \in Lists : \E i \in Spots(h, k) : w = s[k][i]
      /\ \A w \in Nodes \ Live(h) : h.next[w] = NULL
  <2>1. Laid(h, s, "none")
    BY DEF Whole
  <2>2. \A k \in Lists : h.size[k] \in Nat
    BY <2>1, LaidFacts
  <2>3. \A k \in Lists : Closed(h, k, s[k])
    BY <2>1, OrderIs DEF Laid
  <2> QED BY <2>1, <2>2, <2>3 DEF Laid
<1>2. \A k \in Lists :
        /\ \A i \in Spots(h, k) : s[k][i] \in Nodes /\ h.var[s[k][i]] # Free
        /\ \A i, b \in Spots(h, k) : i # b => h.var[s[k][i]].name # h.var[s[k][b]].name
        /\ \A i \in Spots(h, k) : i < h.size[k] =>
              h.next[s[k][i]] = s[k][i + 1] /\ h.prev[s[k][i + 1]] = s[k][i]
        /\ \A m \in Lists : \A i \in Spots(h, k), b \in Spots(h, m) :
              s[k][i] = s[m][b] => k = m /\ i = b
  BY LaidFacts DEF Whole
<1>3. /\ HeapType(g)
      /\ g.size = [h.size EXCEPT ![l] = z - 1]
      /\ g.var = [h.var EXCEPT ![v] = Free]
      /\ g.begin = [h.begin EXCEPT ![l] = IF z = 1 THEN NULL ELSE IF j = 1 THEN s[l][2] ELSE @]
      /\ g.end = [h.end EXCEPT ![l] = IF z = 1 THEN NULL
                                      ELSE IF j = z /\ j # 1 THEN s[l][z - 1] ELSE @]
      /\ g.next[v] = NULL
      /\ \A w \in Nodes : w # v =>
            /\ g.next[w] = IF 1 < j /\ j < z /\ w = s[l][j - 1] THEN s[l][j + 1] ELSE h.next[w]
            /\ g.prev[w] = IF 1 < j /\ j < z /\ w = s[l][j + 1] THEN s[l][j - 1] ELSE h.prev[w]
  <2>1. Cut(h, s, l, j, g)
    BY Unlinked
  <2> HIDE DEF g
  <2> QED BY <2>1 DEF Cut
<1>4. z \in Nat /\ j \in Int /\ 1 <= j /\ j <= z /\ v \in Nodes /\ Spots(h, l) = 1 .. z
  BY <1>1, <1>2 DEF Spots
<1>5. t[l] = [i \in 1 .. z - 1 |-> IF i < j THEN s[l][i] ELSE s[l][i + 1]]
      /\ DOMAIN t = Lists /\ \A k \in Lists : k # l => t[k] = s[k]
  BY <1>1
<1> HIDE DEF g, t, v
<1>6. /\ \A k \in Lists : k # l => /\ g.size[k] = h.size[k] /\ Spots(g, k) = Spots(h, k)
                                   /\ g.begin[k] = h.begin[k] /\ g.end[k] = h.end[k]
      /\ g.size[l] = z - 1 /\ Spots(g, l) = 1 .. z - 1
      /\ g.begin[l] = IF z = 1 THEN NULL ELSE IF j = 1 THEN s[l][2] ELSE h.begin[l]
      /\ g.end[l] = IF z = 1 THEN NULL ELSE IF j = z /\ j # 1 THEN s[l][z - 1] ELSE h.end[l]
      /\ \A w \in Nodes : w # v => g.var[w] = h.var[w]
      /\ g.var[v] = Free
  <2>1. /\ h.size \in [Lists -> Nat] /\ h.begin \in [Lists -> Pointer] /\ h.end \in [Lists -> Pointer]
        /\ h.var \in [Nodes -> [name : Names, value : Values] \union {Free}]
    BY <1>1 DEF HeapType
  <2> QED BY <1>3, <1>4, <2>1 DEF Spots
<1>7. Live(g) = Live(h) \ {v}
  BY <1>6 DEF Live
<1>8. ASSUME NEW k \in Lists, NEW b \in Spots(h, k), ~ (k = l /\ b = j)
      PROVE  /\ s[k][b] \in Live(g) /\ s[k][b] # v /\ s[k][b] \in Nodes
             /\ g.var[s[k][b]] = h.var[s[k][b]]
  BY <1>2, <1>6, <1>7, <1>8 DEF Live, v
<1>9. ASSUME NEW i \in Spots(g, l)
      PROVE  /\ r(i) \in Spots(h, l) /\ r(i) # j /\ t[l][i] = s[l][r(i)]
             /\ t[l][i] \in Live(g) /\ g.var[t[l][i]] = h.var[s[l][r(i)]]
  <2>1. r(i) \in Spots(h, l) /\ r(i) # j /\ t[l][i] = s[l][r(i)]
    BY <1>4, <1>5, <1>6
  <2> QED BY <1>8, <2>1
<1>10. \A i, b \in Spots(g, l) : r(i) = r(b) => i = b
  BY <1>4, <1>6
<1>11. ASSUME NEW k \in Lists, k # l PROVE ListOf(g, k, t[k]) /\ Closed(g, k, t[k])
  <2>1. \A i \in Spots(g, k) : s[k][i] \in Live(g) /\ g.var[s[k][i]] = h.var[s[k][i]]
                                /\ s[k][i] \in Nodes /\ s[k][i] # v
    BY <1>6, <1>8, <1>11
  <2>2. /\ 1 < j => j - 1 \in Spots(h, l)
        /\ j < z => j + 1 \in Spots(h, l)
    BY <1>4
  <2>3. \A i \in Spots(g, k) : g.next[s[k][i]] = h.next[s[k][i]] /\ g.prev[s[k][i]] = h.prev[s[k][i]]
    BY <1>2, <1>3, <1>6, <1>11, <2>1, <2>2
  <2>4. \A i \in Spots(g, k) : i < h.size[k] => i + 1 \in Spots(g, k)
    BY <1>1, <1>6, <1>11 DEF Spots
  <2>5. h.size[k] # 0 => h.size[k] \in Spots(g, k)
    BY <1>1, <1>6, <1>11 DEF Spots
  <2>6. t[k] \in [Spots(g, k) -> Live(g)]
    <3>1. s[k] \in [Spots(h, k) -> Live(h)]
      BY <1>1 DEF ListOf
    <3> QED BY <1>5, <1>6, <1>11, <2>1, <3>1
  <2>7. Closed(g, k, t[k])
    BY <1>1, <1>5, <1>6, <1>11, <2>3, <2>5 DEF Closed
  <2>8. \A i, b \in Spots(g, k) : i # b => g.var[t[k][i]].name # g.var[t[k][b]].name
    BY <1>2, <1>5, <1>6, <1>11, <2>1
  <2>9. IF g.size[k] = 0 THEN g.begin[k] = NULL /\ g.end[k] = NULL
        ELSE g.begin[k] = t[k][1] /\ g.end[k] = t[k][g.size[k]]
    BY <1>1, <1>5, <1>6, <1>11 DEF ListOf
  <2>10. \A i \in Spots(g, k) : i < g.size[k] =>
            g.next[t[k][i]] = t[k][i + 1] /\ g.prev[t[k][i + 1]] = t[k][i]
    BY <1>2, <1>5, <1>6, <1>11, <2>3, <2>4
  <2> QED BY <2>6, <2>7, <2>8, <2>9, <2>10 DEF ListOf
<1>12. ListOf(g, l, t[l])
  <2>1. t[l] \in [Spots(g, l) -> Live(g)]
    BY <1>5, <1>6, <1>9
  <2>2. \A i, b \in Spots(g, l) : i # b => g.var[t[l][i]].name # g.var[t[l][b]].name
    <3> SUFFICES ASSUME NEW i \in Spots(g, l), NEW b \in Spots(g, l), i # b
                 PROVE  g.var[t[l][i]].name # g.var[t[l][b]].name
      OBVIOUS
    <3>1. r(i) \in Spots(h, l) /\ r(b) \in Spots(h, l) /\ r(i) # r(b)
      BY <1>9, <1>10
    <3>2. h.var[s[l][r(i)]].name # h.var[s[l][r(b)]].name
      BY <1>2, <3>1
    <3>3. g.var[t[l][i]] = h.var[s[l][r(i)]] /\ g.var[t[l][b]] = h.var[s[l][r(b)]]
      BY <1>9
    <3> QED BY <3>2, <3>3
  <2>3. /\ g.size[l] = 0 => g.begin[l] = NULL /\ g.end[l] = NULL
        /\ g.size[l] # 0 => g.begin[l] = t[l][1] /\ g.end[l] = t[l][g.size[l]]
    <3>1. z # 0 => h.begin[l] = s[l][1] /\ h.end[l] = s[l][z]
      BY <1>1 DEF ListOf
    <3>2. CASE z = 1
      BY <1>6, <3>2
    <3>3. CASE z # 1
      <4>1. 1 \in Spots(g, l) /\ z - 1 \in Spots(g, l) /\ g.size[l] # 0
        BY <1>4, <1>6, <3>3
      <4>2. t[l][1] = s[l][IF j = 1 THEN 2 ELSE 1]
        BY <1>4, <1>9, <4>1
      <4>3. t[l][z - 1] = s[l][IF j = z THEN z - 1 ELSE z]
        BY <1>4, <1>9, <4>1
      <4> QED BY <1>4, <1>6, <3>1, <3>3, <4>1, <4>2, <4>3
    <3> QED BY <3>2, <3>3
  <2>4. ASSUME NEW i \in Spots(g, l), i < g.size[l]
        PROVE  g.next[t[l][i]] = t[l][i + 1] /\ g.prev[t[l][i + 1]] = t[l][i]
    <3>1. i \in Int /\ 1 <= i /\ i < z - 1 /\ i + 1 \in Spots(g, l)
      BY <1>4, <1>6, <2>4
    <3>2. t[l][i] = s[l][r(i)] /\ t[l][i + 1] = s[l][r(i + 1)] /\ r(i) \in Spots(h, l)
          /\ r(i + 1) \in Spots(h, l) /\ r(i) # j /\ r(i + 1) # j
      BY <1>9, <3>1
    <3>3. /\ s[l][r(i)] \in Nodes /\ s[l][r(i)] # v /\ s[l][r(i + 1)] \in Nodes /\ s[l][r(i + 1)] # v
      BY <1>8, <3>2
    <3>4. CASE i + 1 = j
      <4>1. r(i) = j - 1 /\ r(i + 1) = j + 1 /\ 1 < j /\ j < z
        BY <1>4, <3>1, <3>4
      <4> QED BY <1>3, <3>2, <3>3, <4>1
    <3>5. CASE i + 1 # j
      <4>1. r(i + 1) = r(i) + 1 /\ r(i) # j - 1 /\ r(i + 1) # j + 1 /\ r(i) < z
        BY <1>4, <3>1, <3>5
      <4>2. /\ 1 < j => j - 1 \in Spots(h, l)
            /\ j < z => j + 1 \in Spots(h, l)
        BY <1>4
      <4>3. /\ ~ (1 < j /\ j < z /\ s[l][r(i)] = s[l][j - 1])
            /\ ~ (1 < j /\ j < z /\ s[l][r(i + 1)] = s[l][j + 1])
        BY <1>2, <3>2, <4>1, <4>2
      <4>4. g.next[s[l][r(i)]] = h.next[s[l][r(i)]] /\ g.prev[s[l][r(i + 1)]] = h.prev[s[l][r(i + 1)]]
        BY <1>3, <3>3, <4>3
      <4>5. h.next[s[l][r(i)]] = s[l][r(i) + 1] /\ h.prev[s[l][r(i) + 1]] = s[l][r(i)]
        BY <1>2, <3>2, <4>1
      <4> QED BY <3>2, <4>1, <4>4, <4>5
    <3> QED BY <3>4, <3>5
  <2> QED BY <2>1, <2>2, <2>3, <2>4 DEF ListOf
<1>13. Closed(g, l, t[l]) \/ g.next[t[l][g.size[l]]] \in Nodes \ Live(g)
  <2>1. CASE z = 1
    BY <1>6, <2>1 DEF Closed
  <2>2. CASE z # 1
    <3>1. z - 1 \in Spots(g, l) /\ z \in Spots(h, l) /\ (z - 1) + 1 = z
      BY <1>4, <1>6, <2>2
    <3>2. CASE j = z
      <4>1. t[l][z - 1] = s[l][z - 1] /\ z - 1 \in Spots(h, l) /\ z - 1 # j
        BY <1>4, <1>9, <3>1, <3>2
      <4>2. g.next[s[l][z - 1]] = h.next[s[l][z - 1]]
        BY <1>3, <1>4, <1>8, <3>2, <4>1
      <4>3. h.next[s[l][z - 1]] = s[l][(z - 1) + 1]
        <5>1. \A i \in Spots(h, l) : i < z => h.next[s[l][i]] = s[l][i + 1]
          BY <1>2
        <5>2. z - 1 < z
          BY <1>4
        <5> HIDE DEF z
        <5> QED BY <4>1, <5>1, <5>2
      <4>4. h.next[s[l][z - 1]] = v
        BY <3>1, <3>2, <4>3 DEF v
      <4> QED BY <1>4, <1>6, <1>7, <4>1, <4>2, <4>4
    <3>3. CASE j # z
      <4>1. t[l][z - 1] = s[l][z] /\ j < z
        BY <1>4, <1>9, <3>1, <3>3
      <4>2. 1 < j => j - 1 \in Spots(h, l) /\ j - 1 # z
        BY <1>4
      <4>3. g.next[s[l][z]] = h.next[s[l][z]]
        BY <1>2, <1>3, <1>8, <3>1, <3>3, <4>2
      <4>4. h.next[s[l][z]] = NULL
        BY <1>1, <1>4 DEF Closed
      <4> QED BY <1>6, <4>1, <4>3, <4>4 DEF Closed
    <3> QED BY <3>2, <3>3
  <2> QED BY <2>1, <2>2
<1>14. ASSUME NEW k \in Lists, NEW i \in Spots(g, k)
       PROVE  \E b \in Spots(h, k) : /\ ~ (k = l /\ b = j) /\ t[k][i] = s[k][b]
                                     /\ g.var[t[k][i]] = h.var[s[k][b]]
  <2>1. CASE k = l
    BY <1>9, <2>1
  <2>2. CASE k # l
    BY <1>5, <1>6, <1>8, <2>2
  <2> QED BY <2>1, <2>2
<1>15. ASSUME NEW k \in Lists, NEW b \in Spots(h, k), ~ (k = l /\ b = j)
       PROVE  \E i \in Spots(g, k) : t[k][i] = s[k][b] /\ g.var[t[k][i]] = h.var[s[k][b]]
  <2>1. CASE k = l
    <3> DEFINE i == IF b < j THEN b ELSE b - 1
    <3>1. i \in Spots(g, l) /\ r(i) = b
      BY <1>4, <1>6, <1>15, <2>1
    <3> QED BY <1>9, <2>1, <3>1
  <2>2. CASE k # l
    BY <1>5, <1>6, <1>8, <2>2
  <2> QED BY <2>1, <2>2
<1>16. \A k, m \in Lists : \A i \in Spots(g, k), b \in Spots(g, m) : t[k][i] = t[m][b] => k = m
  BY <1>2, <1>14
<1>17. \A w \in Live(g) : \E k \in Lists : \E i \in Spots(g, k) : w = t[k][i]
  <2> SUFFICES ASSUME NEW w \in Live(g) PROVE \E k \in Lists : \E i \in Spots(g, k) : w = t[k][i]
    OBVIOUS
  <2>1. w \in Live(h) /\ w # v
    BY <1>7
  <2>2. PICK k \in Lists : \E b \in Spots(h, k) : w = s[k][b]
    BY <1>1, <2>1
  <2>3. PICK b \in Spots(h, k) : w = s[k][b]
    BY <2>2
  <2>4. ~ (k = l /\ b = j)
    BY <2>1, <2>3 DEF v
  <2> QED BY <1>15, <2>3, <2>4
<1>18. \A w \in Nodes \ Live(g) : g.next[w] = NULL
  <2> SUFFICES ASSUME NEW w \in Nodes \ Live(g), w # v PROVE g.next[w] = NULL
    BY <1>3
  <2>1. w \in Nodes \ Live(h)
    BY <1>7
  <2>2. 1 < j => j - 1 \in Spots(h, l)
    BY <1>4
  <2>3. 1 < j => s[l][j - 1] \in Live(h)
    BY <1>2, <2>2 DEF Live
  <2> QED BY <1>1, <1>3, <2>1, <2>3
<1>19. Laid(g, t, l)
  <2>1. \A k \in Lists : ListOf(g, k, t[k])
    BY <1>11, <1>12
  <2>2. \A k \in Lists : Closed(g, k, t[k]) \/ (k = l /\ g.next[t[k][g.size[k]]] \in Nodes \ Live(g))
    BY <1>11, <1>13
  <2> QED BY <1>3, <1>5, <1>16, <1>17, <1>18, <2>1, <2>2 DEF Laid
<1>20. Shorter(h, s, l, j, g, t)
  BY <1>14, <1>15 DEF Shorter
<1> HIDE DEF t
<1> QED BY <1>19, <1>20 DEF g, v

(* What an append to a list of z variables does to the fields.             *)
Joined(h, s, l, v, n, x, g) ==
    LET z == h.size[l]
    IN  /\ HeapType(g)
        /\ g.size = [h.size EXCEPT ![l] = z + 1]
        /\ g.var = [h.var EXCEPT ![v] = [name |-> n, value |-> x]]
        /\ g.begin = [h.begin EXCEPT ![l] = IF z = 0 THEN v ELSE @]
        /\ g.end = [h.end EXCEPT ![l] = v]
        /\ g.next = IF z = 0 THEN h.next ELSE [h.next EXCEPT ![s[l][z]] = v]
        /\ g.prev = IF z = 0 THEN h.prev ELSE [h.prev EXCEPT ![v] = s[l][z]]

LEMMA Linked ==
    ASSUME NEW h, NEW s, NEW open, Laid(h, s, open), NEW l \in Lists,
           NEW v \in Nodes, NEW n \in Names, NEW x \in Values
    PROVE  Joined(h, s, l, v, n, x, ListAppend(h, l, v, n, x))
<1> DEFINE z == h.size[l]
           d == [h EXCEPT !.var[v] = [name |-> n, value |-> x], !.size[l] = @ + 1]
           g == ListAppend(h, l, v, n, x)
           new == [name |-> n, value |-> x]
<1>1. /\ HeapType(h) /\ z \in Nat /\ ListOf(h, l, s[l])
      /\ v \in Pointer /\ v # NULL
      /\ z # 0 => s[l][1] # NULL /\ s[l][z] \in Nodes /\ s[l][z] \in Pointer
  <2>1. HeapType(h) /\ ListOf(h, l, s[l])
    BY DEF Laid
  <2>2. z \in Nat /\ (z # 0 => s[l][1] \in Nodes /\ s[l][z] \in Nodes)
    BY LaidFacts
  <2> QED BY <2>1, <2>2, VariablesAssumption DEF Pointer
<1>2. (h.begin[l] = NULL <=> z = 0) /\ (z # 0 => h.end[l] = s[l][z])
  BY <1>1 DEF ListOf
<1>3. /\ h.size \in [Lists -> Nat] /\ h.begin \in [Lists -> Pointer] /\ h.end \in [Lists -> Pointer]
      /\ h.next \in [Nodes -> Pointer] /\ h.prev \in [Nodes -> Pointer]
      /\ h.var \in [Nodes -> [name : Names, value : Values] \union {Free}]
      /\ h = [begin |-> h.begin, end |-> h.end, size |-> h.size, next |-> h.next,
              prev |-> h.prev, var |-> h.var]
  BY <1>1 DEF HeapType
<1>4. d = [begin |-> h.begin, end |-> h.end, size |-> [h.size EXCEPT ![l] = z + 1],
           next |-> h.next, prev |-> h.prev,
           var |-> [h.var EXCEPT ![v] = new]]
  <2>1. PICK a, b, c, e, f, i : h = [begin |-> a, end |-> b, size |-> c, next |-> e, prev |-> f, var |-> i]
    BY <1>3
  <2>2. d = [h EXCEPT !.var[v] = new, !.size[l] = z + 1]
    OBVIOUS
  <2> HIDE DEF d, z, new
  <2> QED BY <2>1, <2>2
<1>5. g = IF h.begin[l] = NULL
          THEN [d EXCEPT !.begin[l] = v, !.end[l] = v]
          ELSE [d EXCEPT !.next[h.end[l]] = v, !.prev[v] = h.end[l], !.end[l] = v]
  BY DEF ListAppend
<1> HIDE DEF d, g
<1>6. ASSUME z = 0
      PROVE  g = [begin |-> [h.begin EXCEPT ![l] = v], end |-> [h.end EXCEPT ![l] = v],
                  size |-> d.size, next |-> h.next, prev |-> h.prev, var |-> d.var]
  <2>1. g = [d EXCEPT !.begin[l] = v, !.end[l] = v]
    BY <1>2, <1>5, <1>6
  <2> QED BY <1>4, <2>1
<1>7. ASSUME z # 0
      PROVE  g = [begin |-> h.begin, end |-> [h.end EXCEPT ![l] = v],
                  size |-> d.size, next |-> [h.next EXCEPT ![s[l][z]] = v],
                  prev |-> [h.prev EXCEPT ![v] = s[l][z]], var |-> d.var]
  <2>1. g = [d EXCEPT !.next[s[l][z]] = v, !.prev[v] = s[l][z], !.end[l] = v]
    BY <1>2, <1>5, <1>7
  <2>2. g = [[d EXCEPT !.next[s[l][z]] = v, !.prev[v] = s[l][z]] EXCEPT !.end[l] = v]
    BY <2>1
  <2> QED BY <1>4, <2>2
<1>8. /\ g.size = [h.size EXCEPT ![l] = z + 1]
      /\ g.var = [h.var EXCEPT ![v] = [name |-> n, value |-> x]]
  BY <1>4, <1>6, <1>7
<1>9. /\ g.begin = [h.begin EXCEPT ![l] = IF z = 0 THEN v ELSE @]
      /\ g.end = [h.end EXCEPT ![l] = v]
  <2>1. h.begin = [h.begin EXCEPT ![l] = @]
    BY <1>3
  <2> QED BY <1>6, <1>7, <2>1
<1>10. /\ g.next = IF z = 0 THEN h.next ELSE [h.next EXCEPT ![s[l][z]] = v]
       /\ g.prev = IF z = 0 THEN h.prev ELSE [h.prev EXCEPT ![v] = s[l][z]]
       /\ g = [begin |-> g.begin, end |-> g.end, size |-> g.size, next |-> g.next,
               prev |-> g.prev, var |-> g.var]
  BY <1>6, <1>7
<1>11. HeapType(g)
  <2>1. g.begin \in [Lists -> Pointer] /\ g.end \in [Lists -> Pointer]
    BY <1>1, <1>3, <1>9
  <2>2. g.next \in [Nodes -> Pointer] /\ g.prev \in [Nodes -> Pointer]
    BY <1>1, <1>3, <1>10
  <2>3. g.size \in [Lists -> Nat]
    BY <1>1, <1>3, <1>8
  <2>4. g.var \in [Nodes -> [name : Names, value : Values] \union {Free}]
    BY <1>3, <1>8
  <2> QED BY <1>10, <2>1, <2>2, <2>3, <2>4 DEF HeapType
<1> QED BY <1>8, <1>9, <1>10, <1>11 DEF Joined, g

(* The lists t of heap g are the lists s of h, and v ends list l.          *)
Longer(h, s, l, v, g, t) ==
    /\ \A k \in Lists : \A i \in Spots(g, k) :
          (k = l /\ i = h.size[l] + 1) \/ i \in Spots(h, k)
    /\ \A k \in Lists : \A i \in Spots(h, k) :
          i \in Spots(g, k) /\ t[k][i] = s[k][i] /\ g.var[t[k][i]] = h.var[s[k][i]]
    /\ h.size[l] + 1 \in Spots(g, l) /\ t[l][h.size[l] + 1] = v

(* The new variable ends the list, and closes it if it was open.           *)
LEMMA Appended ==
    ASSUME NEW h, NEW s, NEW l \in Lists, Laid(h, s, l), NEW v \in Nodes \ Live(h),
           NEW n \in Names, NEW x \in Values,
           \A i \in Spots(h, l) : h.var[s[l][i]].name # n
    PROVE  LET g == ListAppend(h, l, v, n, x)
           IN  /\ g.var[v] = [name |-> n, value |-> x]
               /\ \E t : Whole(g, t) /\ Longer(h, s, l, v, g, t)
<1> DEFINE z == h.size[l]
           g == ListAppend(h, l, v, n, x)
           t == [s EXCEPT ![l] = [i \in 1 .. z + 1 |-> IF i <= z THEN s[l][i] ELSE v]]
           new == [name |-> n, value |-> x]
<1>1. /\ HeapType(h) /\ DOMAIN s = Lists
      /\ \A k \in Lists : h.size[k] \in Nat /\ ListOf(h, k, s[k]) /\ (k # l => Closed(h, k, s[k]))
      /\ \A w \in Live(h) : \E k \in Lists : \E i \in Spots(h, k) : w = s[k][i]
      /\ \A w \in Nodes \ Live(h) : h.next[w] = NULL
      /\ v \in Nodes /\ v \notin Live(h)
  <2>1. \A k \in Lists : h.size[k] \in Nat
    BY LaidFacts
  <2> QED BY <2>1 DEF Laid
<1>2. \A k \in Lists :
        /\ \A i \in Spots(h, k) : s[k][i] \in Nodes /\ s[k][i] \in Live(h) /\ s[k][i] # v
        /\ \A i, b \in Spots(h, k) : i # b => h.var[s[k][i]].name # h.var[s[k][b]].name
        /\ \A i \in Spots(h, k) : i < h.size[k] =>
              h.next[s[k][i]] = s[k][i + 1] /\ h.prev[s[k][i + 1]] = s[k][i]
        /\ \A m \in Lists : \A i \in Spots(h, k), b \in Spots(h, m) :
              s[k][i] = s[m][b] => k = m /\ i = b
  <2>1. \A k \in Lists : \A i \in Spots(h, k) : s[k][i] \in Nodes /\ s[k][i] \in Live(h)
    BY LaidFacts DEF Live
  <2> QED BY <1>1, <2>1, LaidFacts
<1>3. /\ HeapType(g)
      /\ g.size = [h.size EXCEPT ![l] = z + 1]
      /\ g.var = [h.var EXCEPT ![v] = new]
      /\ g.begin = [h.begin EXCEPT ![l] = IF z = 0 THEN v ELSE @]
      /\ g.end = [h.end EXCEPT ![l] = v]
      /\ g.next = IF z = 0 THEN h.next ELSE [h.next EXCEPT ![s[l][z]] = v]
      /\ g.prev = IF z = 0 THEN h.prev ELSE [h.prev EXCEPT ![v] = s[l][z]]
  <2>1. Joined(h, s, l, v, n, x, g)
    BY <1>1, Linked
  <2> HIDE DEF g
  <2> QED BY <2>1 DEF Joined
<1>4. z \in Nat /\ Spots(h, l) = 1 .. z /\ (z # 0 => z \in Spots(h, l) /\ s[l][z] \in Nodes)
  BY <1>1, <1>2 DEF Spots
<1>5. t[l] = [i \in 1 .. z + 1 |-> IF i <= z THEN s[l][i] ELSE v]
      /\ DOMAIN t = Lists /\ \A k \in Lists : k # l => t[k] = s[k]
  BY <1>1
<1>6. new # Free /\ new.name = n /\ new.value = x
  <2>1. new.value = x /\ Free.value = Undefined
    BY DEF Free
  <2> QED BY <2>1, VariablesAssumption
<1> HIDE DEF g, t, new
<1>7. /\ \A k \in Lists : k # l => /\ g.size[k] = h.size[k] /\ Spots(g, k) = Spots(h, k)
                                   /\ g.begin[k] = h.begin[k] /\ g.end[k] = h.end[k]
      /\ g.size[l] = z + 1 /\ Spots(g, l) = 1 .. z + 1
      /\ g.begin[l] = IF z = 0 THEN v ELSE h.begin[l]
      /\ g.end[l] = v
      /\ \A w \in Nodes : w # v => g.var[w] = h.var[w] /\ g.prev[w] = h.prev[w]
      /\ \A w \in Nodes : ~ (z # 0 /\ w = s[l][z]) => g.next[w] = h.next[w]
      /\ z # 0 => g.next[s[l][z]] = v /\ g.prev[v] = s[l][z]
      /\ g.var[v] = new
  <2>1. /\ h.size \in [Lists -> Nat] /\ h.begin \in [Lists -> Pointer] /\ h.end \in [Lists -> Pointer]
        /\ h.next \in [Nodes -> Pointer] /\ h.prev \in [Nodes -> Pointer]
        /\ h.var \in [Nodes -> [name : Names, value : Values] \union {Free}]
    BY <1>1 DEF HeapType
  <2> QED BY <1>1, <1>3, <1>4, <2>1 DEF Spots
<1>8. Live(g) = Live(h) \union {v}
  BY <1>1, <1>6, <1>7 DEF Live
<1>9. ASSUME NEW k \in Lists, NEW i \in Spots(h, k)
      PROVE  i \in Spots(g, k) /\ t[k][i] = s[k][i] /\ g.var[t[k][i]] = h.var[s[k][i]]
  <2>1. i \in Spots(g, k) /\ t[k][i] = s[k][i]
    BY <1>4, <1>5, <1>7
  <2> QED BY <1>2, <1>7, <2>1
<1>10. z + 1 \in Spots(g, l) /\ t[l][z + 1] = v
  BY <1>4, <1>5, <1>7
<1>11. ASSUME NEW k \in Lists, NEW i \in Spots(g, k)
       PROVE  (k = l /\ i = z + 1) \/ i \in Spots(h, k)
  BY <1>4, <1>7
<1>12. ASSUME NEW k \in Lists PROVE t[k] \in [Spots(g, k) -> Live(g)]
  <2>1. \A i \in Spots(g, k) : t[k][i] \in Live(g)
    BY <1>2, <1>8, <1>9, <1>10, <1>11
  <2>2. s[k] \in [Spots(h, k) -> Live(h)]
    BY <1>1 DEF ListOf
  <2>3. CASE k = l
    BY <1>5, <1>7, <2>1, <2>3
  <2>4. CASE k # l
    BY <1>5, <1>7, <2>1, <2>2, <2>4
  <2> QED BY <2>3, <2>4
<1>13. ASSUME NEW k \in Lists
       PROVE  \A i, b \in Spots(g, k) : i # b => g.var[t[k][i]].name # g.var[t[k][b]].name
  <2>1. \A i \in Spots(h, k) : g.var[t[k][i]].name = h.var[s[k][i]].name
    BY <1>9
  <2>2. k = l => g.var[t[k][z + 1]].name = n /\ \A i \in Spots(h, k) : h.var[s[k][i]].name # n
    BY <1>6, <1>7, <1>10
  <2>3. \A i, b \in Spots(h, k) : i # b => g.var[t[k][i]].name # g.var[t[k][b]].name
    BY <1>2, <2>1
  <2>4. \A i \in Spots(h, k) : k = l => g.var[t[k][i]].name # n
    BY <2>1, <2>2
  <2> SUFFICES ASSUME NEW i \in Spots(g, k), NEW b \in Spots(g, k), i # b
               PROVE  g.var[t[k][i]].name # g.var[t[k][b]].name
    OBVIOUS
  <2>5. CASE i \in Spots(h, k) /\ b \in Spots(h, k)
    BY <2>3, <2>5
  <2>6. CASE i \notin Spots(h, k)
    BY <1>11, <2>2, <2>4, <2>6
  <2>7. CASE b \notin Spots(h, k)
    BY <1>11, <2>2, <2>4, <2>7
  <2> QED BY <2>5, <2>6, <2>7
<1>14. ASSUME NEW k \in Lists
       PROVE  IF g.size[k] = 0 THEN g.begin[k] = NULL /\ g.end[k] = NULL
              ELSE g.begin[k] = t[k][1] /\ g.end[k] = t[k][g.size[k]]
  <2>1. IF h.size[k] = 0 THEN h.begin[k] = NULL /\ h.end[k] = NULL
        ELSE h.begin[k] = s[k][1] /\ h.end[k] = s[k][h.size[k]]
    BY <1>1 DEF ListOf
  <2>2. CASE k = l
    <3>1. z # 0 => 1 \in Spots(h, l)
      BY <1>4
    <3> QED BY <1>4, <1>7, <1>9, <1>10, <2>1, <2>2, <3>1
  <2>3. CASE k # l
    BY <1>5, <1>7, <2>1, <2>3
  <2> QED BY <2>2, <2>3
<1>15. ASSUME NEW k \in Lists, NEW i \in Spots(g, k), i < g.size[k]
       PROVE  g.next[t[k][i]] = t[k][i + 1] /\ g.prev[t[k][i + 1]] = t[k][i]
  <2>1. CASE k = l /\ i = z
    <3>1. z # 0 /\ t[l][z] = s[l][z]
      BY <1>4, <1>7, <1>9, <1>15, <2>1
    <3> QED BY <1>7, <1>10, <2>1, <3>1
  <2>2. CASE ~ (k = l /\ i = z)
    <3>1. i \in Spots(h, k) /\ i + 1 \in Spots(h, k) /\ i < h.size[k]
      BY <1>1, <1>4, <1>7, <1>15, <2>2 DEF Spots
    <3>2. ~ (z # 0 /\ s[k][i] = s[l][z])
      BY <1>2, <1>4, <2>2, <3>1
    <3>3. g.next[s[k][i]] = h.next[s[k][i]] /\ g.prev[s[k][i + 1]] = h.prev[s[k][i + 1]]
      BY <1>2, <1>7, <3>1, <3>2
    <3> QED BY <1>2, <1>9, <3>1, <3>3
  <2> QED BY <2>1, <2>2
<1>16. ASSUME NEW k \in Lists PROVE Closed(g, k, t[k])
  <2>1. CASE k = l
    <3>1. ~ (z # 0 /\ v = s[l][z])
      BY <1>2, <1>4
    <3>2. g.next[v] = NULL
      BY <1>1, <1>7, <3>1
    <3> QED BY <1>7, <1>10, <2>1, <3>2 DEF Closed
  <2>2. CASE k # l
    <3>1. h.size[k] # 0 => h.size[k] \in Spots(h, k)
      BY <1>1 DEF Spots
    <3>2. h.size[k] # 0 => ~ (z # 0 /\ s[k][h.size[k]] = s[l][z])
      BY <1>2, <1>4, <2>2, <3>1
    <3>3. h.size[k] # 0 => h.next[s[k][h.size[k]]] = NULL /\ g.next[s[k][h.size[k]]] = h.next[s[k][h.size[k]]]
      BY <1>1, <1>2, <1>7, <2>2, <3>1, <3>2 DEF Closed
    <3> QED BY <1>5, <1>7, <2>2, <3>3 DEF Closed
  <2> QED BY <2>1, <2>2
<1>17. \A k, m \in Lists : \A i \in Spots(g, k), b \in Spots(g, m) : t[k][i] = t[m][b] => k = m
  BY <1>2, <1>9, <1>10, <1>11
<1>18. \A w \in Live(g) : \E k \in Lists : \E i \in Spots(g, k) : w = t[k][i]
  <2> SUFFICES ASSUME NEW w \in Live(g), w # v PROVE \E k \in Lists : \E i \in Spots(g, k) : w = t[k][i]
    BY <1>10
  <2>1. PICK k \in Lists : \E i \in Spots(h, k) : w = s[k][i]
    BY <1>1, <1>8
  <2> QED BY <1>9, <2>1
<1>19. \A w \in Nodes \ Live(g) : g.next[w] = NULL
  BY <1>1, <1>2, <1>4, <1>7, <1>8
<1>20. \A k \in Lists : ListOf(g, k, t[k])
  BY <1>12, <1>13, <1>14, <1>15 DEF ListOf
<1>21. Whole(g, t)
  BY <1>3, <1>5, <1>16, <1>17, <1>18, <1>19, <1>20 DEF Whole, Laid
<1>22. Longer(h, s, l, v, g, t)
  BY <1>9, <1>10, <1>11 DEF Longer
<1>23. g.var[v] = new
  BY <1>7
<1>24. \E u : Whole(g, u) /\ Longer(h, s, l, v, g, u)
  BY <1>21, <1>22
<1> HIDE DEF t
<1> QED BY <1>23, <1>24 DEF g, new
-----------------------------------------------------------------------------
(* The value of a name in a list.                                          *)
Worth(h, l, n) ==
    LET v == Lookup(h, l, n) IN IF v \in Nodes THEN h.var[v].value ELSE Undefined

Whatever == Values \union {Undefined}

LEMMA WorthIs ==
    ASSUME NEW h, NEW s, NEW open, Laid(h, s, open), NEW l \in Lists, NEW n \in Names
    PROVE  /\ \A i \in Spots(h, l) : h.var[s[l][i]].name = n => Worth(h, l, n) = h.var[s[l][i]].value
           /\ (\A i \in Spots(h, l) : h.var[s[l][i]].name # n) => Worth(h, l, n) = Undefined
           /\ \A i \in Spots(h, l) : h.var[s[l][i]].name = n => Worth(h, l, n) \in Values
           /\ Worth(h, l, n) \in Whatever
<1>1. \A i \in Spots(h, l) : s[l][i] \in Nodes /\ h.var[s[l][i]] # Free
  BY LaidFacts
<1>2. \A v \in Nodes : h.var[v] # Free => h.var[v].value \in Values
  BY DEF Laid, HeapType
<1>3. NULL \notin Nodes /\ Freed \notin Nodes
  BY VariablesAssumption
<1>4. /\ \A i \in Spots(h, l) : h.var[s[l][i]].name = n => Lookup(h, l, n) = s[l][i]
      /\ (\A i \in Spots(h, l) : h.var[s[l][i]].name # n) => Lookup(h, l, n) \in {NULL, Freed}
  BY LookupSays
<1> HIDE DEF Worth
<1>5. /\ Lookup(h, l, n) \in Nodes => Worth(h, l, n) = h.var[Lookup(h, l, n)].value
      /\ Lookup(h, l, n) \notin Nodes => Worth(h, l, n) = Undefined
  BY DEF Worth
<1>6. ASSUME NEW i \in Spots(h, l), h.var[s[l][i]].name = n
      PROVE  Worth(h, l, n) = h.var[s[l][i]].value /\ Worth(h, l, n) \in Values
  BY <1>1, <1>2, <1>4, <1>5, <1>6
<1>7. (\A i \in Spots(h, l) : h.var[s[l][i]].name # n) => Worth(h, l, n) = Undefined
  BY <1>3, <1>4, <1>5
<1> QED BY <1>6, <1>7 DEF Whatever

(* A lookup in a whole list says NULL when the name has no value.          *)
LEMMA WholeWorth ==
    ASSUME NEW h, NEW s, Whole(h, s), NEW l \in Lists, NEW n \in Names
    PROVE  /\ Lookup(h, l, n) # NULL <=> Worth(h, l, n) # Undefined
           /\ Lookup(h, l, n) # NULL => /\ Lookup(h, l, n) \in Nodes
                                        /\ h.var[Lookup(h, l, n)].value = Worth(h, l, n)
                                        /\ Worth(h, l, n) \in Values
<1>1. CASE Lookup(h, l, n) = NULL /\ \A j \in Spots(h, l) : h.var[s[l][j]].name # n
  BY <1>1, WorthIs DEF Whole
<1>2. ASSUME NEW j \in Spots(h, l), Lookup(h, l, n) = s[l][j], h.var[s[l][j]].name = n,
             s[l][j] \in Nodes, s[l][j] # NULL
      PROVE  Worth(h, l, n) \in Values /\ h.var[Lookup(h, l, n)].value = Worth(h, l, n)
  BY <1>2, WorthIs DEF Whole
<1>3. \A x \in Values : x # Undefined
  BY VariablesAssumption
<1> QED BY <1>1, <1>2, <1>3, WholeLookup

(* The variable is gone from its list, and all others are where they were. *)
LEMMA WithoutIs ==
    ASSUME NEW h, NEW s, Whole(h, s), NEW l \in Lists, NEW n \in Names
    PROVE  \E t : /\ Laid(Without(h, l, n), t, l)
                  /\ \A i \in Spots(Without(h, l, n), l) : Without(h, l, n).var[t[l][i]].name # n
                  /\ \A k \in Lists : \A m \in Names :
                        Worth(Without(h, l, n), k, m) = IF k = l /\ m = n THEN Undefined ELSE Worth(h, k, m)
<1> DEFINE g == Without(h, l, n)
<1>1. CASE Lookup(h, l, n) = NULL /\ \A j \in Spots(h, l) : h.var[s[l][j]].name # n
  <2>1. g = h
    BY <1>1, VariablesAssumption DEF Without
  <2>2. Laid(h, s, l)
    BY OrderIs DEF Whole, Laid
  <2>3. Worth(h, l, n) = Undefined
    BY <1>1, WorthIs DEF Whole
  <2> HIDE DEF g
  <2> QED BY <1>1, <2>1, <2>2, <2>3 DEF g
<1>2. ASSUME NEW j \in Spots(h, l), Lookup(h, l, n) = s[l][j], h.var[s[l][j]].name = n, s[l][j] \in Nodes
      PROVE  \E t : /\ Laid(g, t, l)
                    /\ \A i \in Spots(g, l) : g.var[t[l][i]].name # n
                    /\ \A k \in Lists : \A m \in Names :
                          Worth(g, k, m) = IF k = l /\ m = n THEN Undefined ELSE Worth(h, k, m)
  <2>1. g = ListRemove(h, l, s[l][j])
    BY <1>2 DEF Without
  <2> HIDE DEF g
  <2>a. PICK t : Laid(g, t, l) /\ Shorter(h, s, l, j, g, t)
    BY <2>1, Removed
  <2>2. /\ Laid(g, t, l)
        /\ \A k \in Lists : \A i \in Spots(g, k) :
              \E b \in Spots(h, k) : /\ ~ (k = l /\ b = j) /\ t[k][i] = s[k][b]
                                     /\ g.var[t[k][i]] = h.var[s[k][b]]
        /\ \A k \in Lists : \A b \in Spots(h, k) : ~ (k = l /\ b = j) =>
              \E i \in Spots(g, k) : t[k][i] = s[k][b] /\ g.var[t[k][i]] = h.var[s[k][b]]
    BY <2>a DEF Shorter
  <2>3. \A i \in Spots(h, l) : i # j => h.var[s[l][i]].name # n
    BY <1>2, LaidFacts DEF Whole
  <2>4. \A i \in Spots(g, l) : g.var[t[l][i]].name # n
    BY <2>2, <2>3
  <2>5. ASSUME NEW k \in Lists, NEW m \in Names
        PROVE  Worth(g, k, m) = IF k = l /\ m = n THEN Undefined ELSE Worth(h, k, m)
    <3>1. CASE k = l /\ m = n
      BY <2>2, <2>4, <3>1, WorthIs
    <3>2. CASE ~ (k = l /\ m = n)
      <4>1. CASE \A i \in Spots(g, k) : g.var[t[k][i]].name # m
        <5>1. \A b \in Spots(h, k) : h.var[s[k][b]].name # m
          BY <1>2, <2>2, <3>2, <4>1
        <5>2. Worth(h, k, m) = Undefined
          BY <5>1, WorthIs DEF Whole
        <5>3. Worth(g, k, m) = Undefined
          BY <2>2, <4>1, WorthIs
        <5> QED BY <3>2, <5>2, <5>3
      <4>2. ASSUME NEW i \in Spots(g, k), g.var[t[k][i]].name = m
            PROVE  Worth(g, k, m) = Worth(h, k, m)
        <5>1. PICK b \in Spots(h, k) : g.var[t[k][i]] = h.var[s[k][b]]
          BY <2>2
        <5>2. Worth(h, k, m) = h.var[s[k][b]].value
          BY <4>2, <5>1, WorthIs DEF Whole
        <5>3. Worth(g, k, m) = g.var[t[k][i]].value
          BY <2>2, <4>2, WorthIs
        <5> QED BY <5>1, <5>2, <5>3
      <4> QED BY <3>2, <4>1, <4>2
    <3> QED BY <3>1, <3>2
  <2> QED BY <2>2, <2>4, <2>5
<1> HIDE DEF g
<1>3. \E t : /\ Laid(g, t, l)
             /\ \A i \in Spots(g, l) : g.var[t[l][i]].name # n
             /\ \A k \in Lists : \A m \in Names :
                   Worth(g, k, m) = IF k = l /\ m = n THEN Undefined ELSE Worth(h, k, m)
  BY <1>1, <1>2, WholeLookup DEF g
<1> QED BY <1>3 DEF g

(* The new variable has its value, and all others are where they were.     *)
LEMMA AppendIs ==
    ASSUME NEW h, NEW s, NEW l \in Lists, Laid(h, s, l), NEW v \in Nodes \ Live(h),
           NEW n \in Names, NEW x \in Values,
           \A i \in Spots(h, l) : h.var[s[l][i]].name # n
    PROVE  /\ \E t : Whole(ListAppend(h, l, v, n, x), t)
           /\ \A k \in Lists : \A m \in Names :
                 Worth(ListAppend(h, l, v, n, x), k, m) = IF k = l /\ m = n THEN x ELSE Worth(h, k, m)
<1> DEFINE g == ListAppend(h, l, v, n, x)
<1>1. g.var[v] = [name |-> n, value |-> x] /\ \E t : Whole(g, t) /\ Longer(h, s, l, v, g, t)
  BY Appended
<1> HIDE DEF g
<1>2. g.var[v].name = n /\ g.var[v].value = x
  BY <1>1
<1>3. PICK t : Whole(g, t) /\ Longer(h, s, l, v, g, t)
  BY <1>1
<1>4. ASSUME NEW k \in Lists, NEW m \in Names
      PROVE  Worth(g, k, m) = IF k = l /\ m = n THEN x ELSE Worth(h, k, m)
  <2>0. Laid(g, t, "none")
    BY <1>3 DEF Whole
  <2>1. CASE k = l /\ m = n
    <3>1. h.size[l] + 1 \in Spots(g, l) /\ t[l][h.size[l] + 1] = v
      BY <1>3 DEF Longer
    <3>2. g.var[t[l][h.size[l] + 1]].name = n /\ g.var[t[l][h.size[l] + 1]].value = x
      BY <1>2, <3>1
    <3>3. \A i \in Spots(g, l) : g.var[t[l][i]].name = n => Worth(g, l, n) = g.var[t[l][i]].value
      BY <2>0, WorthIs
    <3>4. Worth(g, l, n) = x
      BY <3>1, <3>2, <3>3
    <3> QED BY <2>1, <3>4
  <2>2. CASE ~ (k = l /\ m = n)
    <3>1. CASE \A i \in Spots(h, k) : h.var[s[k][i]].name # m
      <4>1. \A i \in Spots(g, k) : g.var[t[k][i]].name # m
        BY <1>2, <1>3, <2>2, <3>1 DEF Longer
      <4>2. Worth(h, k, m) = Undefined
        BY <3>1, WorthIs
      <4>3. Worth(g, k, m) = Undefined
        BY <2>0, <4>1, WorthIs
      <4> QED BY <2>2, <4>2, <4>3
    <3>2. ASSUME NEW i \in Spots(h, k), h.var[s[k][i]].name = m
          PROVE  Worth(g, k, m) = Worth(h, k, m)
      <4>1. i \in Spots(g, k) /\ g.var[t[k][i]] = h.var[s[k][i]]
        BY <1>3 DEF Longer
      <4>2. Worth(h, k, m) = h.var[s[k][i]].value
        BY <3>2, WorthIs
      <4>3. Worth(g, k, m) = g.var[t[k][i]].value
        BY <2>0, <3>2, <4>1, WorthIs
      <4> QED BY <4>1, <4>2, <4>3
    <3> QED BY <2>2, <3>1, <3>2
  <2> QED BY <2>1, <2>2
<1> QED BY <1>3, <1>4 DEF g
-----------------------------------------------------------------------------
LEMMA PathsAre ==
    /\ DOMAIN Order \in SUBSET Nat /\ 0 \notin DOMAIN Order
    /\ DOMAIN Environment \in SUBSET Nat /\ 0 \notin DOMAIN Environment
    /\ \A i \in DOMAIN Order : Order[i] \in Lists
    /\ \A i \in DOMAIN Environment : Environment[i] \in Lists
    /\ \A i \in DOMAIN Environment : Environment[i] \in {"head", "outer"}
<1>1. DOMAIN Environment = 1 .. 2
  BY DEF Environment
<1>2. \A i \in 1 .. 2 : i = 1 \/ i = 2
  OBVIOUS
<1>3. Environment[1] = "head" /\ Environment[2] = "outer"
  BY DEF Environment
<1>4. \A i \in DOMAIN Order : Order[i] \in Lists
  BY DEF Lists
<1> QED BY <1>1, <1>2, <1>3, <1>4, OrderIs

LEMMA FirstIs ==
    ASSUME NEW h, NEW n, NEW path, DOMAIN path \in SUBSET Nat, 0 \notin DOMAIN path
    PROVE  \/ /\ FirstIn(h, path, n) = 0
              /\ \A i \in DOMAIN path : Lookup(h, path[i], n) = NULL
           \/ /\ FirstIn(h, path, n) \in DOMAIN path /\ FirstIn(h, path, n) # 0
              /\ Lookup(h, path[FirstIn(h, path, n)], n) # NULL
<1> DEFINE found == {i \in DOMAIN path : Lookup(h, path[i], n) # NULL}
<1>1. FirstIn(h, path, n) = IF found = {} THEN 0 ELSE Min(found)
  BY DEF FirstIn
<1>2. CASE found = {}
  BY <1>1, <1>2
<1>3. CASE found # {}
  <2>1. found \in SUBSET Nat
    OBVIOUS
  <2>2. \E m \in found : \A i \in found : m <= i
    <3> HIDE DEF found
    <3> QED BY <1>3, <2>1, Least
  <2>3. Min(found) \in found
    <3> HIDE DEF found
    <3> QED BY <2>2 DEF Min
  <2> QED BY <1>1, <1>3, <2>3
<1> QED BY <1>2, <1>3

LEMMA SolveIs ==
    ASSUME NEW h, NEW s, NEW open, Laid(h, s, open), NEW o \in Names \union Values
    PROVE  /\ Solve(h, o) \in Values \union {Undefined, Freed}
           /\ o \in Values => Solve(h, o) = o
           /\ Whole(h, s) /\ o \notin Values =>
                 Solve(h, o) = IF FirstIn(h, Order, o) = 0 THEN Undefined
                               ELSE Worth(h, Order[FirstIn(h, Order, o)], o)
           /\ Whole(h, s) => Solve(h, o) # Freed
<1> DEFINE i == FirstIn(h, Order, o)
<1>1. o \in Values => Solve(h, o) = o
  BY DEF Solve
<1>2. Freed \notin Values /\ Freed # Undefined /\ Freed \notin Nodes /\ Freed # NULL
  BY VariablesAssumption
<1>3. CASE o \notin Values /\ i = 0
  BY <1>2, <1>3 DEF Solve
<1>4. ASSUME o \notin Values, i # 0
      PROVE  /\ Solve(h, o) \in Values \union {Undefined, Freed}
             /\ Whole(h, s) => Solve(h, o) = Worth(h, Order[i], o) /\ Solve(h, o) # Freed
  <2>1. i \in DOMAIN Order /\ Lookup(h, Order[i], o) # NULL
    BY <1>4, FirstIs, PathsAre
  <2>2. Solve(h, o) = IF Lookup(h, Order[i], o) = Freed THEN Freed ELSE h.var[Lookup(h, Order[i], o)].value
    BY <1>4 DEF Solve
  <2>3. Order[i] \in Lists /\ o \in Names
    BY <1>4, <2>1, PathsAre
  <2> DEFINE l == Order[i]
  <2> HIDE DEF i
  <2>4. CASE \A k \in Spots(h, l) : h.var[s[l][k]].name # o
    <3>1. Lookup(h, l, o) = Freed /\ ~Closed(h, l, s[l])
      BY <2>1, <2>3, <2>4, LookupSays
    <3>2. ~Whole(h, s)
      BY <2>3, <3>1, OrderIs DEF Whole, Laid
    <3> QED BY <2>2, <3>1, <3>2
  <2>5. ASSUME NEW k \in Spots(h, l), h.var[s[l][k]].name = o
        PROVE  Solve(h, o) = Worth(h, l, o) /\ Solve(h, o) \in Values
    <3>1. Lookup(h, l, o) = s[l][k] /\ s[l][k] \in Nodes
      BY <2>3, <2>5, LookupSays, LaidFacts
    <3>2. Worth(h, l, o) = h.var[s[l][k]].value /\ Worth(h, l, o) \in Values
      BY <2>3, <2>5, WorthIs
    <3> QED BY <1>2, <2>2, <3>1, <3>2
  <2> QED BY <1>2, <2>4, <2>5
<1>5. CASE o \in Values
  BY <1>1, <1>2, <1>5
<1> QED BY <1>1, <1>3, <1>4, <1>5

(* What an assignment of x to name n of list l does, from heap h.          *)
Assigned(h, l, n, x) ==
    /\ UNCHANGED status
    /\ \E t : Whole(heap', t)
    /\ x \in Values
    /\ \A k \in Lists : \A m \in Names :
          Worth(heap', k, m) = IF k = l /\ m = n THEN x ELSE Worth(h, k, m)

LEMMA Assigns ==
    ASSUME NEW s, Whole(heap, s), NEW l \in Lists, NEW n \in Names, NEW x \in Values,
           Create(Without(heap, l, n), l, n, x)
    PROVE  Assigned(heap, l, n, x)
<1> DEFINE g == Without(heap, l, n)
<1>1. PICK t : /\ Laid(g, t, l)
               /\ \A i \in Spots(g, l) : g.var[t[l][i]].name # n
               /\ \A k \in Lists : \A m \in Names :
                     Worth(g, k, m) = IF k = l /\ m = n THEN Undefined ELSE Worth(heap, k, m)
  BY WithoutIs
<1>2. Create(g, l, n, x)
  OBVIOUS
<1> HIDE DEF g
<1>3. PICK v \in Nodes \ Live(g) : heap' = ListAppend(g, l, v, n, x)
  BY <1>2 DEF Create
<1>4. /\ \E u : Whole(ListAppend(g, l, v, n, x), u)
      /\ \A k \in Lists : \A m \in Names :
            Worth(ListAppend(g, l, v, n, x), k, m) = IF k = l /\ m = n THEN x ELSE Worth(g, k, m)
  BY <1>1, AppendIs
<1>5. \A k \in Lists : \A m \in Names :
         Worth(heap', k, m) = IF k = l /\ m = n THEN x ELSE Worth(heap, k, m)
  BY <1>1, <1>3, <1>4
<1>6. UNCHANGED status
  BY <1>2 DEF Create
<1> QED BY <1>3, <1>4, <1>5, <1>6 DEF Assigned

(* The instructions that solve before they remove.                         *)
LEMMA SolvedFirst ==
    ASSUME NEW s, Whole(heap, s), NEW l \in Lists, NEW n \in Names, NEW o \in Names \union Values,
           SolveAndReplace(l, n, o)
    PROVE  \/ status' = "failed" /\ UNCHANGED heap /\ Solve(heap, o) = Undefined
           \/ Assigned(heap, l, n, Solve(heap, o))
<1> DEFINE x == Solve(heap, o)
<1>1. x \in Values \union {Undefined} /\ Freed # Undefined /\ Undefined \notin Values /\ Freed \notin Values
  BY SolveIs, VariablesAssumption DEF Whole
<1>2. CASE x = Undefined
  BY <1>1, <1>2 DEF SolveAndReplace, Stop
<1>3. CASE x \in Values
  <2>1. Create(Without(heap, l, n), l, n, x)
    BY <1>1, <1>3 DEF SolveAndReplace
  <2> QED BY <1>3, <2>1, Assigns
<1> QED BY <1>1, <1>2, <1>3

(* The instructions that remove before they solve.  A literal is never     *)
(* looked for.                                                             *)
LEMMA RemovedFirst ==
    ASSUME NEW s, Whole(heap, s), NEW l \in Lists, NEW n \in Names, NEW o \in Names \union Values,
           RemoveAndSolve(l, n, o)
    PROVE  \/ status' \in {"failed", "fault"} /\ o \notin Values /\ \E t : Laid(heap', t, l)
           \/ \E x : Assigned(heap, l, n, x) /\ (o \in Values => x = o)
<1> DEFINE g == Without(heap, l, n)
           x == Solve(g, o)
<1>1. PICK t : Laid(g, t, l)
  BY WithoutIs
<1> HIDE DEF g
<1>2. x \in Values \union {Undefined, Freed} /\ (o \in Values => x = o)
      /\ Freed # Undefined /\ Undefined \notin Values /\ Freed \notin Values
  BY <1>1, SolveIs, VariablesAssumption
<1>3. RemoveAndSolve(l, n, o) <=>
        CASE x = Freed     -> Stop("fault") /\ heap' = g
          [] x = Undefined -> Stop("failed") /\ heap' = g
          [] OTHER         -> Create(g, l, n, x)
  BY DEF RemoveAndSolve, g
<1> HIDE DEF x
<1>4. CASE x \in {Undefined, Freed}
  BY <1>1, <1>2, <1>3, <1>4 DEF Stop
<1>5. CASE x \in Values
  <2>1. Create(g, l, n, x)
    BY <1>2, <1>3, <1>5
  <2>2. Assigned(heap, l, n, x)
    BY <1>5, <2>1, Assigns DEF g
  <2> QED BY <1>2, <2>2
<1> QED BY <1>2, <1>4, <1>5

(* No lists before the program starts and after it has ended.              *)
LEMMA EmptyWhole ==
    /\ \E t : Whole(Empty, t)
    /\ Live(Empty) = {}
    /\ \A l \in Lists : \A n \in Names : Worth(Empty, l, n) = Undefined
<1> DEFINE t == [l \in Lists |-> [i \in 1 .. 0 |-> NULL]]
<1>1. /\ Empty.begin = [l \in Lists |-> NULL] /\ Empty.end = [l \in Lists |-> NULL]
      /\ Empty.size = [l \in Lists |-> 0]
      /\ Empty.next = [v \in Nodes |-> NULL] /\ Empty.prev = [v \in Nodes |-> NULL]
      /\ Empty.var = [v \in Nodes |-> Free]
      /\ Empty = [begin |-> Empty.begin, end |-> Empty.end, size |-> Empty.size,
                  next |-> Empty.next, prev |-> Empty.prev, var |-> Empty.var]
  BY DEF Empty
<1>2. HeapType(Empty)
  <2>1. NULL \in Pointer /\ 0 \in Nat
    BY DEF Pointer
  <2>2. /\ Empty.begin \in [Lists -> Pointer] /\ Empty.end \in [Lists -> Pointer]
        /\ Empty.size \in [Lists -> Nat] /\ Empty.next \in [Nodes -> Pointer]
        /\ Empty.prev \in [Nodes -> Pointer]
        /\ Empty.var \in [Nodes -> [name : Names, value : Values] \union {Free}]
    BY <1>1, <2>1
  <2> QED BY <1>1, <2>2 DEF HeapType
<1>3. Live(Empty) = {}
  BY <1>1 DEF Live
<1>4. \A l \in Lists : /\ Empty.size[l] = 0 /\ Spots(Empty, l) = {} /\ Spots(Empty, l) = 1 .. 0
                       /\ Empty.begin[l] = NULL /\ Empty.end[l] = NULL
  BY <1>1 DEF Spots
<1>5. ASSUME NEW l \in Lists PROVE ListOf(Empty, l, t[l]) /\ Closed(Empty, l, t[l])
  <2>1. t[l] \in [Spots(Empty, l) -> Live(Empty)]
    BY <1>4
  <2> HIDE DEF t
  <2> QED BY <1>4, <2>1 DEF ListOf, Closed
<1>6. \A v \in Nodes \ Live(Empty) : Empty.next[v] = NULL
  BY <1>1
<1>7. DOMAIN t = Lists
  OBVIOUS
<1> HIDE DEF t
<1>8. Whole(Empty, t)
  BY <1>2, <1>3, <1>4, <1>5, <1>6, <1>7 DEF Whole, Laid
<1>9. \A l \in Lists : \A n \in Names : Worth(Empty, l, n) = Undefined
  BY <1>4, <1>8, WorthIs DEF Whole
<1> QED BY <1>3, <1>8, <1>9

(* One variable of the function around.                                    *)
LEMMA StartWhole ==
    ASSUME NEW v \in Nodes, NEW n \in Names, NEW x \in Values
    PROVE  /\ \E t : Whole(ListAppend(Empty, "outer", v, n, x), t)
           /\ \A l \in Lists : \A m \in Names :
                 Worth(ListAppend(Empty, "outer", v, n, x), l, m) =
                    IF l = "outer" /\ m = n THEN x ELSE Undefined
<1>1. "outer" \in Lists
  BY OrderIs
<1>2. PICK t : Whole(Empty, t)
  BY EmptyWhole
<1>3. Laid(Empty, t, "outer")
  BY <1>2, OrderIs DEF Whole, Laid
<1>4. v \in Nodes \ Live(Empty)
  BY EmptyWhole
<1>5. \A i \in Spots(Empty, "outer") : Empty.var[t["outer"][i]].name # n
  <2>1. Spots(Empty, "outer") = {}
    BY <1>1 DEF Empty, Spots
  <2> QED BY <2>1
<1>6. /\ \E u : Whole(ListAppend(Empty, "outer", v, n, x), u)
      /\ \A l \in Lists : \A m \in Names :
            Worth(ListAppend(Empty, "outer", v, n, x), l, m) =
               IF l = "outer" /\ m = n THEN x ELSE Worth(Empty, l, m)
  BY <1>1, <1>3, <1>4, <1>5, AppendIs
<1> QED BY <1>6, EmptyWhole
-----------------------------------------------------------------------------
Ran == [op : Pops \union {"none"}, name : Names \union {Undefined},
        operand : Names \union Values \union {Undefined}]

(* The lists may be read whatever happens, and while the program runs they *)
(* are whole.                                                              *)
Settled ==
    /\ status \in {"running", "failed", "ended", "fault"}
    /\ ran \in Ran
    /\ \E t, open : Laid(heap, t, open)
    /\ status = "running" => \E t : Whole(heap, t)

LEMMA Apart ==
    ASSUME NEW S, NEW T, IsFiniteSet(S), IsFiniteSet(T), S \intersect T = {}
    PROVE  /\ IsFiniteSet(S \union T)
           /\ Cardinality(S \union T) = Cardinality(S) + Cardinality(T)
<1>1. /\ Cardinality(S) \in Nat /\ Cardinality(T) \in Nat /\ Cardinality({}) = 0
  BY FS_CardinalityType, FS_EmptySet
<1>2. /\ IsFiniteSet(S \union T)
      /\ Cardinality(S \union T) = Cardinality(S) + Cardinality(T) - Cardinality(S \intersect T)
  BY FS_Union
<1> DEFINE c == S \intersect T
<1>3. c = {} /\ Cardinality(S \union T) = Cardinality(S) + Cardinality(T) - Cardinality(c)
  BY <1>2
<1> HIDE DEF c
<1>4. Cardinality(c) = 0
  BY <1>1, <1>3
<1> QED BY <1>1, <1>2, <1>3, <1>4

LEMMA SettledConsistent == Settled => Consistent
<1> SUFFICES ASSUME Settled PROVE Consistent
  OBVIOUS
<1>1. TypeOK
  <2>1. PICK t, open : Laid(heap, t, open)
    BY DEF Settled
  <2>2. HeapType(heap)
    BY <2>1 DEF Laid
  <2>3. \A l \in Lists : heap.size[l] \in 0 .. Cardinality(Nodes)
    <3>1. ASSUME NEW l \in Lists PROVE heap.size[l] \in 0 .. Cardinality(Nodes)
      <4>1. heap.size[l] \in Nat /\ heap.size[l] <= Cardinality(Nodes)
        BY <2>1, LaidFacts, ListFits
      <4>2. Cardinality(Nodes) \in Nat
        BY FS_CardinalityType, VariablesAssumption
      <4> QED BY <4>1, <4>2
    <3> QED BY <3>1
  <2>4. heap.size \in [Lists -> Nat]
    BY <2>2 DEF HeapType
  <2>5. heap.size \in [Lists -> 0 .. Cardinality(Nodes)]
    BY <2>3, <2>4
  <2>6. /\ heap.begin \in [Lists -> Pointer] /\ heap.end \in [Lists -> Pointer]
        /\ heap.next \in [Nodes -> Pointer] /\ heap.prev \in [Nodes -> Pointer]
        /\ heap.var \in [Nodes -> [name : Names, value : Values] \union {Free}]
    BY <2>2 DEF HeapType
  <2> QED BY <2>5, <2>6 DEF TypeOK, Settled, Ran
<1>2. ListsAreWhole
  <2> SUFFICES ASSUME status = "running" PROVE ListsAreWhole
    BY DEF ListsAreWhole
  <2> DEFINE Met(l) == {Walk(heap, l)[k] : k \in DOMAIN Walk(heap, l)} \ {NULL}
             N == Cardinality(Nodes)
  <2>1. PICK s : Whole(heap, s)
    BY DEF Settled
  <2>2. Laid(heap, s, "none")
    BY <2>1 DEF Whole
  <2>3. ASSUME NEW l \in Lists
        PROVE  /\ heap.size[l] \in Nat
               /\ \A v : v \in Met(l) <=> \E i \in 1 .. heap.size[l] : v = s[l][i]
               /\ IsFiniteSet(Met(l)) /\ Cardinality(Met(l)) = heap.size[l]
               /\ Cardinality({heap.var[v].name : v \in Met(l)}) = heap.size[l]
               /\ IF heap.size[l] = 0 THEN heap.end[l] = NULL
                  ELSE heap.end[l] \in Met(l) /\ heap.next[heap.end[l]] = NULL
    <3> DEFINE m == heap.size[l]
               met == {s[l][i] : i \in 1 .. m}
    <3>1. m \in Nat /\ m <= N /\ N \in Nat /\ IsFiniteSet(met) /\ Cardinality(met) = m
      BY <2>2, LaidFacts, ListFits, FS_CardinalityType, VariablesAssumption
    <3>2. \A i \in 1 .. m : s[l][i] \in Nodes /\ s[l][i] # NULL
      BY <2>2, LaidFacts, VariablesAssumption DEF Spots
    <3>3. /\ DOMAIN Walk(heap, l) = 0 .. N
          /\ \A k \in 0 .. N : Walk(heap, l)[k] = IF k < m THEN s[l][k + 1] ELSE NULL
      BY <2>1, WalkIs
    <3>4. ASSUME NEW v PROVE v \in Met(l) <=> v \in met
      <4>1. ASSUME v \in Met(l) PROVE v \in met
        <5>1. PICK k \in 0 .. N : v = Walk(heap, l)[k]
          BY <3>3, <4>1
        <5>2. k < m /\ v = s[l][k + 1]
          BY <3>3, <4>1, <5>1
        <5>3. k + 1 \in 1 .. m
          BY <3>1, <5>2
        <5> QED BY <5>2, <5>3
      <4>2. ASSUME v \in met PROVE v \in Met(l)
        <5>1. PICK i \in 1 .. m : v = s[l][i]
          BY <4>2
        <5>2. i - 1 \in 0 .. N /\ i - 1 < m /\ (i - 1) + 1 = i
          BY <3>1
        <5>3. Walk(heap, l)[i - 1] = v
          BY <3>3, <5>1, <5>2
        <5> QED BY <3>2, <3>3, <5>1, <5>2, <5>3
      <4> QED BY <4>1, <4>2
    <3>5. Met(l) = met
      <4> HIDE DEF Met, met
      <4> QED BY <3>4
    <3>6. Cardinality({heap.var[v].name : v \in met}) = m
      <4> DEFINE f == [i \in 1 .. m |-> heap.var[s[l][i]].name]
                 names == {f[i] : i \in 1 .. m}
      <4>1. \A i, j \in 1 .. m : f[i] = f[j] => i = j
        BY <2>2, LaidFacts DEF Spots
      <4>2. Cardinality(names) = m
        <5>1. m \in Nat
          BY <3>1
        <5> HIDE DEF f, m
        <5> QED BY <5>1, <4>1, Different, ZenonT(30)
      <4>3. {heap.var[v].name : v \in met} = names
        OBVIOUS
      <4> QED BY <4>2, <4>3
    <3>7. IF m = 0 THEN heap.end[l] = NULL
          ELSE heap.end[l] \in met /\ heap.next[heap.end[l]] = NULL
      <4>1. ListOf(heap, l, s[l]) /\ Closed(heap, l, s[l])
        BY <2>2, OrderIs DEF Laid
      <4>2. m # 0 => m \in 1 .. m
        BY <3>1
      <4> QED BY <4>1, <4>2 DEF ListOf, Closed
    <3> HIDE DEF Met, met
    <3>8. \A v : v \in met <=> \E i \in 1 .. m : v = s[l][i]
      BY DEF met
    <3> QED BY <3>1, <3>5, <3>6, <3>7, <3>8
  <2>m. \A l \in Lists : \A v : v \in Met(l) <=> \E i \in 1 .. heap.size[l] : v = s[l][i]
    <3> HIDE DEF Met
    <3> QED BY <2>3, Zenon
  <2>4. \A v \in Live(heap) : \E l \in Lists : v \in Met(l)
    <3> HIDE DEF Met
    <3>1. \A v \in Live(heap) : \E l \in Lists : \E i \in 1 .. heap.size[l] : v = s[l][i]
      BY <2>2 DEF Laid, Spots
    <3> QED BY <2>m, <3>1
  <2>5. \A l \in Lists : \A v \in Met(l) : v \in Live(heap)
    <3> HIDE DEF Met
    <3> SUFFICES ASSUME NEW l \in Lists, NEW v, v \in Met(l) PROVE v \in Live(heap)
      OBVIOUS
    <3>1. PICK i \in 1 .. heap.size[l] : v = s[l][i]
      BY <2>m
    <3> QED BY <2>2, <3>1, LaidFacts DEF Live, Spots
  <2>6. UNION {Met(l) : l \in Lists} = Live(heap)
    <3> HIDE DEF Met
    <3> QED BY <2>4, <2>5
  <2>7. \A k, l \in Lists : k # l => Met(k) \intersect Met(l) = {}
    <3> HIDE DEF Met
    <3> SUFFICES ASSUME NEW k \in Lists, NEW l \in Lists, NEW v, v \in Met(k), v \in Met(l) PROVE k = l
      OBVIOUS
    <3>1. PICK i \in 1 .. heap.size[k] : v = s[k][i]
      BY <2>m
    <3>2. PICK j \in 1 .. heap.size[l] : v = s[l][j]
      BY <2>m
    <3>3. \A p \in Spots(heap, k), q \in Spots(heap, l) : s[k][p] = s[l][q] => k = l
      BY <2>2, LaidFacts
    <3> QED BY <3>1, <3>2, <3>3 DEF Spots
  <2>8. Cardinality(Live(heap)) = heap.size["frame"] + heap.size["head"] + heap.size["outer"]
                                  + heap.size["module"] + heap.size["global"]
    <3> DEFINE F == Met("frame")
               H == Met("head")
               O == Met("outer")
               M == Met("module")
               G == Met("global")
    <3>1. "frame" \in Lists /\ "head" \in Lists /\ "outer" \in Lists /\ "module" \in Lists
          /\ "global" \in Lists
      BY OrderIs
    <3> HIDE DEF Met
    <3>2. /\ IsFiniteSet(F) /\ Cardinality(F) = heap.size["frame"]
          /\ IsFiniteSet(H) /\ Cardinality(H) = heap.size["head"]
          /\ IsFiniteSet(O) /\ Cardinality(O) = heap.size["outer"]
          /\ IsFiniteSet(M) /\ Cardinality(M) = heap.size["module"]
          /\ IsFiniteSet(G) /\ Cardinality(G) = heap.size["global"]
      BY <2>3, <3>1
    <3>3. /\ F \intersect H = {} /\ (F \union H) \intersect O = {}
          /\ (F \union H \union O) \intersect M = {}
          /\ (F \union H \union O \union M) \intersect G = {}
      BY <2>7, <3>1
    <3>4. Live(heap) = F \union H \union O \union M \union G
      BY <2>4, <2>5, OrderIs
    <3> HIDE DEF F, H, O, M, G
    <3>5. IsFiniteSet(F \union H) /\ Cardinality(F \union H) = heap.size["frame"] + heap.size["head"]
      BY <3>2, <3>3, Apart
    <3>6. IsFiniteSet(F \union H \union O) /\ Cardinality(F \union H \union O)
             = heap.size["frame"] + heap.size["head"] + heap.size["outer"]
      BY <3>2, <3>3, <3>5, Apart
    <3>7. IsFiniteSet(F \union H \union O \union M) /\ Cardinality(F \union H \union O \union M)
             = heap.size["frame"] + heap.size["head"] + heap.size["outer"] + heap.size["module"]
      <4> DEFINE P == F \union H \union O
      <4>1. IsFiniteSet(P) /\ IsFiniteSet(M) /\ P \intersect M = {}
        BY <3>2, <3>3, <3>6
      <4>2. Cardinality(P \union M) = Cardinality(P) + Cardinality(M) /\ IsFiniteSet(P \union M)
        <5> HIDE DEF P
        <5> QED BY <4>1, Apart
      <4> QED BY <3>2, <3>6, <4>2
    <3> QED BY <3>2, <3>3, <3>4, <3>7, Apart
  <2>9. \A l \in Lists :
          /\ Cardinality(Met(l)) = heap.size[l]
          /\ Cardinality({heap.var[v].name : v \in Met(l)}) = heap.size[l]
          /\ IF heap.size[l] = 0 THEN heap.end[l] = NULL
             ELSE heap.end[l] \in Met(l) /\ heap.next[heap.end[l]] = NULL
    <3> HIDE DEF Met
    <3> QED BY <2>3
  <2> QED BY <2>6, <2>8, <2>9 DEF ListsAreWhole
<1> QED BY <1>1, <1>2 DEF Consistent
-----------------------------------------------------------------------------
(* An instruction is noted.                                                *)
LEMMA RunsIs ==
    ASSUME NEW op \in Pops, NEW n \in Names, NEW o \in Names \union Values, Runs(op, n, o)
    PROVE  status = "running" /\ ran' \in Ran
BY DEF Runs, Ran

(* The list that an instruction assigns a name in.                         *)
Target(op, n) ==
    LET i == FirstIn(heap, Environment, n)
    IN  CASE op = "POP"   -> "frame"
          [] op = "POPCL" -> "head"
          [] op = "POPM"  -> "module"
          [] op = "POPG"  -> "global"
          [] OTHER        -> IF i = 0 THEN "head" ELSE Environment[i]

LEMMA TargetIs ==
    ASSUME NEW s, Whole(heap, s), NEW op, NEW n \in Names
    PROVE  Target(op, n) \in Lists
<1> DEFINE i == FirstIn(heap, Environment, n)
<1>1. i = 0 \/ i \in DOMAIN Environment
  BY FirstIs, PathsAre
<1>2. /\ "frame" \in Lists /\ "head" \in Lists /\ "module" \in Lists /\ "global" \in Lists
      /\ (i # 0 => Environment[i] \in Lists)
  BY <1>1, OrderIs, PathsAre
<1>3. \/ Target(op, n) \in {"frame", "head", "module", "global"}
      \/ i # 0 /\ Target(op, n) = Environment[i]
  BY DEF Target
<1> HIDE DEF i
<1> QED BY <1>2, <1>3

(* What one instruction of each kind does to whole lists.                  *)
LEMMA EarlyInstruction ==
    ASSUME NEW s, Whole(heap, s), NEW n \in Names, NEW o \in Operands,
           Pop(n, o) \/ PopC(n, o) \/ PopCX(n, o)
    PROVE  \E op \in Pops :
              /\ Runs(op, n, o)
              /\ \/ /\ status' = "failed" /\ UNCHANGED heap
                    /\ \/ Solve(heap, o) = Undefined
                       \/ op = "POPCX" /\ FirstIn(heap, Environment, n) = 0
                 \/ /\ Assigned(heap, Target(op, n), n, Solve(heap, o))
                    /\ ~ (op = "POPCX" /\ FirstIn(heap, Environment, n) = 0)
<1> DEFINE i == FirstIn(heap, Environment, n)
<1>1. o \in Names \union Values /\ \A op : Target(op, n) \in Lists
  BY VariablesAssumption, TargetIs
<1>2. /\ Target("POP", n) = "frame"
      /\ Target("POPC", n) = IF i = 0 THEN "head" ELSE Environment[i]
      /\ Target("POPCX", n) = IF i = 0 THEN "head" ELSE Environment[i]
  BY DEF Target
<1> HIDE DEF i
<1>3. ASSUME NEW l \in Lists, SolveAndReplace(l, n, o)
      PROVE  \/ status' = "failed" /\ UNCHANGED heap /\ Solve(heap, o) = Undefined
             \/ Assigned(heap, l, n, Solve(heap, o))
  BY <1>1, <1>3, SolvedFirst
<1>4. CASE Pop(n, o)
  <2>1. Runs("POP", n, o) /\ SolveAndReplace(Target("POP", n), n, o) /\ "POP" \in Pops
    BY <1>2, <1>4 DEF Pop, Pops
  <2> QED BY <1>1, <1>3, <2>1
<1>5. CASE PopC(n, o)
  <2>1. Runs("POPC", n, o) /\ SolveAndReplace(Target("POPC", n), n, o) /\ "POPC" \in Pops
    BY <1>2, <1>5 DEF PopC, Pops, i
  <2> QED BY <1>1, <1>3, <2>1
<1>6. CASE PopCX(n, o)
  <2>1. /\ Runs("POPCX", n, o) /\ "POPCX" \in Pops
        /\ IF i = 0 THEN Stop("failed") /\ UNCHANGED heap ELSE SolveAndReplace(Environment[i], n, o)
    BY <1>6 DEF PopCX, Pops, i
  <2>2. CASE i = 0
    <3>1. status' = "failed" /\ UNCHANGED heap
      BY <2>1, <2>2 DEF Stop
    <3> QED BY <2>1, <2>2, <3>1 DEF i
  <2>3. CASE i # 0
    <3>1. SolveAndReplace(Target("POPCX", n), n, o)
      BY <1>2, <2>1, <2>3
    <3> QED BY <1>1, <1>3, <2>1, <2>3, <3>1 DEF i
  <2> QED BY <2>2, <2>3
<1> QED BY <1>4, <1>5, <1>6

LEMMA LateInstruction ==
    ASSUME NEW s, Whole(heap, s), NEW n \in Names, NEW o \in LateOperands,
           PopCL(n, o) \/ PopM(n, o) \/ PopG(n, o)
    PROVE  \E op \in {"POPCL", "POPM", "POPG"} :
              /\ Runs(op, n, o)
              /\ \/ /\ status' \in {"failed", "fault"} /\ o \notin Values
                    /\ \E t, open : Laid(heap', t, open)
                 \/ \E x : Assigned(heap, Target(op, n), n, x) /\ (o \in Values => x = o)
<1>1. PICK op \in {"POPCL", "POPM", "POPG"} :
          Runs(op, n, o) /\ RemoveAndSolve(Target(op, n), n, o)
  <2>1. Target("POPCL", n) = "head" /\ Target("POPM", n) = "module" /\ Target("POPG", n) = "global"
    BY DEF Target
  <2> QED BY <2>1 DEF PopCL, PopM, PopG
<1>2. Target(op, n) \in Lists /\ o \in Names \union Values
  BY TargetIs, VariablesAssumption
<1> QED BY <1>1, <1>2, RemovedFirst

(* Whatever the operands are, the lists can be read.                       *)
LEMMA SettledStays ==
    /\ Init => Settled
    /\ Settled /\ [Next]_vars => Settled'
<1>1. ASSUME Init PROVE Settled
  <2>1. \E t : Whole(heap, t)
    BY <1>1, EmptyWhole, StartWhole DEF Init
  <2> QED BY <1>1, <2>1 DEF Settled, Init, Whole, Ran
<1>2. ASSUME Settled, Next PROVE Settled'
  <2>1. ASSUME \E t : Whole(heap', t), status' \in {"running", "failed", "ended", "fault"},
               ran' \in Ran
        PROVE  Settled'
    BY <2>1 DEF Settled, Whole
  <2>2. ASSUME \E t, open : Laid(heap', t, open), status' \in {"failed", "fault", "ended"},
               ran' \in Ran
        PROVE  Settled'
    BY <2>2 DEF Settled
  <2>3. CASE End
    BY <1>2, <2>1, <2>3, EmptyWhole DEF End, Stop, Settled
  <2>4. ASSUME NEW n \in Names, NEW o \in Operands, Pop(n, o) \/ PopC(n, o) \/ PopCX(n, o)
        PROVE  Settled'
    <3>1. PICK op \in Pops : Runs(op, n, o)
      BY <2>4 DEF Pop, PopC, PopCX, Pops
    <3>2. status = "running" /\ ran' \in Ran
      BY <3>1, RunsIs, VariablesAssumption
    <3>3. PICK s : Whole(heap, s)
      BY <1>2, <3>2 DEF Settled
    <3>4. CASE status' = "failed" /\ UNCHANGED heap
      BY <2>1, <3>2, <3>3, <3>4
    <3>5. ASSUME NEW l, Assigned(heap, l, n, Solve(heap, o)) PROVE Settled'
      BY <2>1, <3>2, <3>5 DEF Assigned
    <3> QED BY <2>4, <3>3, <3>4, <3>5, EarlyInstruction
  <2>5. ASSUME NEW n \in Names, NEW o \in LateOperands, PopCL(n, o) \/ PopM(n, o) \/ PopG(n, o)
        PROVE  Settled'
    <3>1. PICK op \in Pops : Runs(op, n, o)
      BY <2>5 DEF PopCL, PopM, PopG, Pops
    <3>2. status = "running" /\ ran' \in Ran
      BY <3>1, RunsIs, VariablesAssumption
    <3>3. PICK s : Whole(heap, s)
      BY <1>2, <3>2 DEF Settled
    <3>4. CASE status' \in {"failed", "fault"} /\ \E t, open : Laid(heap', t, open)
      BY <2>2, <3>2, <3>4
    <3>5. ASSUME NEW l, NEW x, Assigned(heap, l, n, x) PROVE Settled'
      BY <2>1, <3>2, <3>5 DEF Assigned
    <3> QED BY <2>5, <3>3, <3>4, <3>5, LateInstruction
  <2> QED BY <1>2, <2>3, <2>4, <2>5 DEF Next
<1>3. ASSUME Settled, UNCHANGED vars PROVE Settled'
  BY <1>3 DEF Settled, vars
<1> QED BY <1>1, <1>2, <1>3

(* Pointers, sizes and variables of the five lists agree between           *)
(* instructions, whatever is assigned, and in whichever order variables    *)
(* are removed and appended (virtual_machine_variable_list_append_with_    *)
(* configure, virtual_machine_variable_list_remove and the POP family).    *)
THEOREM StaysConsistent == Spec => []Consistent
<1>1. Spec => []Settled
  BY SettledStays, PTL DEF Spec
<1> QED BY <1>1, SettledConsistent, PTL
-----------------------------------------------------------------------------
(* With literals after POPCL, POPM and POPG, no pointer is left behind.    *)
Safe ==
    /\ Settled
    /\ status # "fault"
    /\ status = "failed" => \E t : Whole(heap, t)

LEMMA SafeStays ==
    ASSUME LateOperands \subseteq Values
    PROVE  /\ Init => Safe
           /\ Safe /\ [Next]_vars => Safe'
<1>1. ASSUME Init PROVE Safe
  BY <1>1, SettledStays DEF Safe, Init
<1>2. ASSUME Safe, Next PROVE Safe'
  <2>1. Settled'
    BY <1>2, SettledStays DEF Safe
  <2>2. CASE End
    <3>1. PICK s : Whole(heap, s)
      BY <1>2, <2>2 DEF Safe, Settled, End
    <3>2. ASSUME NEW l \in Lists, NEW k \in DOMAIN Walk(heap, l)
          PROVE  Walk(heap, l)[k] \notin Nodes \ Live(heap)
      <4>1. k \in 0 .. Cardinality(Nodes) /\ heap.size[l] \in Nat /\ Cardinality(Nodes) \in Nat
        BY <3>1, WalkIs, LaidFacts, FS_CardinalityType, VariablesAssumption DEF Whole
      <4>2. Walk(heap, l)[k] = IF k < heap.size[l] THEN s[l][k + 1] ELSE NULL
        BY <3>1, <4>1, WalkIs
      <4>3. k < heap.size[l] => k + 1 \in Spots(heap, l)
        BY <4>1 DEF Spots
      <4>4. k < heap.size[l] => s[l][k + 1] \in Live(heap)
        BY <3>1, <4>3, LaidFacts DEF Whole, Live
      <4> QED BY <4>2, <4>4, VariablesAssumption
    <3>3. status' = "ended"
      BY <2>2, <3>2 DEF End, Stop
    <3> QED BY <2>1, <3>3 DEF Safe
  <2>3. ASSUME NEW n \in Names, NEW o \in Operands, Pop(n, o) \/ PopC(n, o) \/ PopCX(n, o)
        PROVE  Safe'
    <3>1. status = "running"
      BY <2>3 DEF Pop, PopC, PopCX, Runs
    <3>2. PICK s : Whole(heap, s)
      BY <1>2, <3>1 DEF Safe, Settled
    <3>3. CASE status' = "failed" /\ UNCHANGED heap
      BY <2>1, <3>2, <3>3 DEF Safe
    <3>4. ASSUME NEW l, Assigned(heap, l, n, Solve(heap, o)) PROVE Safe'
      BY <2>1, <3>1, <3>4 DEF Assigned, Safe
    <3> QED BY <2>3, <3>2, <3>3, <3>4, EarlyInstruction
  <2>4. ASSUME NEW n \in Names, NEW o \in LateOperands, PopCL(n, o) \/ PopM(n, o) \/ PopG(n, o)
        PROVE  Safe'
    <3>1. status = "running" /\ o \in Values
      BY <2>4 DEF PopCL, PopM, PopG, Runs
    <3>2. PICK s : Whole(heap, s)
      BY <1>2, <3>1 DEF Safe, Settled
    <3>3. PICK l, x : Assigned(heap, l, n, x)
      BY <2>4, <3>1, <3>2, LateInstruction
    <3> QED BY <2>1, <3>1, <3>3 DEF Assigned, Safe
  <2> QED BY <1>2, <2>2, <2>3, <2>4 DEF Next
<1>3. ASSUME Safe, UNCHANGED vars PROVE Safe'
  <2>1. Settled'
    BY <1>3, SettledStays DEF Safe
  <2> QED BY <1>3, <2>1 DEF Safe, vars
<1> QED BY <1>1, <1>2, <1>3

(* No instruction and no clean-up reads a variable that was freed, as long *)
(* as POPCL, POPM and POPG, which remove the old variable before they      *)
(* solve their operand, are given literals.                                *)
THEOREM NothingFreedIsRead ==
    ASSUME LateOperands \subseteq Values
    PROVE  Spec => []NoFreedVariableRead
<1>1. Safe => NoFreedVariableRead
  BY DEF Safe, NoFreedVariableRead
<1> QED BY <1>1, SafeStays, PTL DEF Spec
-----------------------------------------------------------------------------
(* The scopes that the lists of a heap are.                                *)
Meant(h) == [l \in Lists |-> [n \in Names |-> Worth(h, l, n)]]

LEMMA ScopesAre ==
    /\ Promise!Scope = Lists /\ Promise!Order = Order /\ Promise!Environment = Environment
    /\ Promise!Nothing = [l \in Lists |-> [n \in Names |-> Undefined]]
    /\ Promise!Pops = Pops
<1>1. Promise!Order = Order /\ Promise!Environment = Environment
  BY DEF Promise!Order, Order, Promise!Environment, Environment
<1>2. Promise!Scope = Lists
  BY <1>1 DEF Promise!Scope, Lists
<1> QED BY <1>1, <1>2 DEF Promise!Nothing, Promise!Pops, Pops

Scoped == [l \in Lists |-> [n \in Names |-> Value(l, n)]]

LEMMA MeantIs == Scoped = Meant(heap)
BY DEF Scoped, Meant, Value, Worth

LEMMA FirstAgrees ==
    ASSUME NEW h, NEW s, Whole(h, s), NEW n \in Names,
           NEW path, \A i \in DOMAIN path : path[i] \in Lists
    PROVE  Promise!First(Meant(h), path, n) = FirstIn(h, path, n)
<1> DEFINE having == {i \in DOMAIN path : Meant(h)[path[i]][n] # Undefined}
           found == {i \in DOMAIN path : Lookup(h, path[i], n) # NULL}
<1>1. \A i \in DOMAIN path : Meant(h)[path[i]][n] = Worth(h, path[i], n)
  BY DEF Meant
<1>2. having = found
  BY <1>1, WholeWorth
<1>3. Promise!First(Meant(h), path, n) = IF having = {} THEN 0 ELSE Min(having)
  BY DEF Promise!First, Promise!Min, Min
<1>4. FirstIn(h, path, n) = IF found = {} THEN 0 ELSE Min(found)
  BY DEF FirstIn
<1> QED BY <1>2, <1>3, <1>4

LEMMA MeaningAgrees ==
    ASSUME NEW h, NEW s, Whole(h, s), NEW o \in Names \union Values
    PROVE  Promise!Meaning(Meant(h), o) = Solve(h, o)
<1> DEFINE i == FirstIn(h, Order, o)
<1>1. CASE o \in Values
  BY <1>1 DEF Promise!Meaning, Solve
<1>2. CASE o \notin Values
  <2>1. Promise!First(Meant(h), Order, o) = i
    BY <1>2, FirstAgrees, PathsAre
  <2>2. Solve(h, o) = IF i = 0 THEN Undefined ELSE Worth(h, Order[i], o)
    BY <1>2, SolveIs DEF Whole
  <2>3. i # 0 => Order[i] \in Lists
    BY FirstIs, PathsAre
  <2>4. i # 0 => Meant(h)[Order[i]][o] = Worth(h, Order[i], o)
    BY <1>2, <2>3 DEF Meant
  <2>5. Promise!Meaning(Meant(h), o) =
          IF Promise!First(Meant(h), Order, o) = 0 THEN Undefined
          ELSE Meant(h)[Order[Promise!First(Meant(h), Order, o)]][o]
    BY <1>2, ScopesAre DEF Promise!Meaning
  <2> HIDE DEF i
  <2> QED BY <2>1, <2>2, <2>4, <2>5
<1> QED BY <1>1, <1>2

LEMMA StartsAsScopes == Init => Promise!Init
<1> SUFFICES ASSUME Init PROVE Promise!Init
  OBVIOUS
<1>1. ASSUME NEW f \in [Names -> Values \union {Undefined}],
             \A l \in Lists : \A m \in Names :
                Worth(heap, l, m) = IF l = "outer" THEN f[m] ELSE Undefined
      PROVE  Promise!Init
  <2>1. Meant(heap) = [Promise!Nothing EXCEPT !["outer"] = f]
    <3> DEFINE e == [Promise!Nothing EXCEPT !["outer"] = f]
    <3>1. Promise!Nothing = [l \in Lists |-> [n \in Names |-> Undefined]]
      BY ScopesAre
    <3>2. e = [l \in Lists |-> IF l = "outer" THEN f ELSE [n \in Names |-> Undefined]]
      BY <3>1, OrderIs
    <3>3. ASSUME NEW l \in Lists
          PROVE  [n \in Names |-> Worth(heap, l, n)] = IF l = "outer" THEN f ELSE [n \in Names |-> Undefined]
      BY <1>1
    <3> HIDE DEF e
    <3> QED BY <3>2, <3>3 DEF Meant, e
  <2>2. status = "running" /\ ran = Promise!NoneYet
    BY DEF Init, Promise!NoneYet
  <2> QED BY <2>1, <2>2, MeantIs DEF Promise!Init, Scoped
<1>2. CASE heap = Empty
  <2> DEFINE f == [m \in Names |-> Undefined]
  <2>1. f \in [Names -> Values \union {Undefined}]
    OBVIOUS
  <2>2. \A l \in Lists : \A m \in Names : Worth(heap, l, m) = IF l = "outer" THEN f[m] ELSE Undefined
    BY <1>2, EmptyWhole
  <2> HIDE DEF f
  <2> QED BY <1>1, <2>1, <2>2
<1>3. ASSUME NEW v \in Nodes, NEW n \in Names, NEW x \in Values, heap = ListAppend(Empty, "outer", v, n, x)
      PROVE  Promise!Init
  <2> DEFINE f == [m \in Names |-> IF m = n THEN x ELSE Undefined]
  <2>1. f \in [Names -> Values \union {Undefined}]
    OBVIOUS
  <2>2. \A l \in Lists : \A m \in Names : Worth(heap, l, m) = IF l = "outer" THEN f[m] ELSE Undefined
    BY <1>3, StartWhole
  <2> HIDE DEF f
  <2> QED BY <1>1, <2>1, <2>2
<1> QED BY <1>2, <1>3 DEF Init

(* Scopes and lists agree on where an instruction assigns and when it fails. *)
LEMMA TargetAgrees ==
    ASSUME NEW s, Whole(heap, s), NEW op, NEW n \in Names, NEW o \in Names \union Values
    PROVE  /\ Promise!Target(Scoped, op, n) = Target(op, n)
           /\ Promise!Meaning(Scoped, o) = Solve(heap, o)
           /\ Promise!Fails(Scoped, op, n, o) <=>
                \/ Solve(heap, o) = Undefined
                \/ op = "POPCX" /\ FirstIn(heap, Environment, n) = 0
<1>1. Promise!First(Scoped, Promise!Environment, n) = FirstIn(heap, Environment, n)
  BY FirstAgrees, PathsAre, ScopesAre, MeantIs
<1>2. Promise!Meaning(Scoped, o) = Solve(heap, o)
  BY MeaningAgrees, MeantIs
<1>3. Promise!Target(Scoped, op, n) = Target(op, n)
  BY <1>1, ScopesAre DEF Promise!Target, Target
<1> QED BY <1>1, <1>2, <1>3 DEF Promise!Fails

(* An assignment of the code is the one of the scopes: that name of that   *)
(* scope has the value of the operand, all others keep theirs.             *)
LEMMA AssignAgrees ==
    ASSUME NEW s, Whole(heap, s), NEW op \in Pops, NEW n \in Names, NEW o \in Names \union Values,
           Runs(op, n, o), Assigned(heap, Target(op, n), n, Solve(heap, o)),
           ~ (op = "POPCX" /\ FirstIn(heap, Environment, n) = 0)
    PROVE  Promise!Assign(op, n, o)
<1> DEFINE l == Target(op, n)
           x == Solve(heap, o)
<1>1. /\ x \in Values /\ UNCHANGED status
      /\ \A k \in Lists : \A m \in Names :
            Worth(heap', k, m) = IF k = l /\ m = n THEN x ELSE Worth(heap, k, m)
  BY DEF Assigned
<1>2. l \in Lists /\ x # Undefined
  BY <1>1, TargetIs, VariablesAssumption
<1>3. Promise!Target(Scoped, op, n) = l /\ Promise!Meaning(Scoped, o) = x
      /\ ~ Promise!Fails(Scoped, op, n, o)
  BY <1>2, TargetAgrees
<1> HIDE DEF l, x
<1>4. Meant(heap') = [Meant(heap) EXCEPT ![l][n] = x]
  <2>1. [Meant(heap) EXCEPT ![l][n] = x] =
           [k \in Lists |-> IF k = l THEN [Meant(heap)[l] EXCEPT ![n] = x] ELSE Meant(heap)[k]]
    BY DEF Meant
  <2>2. ASSUME NEW k \in Lists
        PROVE  [m \in Names |-> Worth(heap', k, m)] =
                  IF k = l THEN [Meant(heap)[l] EXCEPT ![n] = x] ELSE Meant(heap)[k]
    BY <1>1, <1>2 DEF Meant
  <2> QED BY <2>1, <2>2 DEF Meant
<1>5. Scoped = Meant(heap) /\ (Scoped = Meant(heap))'
  BY MeantIs, PTL
<1>6. Scoped' = [Scoped EXCEPT ![Promise!Target(Scoped, op, n)][n] = Promise!Meaning(Scoped, o)]
  BY <1>3, <1>4, <1>5
<1>7. status = "running" /\ ran' = [op |-> op, name |-> n, operand |-> o]
  BY DEF Runs
<1> QED BY <1>1, <1>3, <1>6, <1>7 DEF Promise!Assign, Scoped

LEMMA ScopesStep ==
    ASSUME LateOperands \subseteq Values
    PROVE  Safe /\ [Next]_vars => [Promise!Next]_(<<Scoped, status, ran>>)
<1> SUFFICES ASSUME Safe, [Next]_vars, ~ UNCHANGED <<Scoped, status, ran>> PROVE Promise!Next
  OBVIOUS
<1>1. Scoped = Meant(heap) /\ (Scoped = Meant(heap))'
  BY MeantIs, PTL
<1>2. ~ UNCHANGED vars
  BY <1>1 DEF vars
<1>3. CASE End
  <2>1. Meant(Empty) = Promise!Nothing
    BY EmptyWhole, ScopesAre DEF Meant
  <2>2. Scoped' = Promise!Nothing
    BY <1>1, <1>3, <2>1 DEF End
  <2>3. status' = "ended" /\ UNCHANGED ran
    <3>1. Safe'
      BY SafeStays
    <3> QED BY <1>3, <3>1 DEF Safe, End, Stop
  <2> QED BY <2>2, <2>3 DEF Promise!Next, Promise!End, Scoped
<1>a. ASSUME NEW op \in Pops, NEW n \in Names, NEW o \in Names \union Values, Promise!Assign(op, n, o)
      PROVE  Promise!Next
  BY <1>a, ScopesAre DEF Promise!Next
<1>4. ASSUME NEW n \in Names, NEW o \in Operands, Pop(n, o) \/ PopC(n, o) \/ PopCX(n, o)
      PROVE  Promise!Next
  <2>1. status = "running" /\ o \in Names \union Values
    BY <1>4, VariablesAssumption DEF Pop, PopC, PopCX, Runs
  <2>2. PICK s : Whole(heap, s)
    BY <2>1 DEF Safe, Settled
  <2>3. PICK op \in Pops :
           /\ Runs(op, n, o)
           /\ \/ /\ status' = "failed" /\ UNCHANGED heap
                 /\ \/ Solve(heap, o) = Undefined
                    \/ op = "POPCX" /\ FirstIn(heap, Environment, n) = 0
              \/ /\ Assigned(heap, Target(op, n), n, Solve(heap, o))
                 /\ ~ (op = "POPCX" /\ FirstIn(heap, Environment, n) = 0)
    BY <1>4, <2>2, EarlyInstruction
  <2>4. CASE /\ status' = "failed" /\ UNCHANGED heap
             /\ \/ Solve(heap, o) = Undefined
                \/ op = "POPCX" /\ FirstIn(heap, Environment, n) = 0
    <3>1. Promise!Fails(Scoped, op, n, o)
      BY <2>1, <2>2, <2>4, TargetAgrees
    <3>2. Scoped' = Scoped
      BY <1>1, <2>4
    <3>3. ran' = [op |-> op, name |-> n, operand |-> o]
      BY <2>3 DEF Runs
    <3>4. Promise!Assign(op, n, o)
      BY <2>1, <2>4, <3>1, <3>2, <3>3 DEF Promise!Assign, Scoped
    <3> QED BY <1>a, <2>1, <3>4
  <2>5. CASE /\ Assigned(heap, Target(op, n), n, Solve(heap, o))
             /\ ~ (op = "POPCX" /\ FirstIn(heap, Environment, n) = 0)
    <3>1. Promise!Assign(op, n, o)
      BY <2>1, <2>2, <2>3, <2>5, AssignAgrees
    <3> QED BY <1>a, <2>1, <3>1
  <2> QED BY <2>3, <2>4, <2>5
<1>5. ASSUME NEW n \in Names, NEW o \in LateOperands, PopCL(n, o) \/ PopM(n, o) \/ PopG(n, o)
      PROVE  Promise!Next
  <2>1. status = "running" /\ o \in Values
    BY <1>5 DEF PopCL, PopM, PopG, Runs
  <2>2. PICK s : Whole(heap, s)
    BY <2>1 DEF Safe, Settled
  <2>3. PICK op \in {"POPCL", "POPM", "POPG"} :
           Runs(op, n, o) /\ Assigned(heap, Target(op, n), n, o)
    BY <1>5, <2>1, <2>2, LateInstruction
  <2>4. Solve(heap, o) = o /\ op \in Pops /\ op # "POPCX"
    BY <2>1 DEF Solve, Pops
  <2>5. Promise!Assign(op, n, o)
    BY <2>1, <2>2, <2>3, <2>4, AssignAgrees
  <2> QED BY <1>a, <2>1, <2>4, <2>5
<1> QED BY <1>2, <1>3, <1>4, <1>5 DEF Next

(* With literals after POPCL, POPM and POPG, the linked lists are scopes   *)
(* (Scopes.tla): an instruction gives the name after it, in the scope that *)
(* it is for, the value that its operand has when it starts, and changes   *)
(* no other, however the old variable was unlinked and the new one         *)
(* appended; it fails only when the operand has no value, or there is no   *)
(* variable for POPCX to replace.                                          *)
THEOREM ListsAreScopes ==
    ASSUME LateOperands \subseteq Values
    PROVE  Spec => ImplementsScopes
BY StartsAsScopes, SafeStays, ScopesStep, PTL DEF Spec, ImplementsScopes, Promise!Spec, Promise!absVars, Scoped
=============================================================================
