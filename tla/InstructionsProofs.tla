-------------------------- MODULE InstructionsProofs --------------------------
(***************************************************************************)
(* Proofs about Instructions.tla, for every program: any structures, any   *)
(* literals and operations, a stack of any depth, words of any width.      *)
(* MachineSound is the inductive invariant.  Of the stack it names the     *)
(* objects in their order, which top, prev and next have to agree with; of *)
(* each structure it says what its kind takes, and what only holds while   *)
(* the program was careful.  Every operation has a lemma that says what it *)
(* makes of a sound stack or structure, every instruction a step that puts *)
(* these together.                                                         *)
(***************************************************************************)
EXTENDS Instructions, FiniteSetTheorems, SequenceTheorems, TLAPS

-----------------------------------------------------------------------------
(* The computing stack: the objects from the bottom up are those of q,     *)
(* their values those of v; next leads through them if whole.              *)

(* A stack and its objects are the records that their fields make up.      *)
IsStack(s) ==
    /\ s = [top |-> s.top, bottom |-> s.bottom, size |-> s.size, objs |-> s.objs]
    /\ s.objs = [o \in DOMAIN s.objs |-> s.objs[o]]
    /\ \A o \in DOMAIN s.objs :
         s.objs[o] = [val |-> s.objs[o].val, prev |-> s.objs[o].prev, next |-> s.objs[o].next]
    /\ IsFiniteSet(DOMAIN s.objs) /\ DOMAIN s.objs \subseteq Nat \ {0}

(* From the bottom up, the objects of the stack are those of q and their   *)
(* values those of v; prev leads down. next leads up or, on a stack that   *)
(* is not whole, may be NULL.                                              *)
Linked(s, q, v, whole) ==
    /\ IsStack(s) /\ s.size \in Nat
    /\ q = [k \in 1 .. s.size |-> q[k]] /\ v = [k \in 1 .. s.size |-> v[k]]
    /\ \A k \in 1 .. s.size : q[k] \in DOMAIN s.objs
    /\ \A j, k \in 1 .. s.size : q[j] = q[k] => j = k
    /\ s.bottom = (IF s.size = 0 THEN 0 ELSE q[1])
    /\ s.top = (IF s.size = 0 THEN 0 ELSE q[s.size])
    /\ \A k \in 1 .. s.size :
         /\ s.objs[q[k]].val = v[k]
         /\ s.objs[q[k]].prev = (IF k = 1 THEN 0 ELSE q[k - 1])
         /\ \/ s.objs[q[k]].next = (IF k = s.size THEN 0 ELSE q[k + 1])
            \/ ~whole /\ s.objs[q[k]].next = 0

(* There are no other objects.                                             *)
Piled(s, q, v, whole) ==
    /\ Linked(s, q, v, whole)
    /\ \A o \in DOMAIN s.objs : \E k \in 1 .. s.size : q[k] = o

(* q and one more.                                                         *)
More(q, m, o) == [k \in 1 .. m + 1 |-> IF k = m + 1 THEN o ELSE q[k]]

(* A set of numbers that is not empty has a least element.                 *)
LEMMA Least ==
    ASSUME NEW numbers \in SUBSET Nat, numbers # {}
    PROVE  \E m \in numbers : \A n \in numbers : m <= n
<1> DEFINE R == {p \in Nat \X Nat : p[1] < p[2]}
<1>1. IsWellFoundedOn(R, Nat)
  BY NatLessThanWellFounded DEF OpToRel, IsWellFoundedOn
<1>2. PICK m \in numbers : \A n \in numbers : ~ (<<n, m>> \in R)
  BY <1>1, WFMin
<1>3. ASSUME NEW n \in numbers PROVE m <= n
  <2>1. m \in Nat /\ n \in Nat
    OBVIOUS
  <2>2. ~ (n < m)
    BY <1>2, <2>1
  <2> QED BY <2>1, <2>2
<1> QED BY <1>3

(* There is a block for a new object.                                      *)
LEMMA SlotIs ==
    ASSUME NEW s, IsStack(s)
    PROVE  C!Slot(s) \in Nat \ {0} /\ C!Slot(s) \notin DOMAIN s.objs
<1> DEFINE D == DOMAIN s.objs
           N == Cardinality(D)
           free == (1 .. N + 1) \ D
<1>1. N \in Nat /\ IsFiniteSet(D)
  BY FS_CardinalityType DEF IsStack
<1>2. free # {}
  <2> SUFFICES ASSUME 1 .. N + 1 \subseteq D PROVE FALSE
    OBVIOUS
  <2> HIDE DEF D
  <2>1. Cardinality(1 .. N + 1) <= Cardinality(D)
    BY <1>1, FS_Subset
  <2>2. Cardinality(1 .. N + 1) = N + 1
    <3>1. \A a, b \in Int : IsFiniteSet(a .. b) /\ Cardinality(a .. b) = IF a > b THEN 0 ELSE b - a + 1
      BY FS_Interval
    <3>2. 1 \in Int /\ N + 1 \in Int /\ ~ (1 > N + 1)
      BY <1>1
    <3>3. Cardinality(1 .. N + 1) = (N + 1) - 1 + 1
      BY ONLY <3>1, <3>2
    <3> QED BY <1>1, <3>3
  <2> QED BY <1>1, <2>1, <2>2
<1> HIDE DEF D, N
<1>3. free \in SUBSET Nat
  BY <1>1
<1>4. \E m \in free : \A n \in free : m <= n
  BY <1>2, <1>3, Least
<1> HIDE DEF free
<1>0. C!Cardinality(DOMAIN s.objs) = N
  BY DEF C!Cardinality, Cardinality, C!IsFiniteSet, IsFiniteSet, N, D
<1>5. C!Slot(s) = (CHOOSE m \in free : \A n \in free : m <= n)
  BY <1>0 DEF C!Slot, C!Min, free, D, N
<1>6. C!Slot(s) \in free
  BY <1>4, <1>5
<1> QED BY <1>1, <1>6 DEF free, D
(* What there is to know of one place of a stack.                          *)
LEMMA PlaceIs ==
    ASSUME NEW s, NEW q, NEW v, NEW whole, Linked(s, q, v, whole), NEW k \in 1 .. s.size
    PROVE  /\ q[k] \in DOMAIN s.objs /\ q[k] \in Nat \ {0}
           /\ \A j \in 1 .. s.size : q[j] = q[k] => j = k
           /\ s.objs[q[k]].val = v[k]
           /\ s.objs[q[k]].prev = (IF k = 1 THEN 0 ELSE q[k - 1])
           /\ \/ s.objs[q[k]].next = (IF k = s.size THEN 0 ELSE q[k + 1])
              \/ ~whole /\ s.objs[q[k]].next = 0
<1>1. /\ q[k] \in DOMAIN s.objs
      /\ \A j \in 1 .. s.size : q[j] = q[k] => j = k
      /\ s.objs[q[k]].val = v[k]
      /\ s.objs[q[k]].prev = (IF k = 1 THEN 0 ELSE q[k - 1])
      /\ \/ s.objs[q[k]].next = (IF k = s.size THEN 0 ELSE q[k + 1])
         \/ ~whole /\ s.objs[q[k]].next = 0
  BY DEF Linked
<1>2. DOMAIN s.objs \subseteq Nat \ {0}
  BY DEF Linked, IsStack
<1> QED BY <1>1, <1>2

(* And of its ends.                                                        *)
LEMMA EndsAre ==
    ASSUME NEW s, NEW q, NEW v, NEW whole, Linked(s, q, v, whole)
    PROVE  /\ s.size \in Nat /\ IsStack(s) /\ IsFiniteSet(DOMAIN s.objs) /\ DOMAIN s.objs \subseteq Nat \ {0}
           /\ s.size = 0 => s.top = 0 /\ s.bottom = 0
           /\ s.size # 0 => /\ s.top = q[s.size] /\ s.bottom = q[1]
                            /\ s.top \in DOMAIN s.objs /\ s.bottom \in DOMAIN s.objs
                            /\ s.top # 0 /\ s.bottom # 0
                            /\ s.size \in 1 .. s.size /\ 1 \in 1 .. s.size
<1>1. s.size \in Nat /\ IsStack(s) /\ IsFiniteSet(DOMAIN s.objs) /\ DOMAIN s.objs \subseteq Nat \ {0}
  BY DEF Linked, IsStack
<1>2. s.bottom = (IF s.size = 0 THEN 0 ELSE q[1]) /\ s.top = (IF s.size = 0 THEN 0 ELSE q[s.size])
  BY DEF Linked
<1>3. s.size # 0 => s.size \in 1 .. s.size /\ 1 \in 1 .. s.size
  BY <1>1
<1>4. \A k \in 1 .. s.size : q[k] \in DOMAIN s.objs
  BY DEF Linked
<1> QED BY <1>1, <1>2, <1>3, <1>4

(* What to show of a stack.                                                *)
LEMMA LinkedIf ==
    ASSUME NEW s, NEW q, NEW v, NEW whole, NEW m \in Nat, IsStack(s), s.size = m,
           q = [k \in 1 .. m |-> q[k]], v = [k \in 1 .. m |-> v[k]],
           s.bottom = (IF m = 0 THEN 0 ELSE q[1]), s.top = (IF m = 0 THEN 0 ELSE q[m]),
           \A k \in 1 .. m : q[k] \in DOMAIN s.objs,
           \A j, k \in 1 .. m : q[j] = q[k] => j = k,
           \A k \in 1 .. m :
             /\ s.objs[q[k]].val = v[k]
             /\ s.objs[q[k]].prev = (IF k = 1 THEN 0 ELSE q[k - 1])
             /\ \/ s.objs[q[k]].next = (IF k = m THEN 0 ELSE q[k + 1])
                \/ ~whole /\ s.objs[q[k]].next = 0
    PROVE  Linked(s, q, v, whole)
  BY DEF Linked

(* A stack is finite, however it is changed.                               *)
LEMMA StackOf ==
    ASSUME NEW top, NEW bottom, NEW size, NEW f, NEW D, IsFiniteSet(D), D \subseteq Nat \ {0},
           f = [o \in D |-> f[o]],
           \A o \in D : f[o] = [val |-> f[o].val, prev |-> f[o].prev, next |-> f[o].next]
    PROVE  IsStack([top |-> top, bottom |-> bottom, size |-> size, objs |-> f])
<1> DEFINE s == [top |-> top, bottom |-> bottom, size |-> size, objs |-> f]
<1>1. s.objs = f /\ DOMAIN f = D /\ s = [top |-> s.top, bottom |-> s.bottom, size |-> s.size, objs |-> s.objs]
  OBVIOUS
<1> HIDE DEF s
<1>2. IsStack(s)
  BY <1>1 DEF IsStack
<1> QED BY <1>2 DEF s

(* An object that no other links to is linked above the top.               *)
LEMMA LinkIs ==
    ASSUME NEW s, NEW q, NEW v, NEW whole, Linked(s, q, v, whole), NEW o \in DOMAIN s.objs,
           \A k \in 1 .. s.size : q[k] # o, s.objs[o].prev = 0, s.objs[o].next = 0
    PROVE  LET t == C!Link(s, o)
           IN /\ Linked(t, More(q, s.size, o), More(v, s.size, s.objs[o].val), whole)
              /\ DOMAIN t.objs = DOMAIN s.objs /\ t.size = s.size + 1
              /\ \A j \in DOMAIN s.objs : j # o /\ (\A k \in 1 .. s.size : q[k] # j) => t.objs[j] = s.objs[j]
<1> DEFINE t == C!Link(s, o)
           m == s.size
           D == DOMAIN s.objs
           q2 == More(q, m, o)
           v2 == More(v, m, s.objs[o].val)
           f == [j \in D |-> IF m = 0 THEN s.objs[j]
                             ELSE IF j = q[m] THEN [val |-> s.objs[j].val, prev |-> s.objs[j].prev, next |-> o]
                             ELSE IF j = o THEN [val |-> s.objs[j].val, prev |-> q[m], next |-> s.objs[j].next]
                             ELSE s.objs[j]]
<1>1. /\ m \in Nat /\ IsStack(s) /\ IsFiniteSet(D) /\ D \subseteq Nat \ {0}
      /\ m # 0 => s.top = q[m] /\ q[m] \in D /\ q[m] # o /\ s.bottom # 0
      /\ m = 0 => s.bottom = 0
  BY EndsAre
<1>2. t = [top |-> o, bottom |-> IF m = 0 THEN o ELSE s.bottom, size |-> m + 1, objs |-> f]
  <2>1. CASE m = 0
    <3>1. t = [s EXCEPT !.bottom = o, !.top = o, !.size = @ + 1]
      BY <2>1, <1>1 DEF C!Link
    <3>2. f = s.objs
      BY <1>1, <2>1 DEF IsStack
    <3>3. s = [top |-> s.top, bottom |-> s.bottom, size |-> s.size, objs |-> s.objs]
      BY <1>1 DEF IsStack
    <3> HIDE DEF t, f
    <3> QED BY <2>1, <3>1, <3>2, <3>3
  <2>2. CASE m # 0
    <3>1. t = [s EXCEPT !.objs[s.top].next = o, !.objs[o].prev = s.top, !.top = o, !.size = @ + 1]
      BY <2>2, <1>1 DEF C!Link
    <3>2. t = [s EXCEPT !.objs = [[@ EXCEPT ![q[m]].next = o] EXCEPT ![o].prev = q[m]], !.top = o, !.size = @ + 1]
      BY <3>1, <2>2, <1>1 DEF IsStack
    <3>3. [[s.objs EXCEPT ![q[m]].next = o] EXCEPT ![o].prev = q[m]] = f
      BY <2>2, <1>1 DEF IsStack
    <3>4. s = [top |-> s.top, bottom |-> s.bottom, size |-> s.size, objs |-> s.objs]
      BY <1>1 DEF IsStack
    <3> HIDE DEF t, f
    <3> QED BY <2>2, <3>2, <3>3, <3>4
  <2> QED BY <2>1, <2>2
<1>3. /\ f = [j \in D |-> f[j]] /\ DOMAIN f = D
      /\ \A j \in D : f[j] = [val |-> f[j].val, prev |-> f[j].prev, next |-> f[j].next]
      /\ \A j \in D : f[j].val = s.objs[j].val
      /\ \A j \in D : f[j].prev = (IF m # 0 /\ j = o THEN q[m] ELSE s.objs[j].prev)
      /\ \A j \in D : f[j].next = (IF m # 0 /\ j = q[m] THEN o ELSE s.objs[j].next)
      /\ \A j \in D : j # o /\ (\A k \in 1 .. m : q[k] # j) => f[j] = s.objs[j]
  BY <1>1 DEF IsStack
<1> HIDE DEF f
<1>4. IsStack(t)
  BY <1>1, <1>2, <1>3, StackOf
<1>5. /\ t.top = o /\ t.bottom = (IF m = 0 THEN o ELSE s.bottom) /\ t.size = m + 1 /\ t.objs = f
  BY <1>2
<1> HIDE DEF t
<1>6. /\ q2 = [k \in 1 .. m + 1 |-> q2[k]] /\ v2 = [k \in 1 .. m + 1 |-> v2[k]]
      /\ q2[m + 1] = o /\ v2[m + 1] = s.objs[o].val
      /\ \A k \in 1 .. m : q2[k] = q[k] /\ v2[k] = v[k]
  BY <1>1 DEF More
<1> HIDE DEF q2, v2
<1> HIDE DEF m, D
<1>7. m + 1 \in Nat /\ 1 .. m + 1 = 1 .. m \cup {m + 1} /\ (m # 0 => m \in 1 .. m) /\ m = s.size /\ D = DOMAIN s.objs /\ o \in D
  BY <1>1 DEF m, D
<1>8. \A k \in 1 .. m + 1 : q2[k] \in D
  <2>1. \A k \in 1 .. m : q[k] \in D
    BY <1>7, PlaceIs
  <2> QED BY <2>1, <1>6, <1>7
<1>9. \A j, k \in 1 .. m + 1 : q2[j] = q2[k] => j = k
  <2>1. ASSUME NEW j \in 1 .. m, NEW k \in 1 .. m, q[j] = q[k] PROVE j = k
    BY <2>1, <1>7, PlaceIs
  <2>2. \A k \in 1 .. m : q[k] # o
    BY <1>7
  <2>3. ASSUME NEW j \in 1 .. m + 1, NEW k \in 1 .. m + 1, q2[j] = q2[k] PROVE j = k
    <3>1. CASE j \in 1 .. m /\ k \in 1 .. m
      BY <3>1, <2>1, <2>3, <1>6
    <3>2. CASE ~ (j \in 1 .. m /\ k \in 1 .. m)
      BY <3>2, <2>2, <2>3, <1>6, <1>7
    <3> QED BY <3>1, <3>2
  <2> QED BY <2>3
<1>10. t.bottom = (IF m + 1 = 0 THEN 0 ELSE q2[1]) /\ t.top = (IF m + 1 = 0 THEN 0 ELSE q2[m + 1])
  <2>1. CASE m = 0
    BY <2>1, <1>1, <1>5, <1>6
  <2>2. CASE m # 0
    <3>1. s.bottom = q[1] /\ 1 \in 1 .. m
      BY <2>2, <1>7, EndsAre
    <3>2. q2[1] = q[1] /\ q2[m + 1] = o
      BY <3>1, <1>6
    <3>3. m + 1 # 0
      BY <1>7
    <3> QED BY <3>1, <3>2, <3>3, <2>2, <1>5
  <2> QED BY <2>1, <2>2
<1>11. ASSUME NEW k \in 1 .. m + 1
       PROVE /\ t.objs[q2[k]].val = v2[k]
             /\ t.objs[q2[k]].prev = (IF k = 1 THEN 0 ELSE q2[k - 1])
             /\ \/ t.objs[q2[k]].next = (IF k = m + 1 THEN 0 ELSE q2[k + 1])
                \/ ~whole /\ t.objs[q2[k]].next = 0
  <2>1. CASE k = m + 1
    <3>1. q2[k] = o /\ v2[k] = s.objs[o].val /\ (k = 1 <=> m = 0) /\ (m # 0 => q2[k - 1] = q[m])
      <4>1. (m # 0 => k - 1 = m /\ m \in 1 .. m) /\ (k = 1 <=> m = 0)
        BY <2>1, <1>1
      <4> QED BY <4>1, <2>1, <1>6
    <3>2. f[o].val = s.objs[o].val /\ f[o].prev = (IF m # 0 THEN q[m] ELSE 0) /\ f[o].next = 0
      BY <1>1, <1>3, <1>7
    <3> QED BY <2>1, <3>1, <3>2, <1>5
  <2>2. CASE k \in 1 .. m
    <3>1. /\ s.objs[q[k]].val = v[k] /\ q[k] \in D /\ q[k] # o
          /\ s.objs[q[k]].prev = (IF k = 1 THEN 0 ELSE q[k - 1])
          /\ \/ s.objs[q[k]].next = (IF k = m THEN 0 ELSE q[k + 1])
             \/ ~whole /\ s.objs[q[k]].next = 0
          /\ q[k] = q[m] => k = m
      BY <2>2, <1>7, PlaceIs
    <3>2. /\ f[q[k]].val = v[k] /\ f[q[k]].prev = (IF k = 1 THEN 0 ELSE q[k - 1])
          /\ f[q[k]].next = (IF k = m THEN o ELSE s.objs[q[k]].next)
      BY <2>2, <3>1, <1>1, <1>3
    <3>3. q2[k] = q[k] /\ v2[k] = v[k] /\ (k # 1 => q2[k - 1] = q[k - 1]) /\ q2[k + 1] = (IF k = m THEN o ELSE q[k + 1])
      <4>1. (k # 1 => k - 1 \in 1 .. m) /\ (k # m => k + 1 \in 1 .. m)
        BY <2>2, <1>1
      <4> QED BY <4>1, <2>2, <1>6
    <3>4. k # m + 1
      BY <2>2, <1>1
    <3>5. t.objs[q2[k]].val = v2[k]
      BY <3>2, <3>3, <1>5
    <3>6. t.objs[q2[k]].prev = (IF k = 1 THEN 0 ELSE q2[k - 1])
      BY <3>2, <3>3, <1>5
    <3>7. \/ t.objs[q2[k]].next = q2[k + 1]
          \/ ~whole /\ t.objs[q2[k]].next = 0
      BY <3>1, <3>2, <3>3, <1>5
    <3> QED BY <3>4, <3>5, <3>6, <3>7
  <2> QED BY <1>7, <2>1, <2>2
<1>12. Linked(t, q2, v2, whole)
  <2>1. m + 1 \in Nat /\ m + 1 = t.size /\ D = DOMAIN t.objs
    BY <1>3, <1>5, <1>7
  <2>2. /\ t.bottom = (IF m + 1 = 0 THEN 0 ELSE q2[1]) /\ t.top = (IF m + 1 = 0 THEN 0 ELSE q2[m + 1])
        /\ q2 = [k \in 1 .. m + 1 |-> q2[k]] /\ v2 = [k \in 1 .. m + 1 |-> v2[k]]
        /\ \A k \in 1 .. m + 1 : q2[k] \in DOMAIN t.objs
    BY <2>1, <1>6, <1>8, <1>10
  <2> QED BY <2>1, <2>2, <1>4, <1>9, <1>11, LinkedIf, Zenon
<1> QED BY <1>3, <1>5, <1>7, <1>12 DEF t, q2, v2

(* A value is pushed.                                                      *)
LEMMA PushIs ==
    ASSUME NEW s, NEW q, NEW v, NEW whole, Piled(s, q, v, whole), NEW x
    PROVE  /\ Piled(C!Push(s, x), More(q, s.size, C!Slot(s)), More(v, s.size, x), whole)
           /\ C!Push(s, x).size = s.size + 1
<1> DEFINE o == C!Slot(s)
           n == C!NewObject(s, x)
           D == DOMAIN s.objs
           f == [j \in D \cup {o} |-> IF j = o THEN [val |-> x, prev |-> 0, next |-> 0] ELSE s.objs[j]]
           t == C!Push(s, x)
<1>1. IsStack(s) /\ o \in Nat \ {0} /\ o \notin D /\ s.size \in Nat
  BY SlotIs, EndsAre DEF Piled
<1>2. n = [top |-> s.top, bottom |-> s.bottom, size |-> s.size, objs |-> f]
  <2>1. n = [s EXCEPT !.objs = f]
    BY DEF C!NewObject
  <2>3. s = [top |-> s.top, bottom |-> s.bottom, size |-> s.size, objs |-> s.objs]
    BY <1>1 DEF IsStack
  <2> HIDE DEF n, f
  <2> QED BY <2>1, <2>3
<1>3. /\ f = [j \in D \cup {o} |-> f[j]] /\ f[o] = [val |-> x, prev |-> 0, next |-> 0]
      /\ \A j \in D : f[j] = s.objs[j]
      /\ \A j \in D \cup {o} : f[j] = [val |-> f[j].val, prev |-> f[j].prev, next |-> f[j].next]
  BY <1>1 DEF IsStack
<1>4. IsFiniteSet(D \cup {o}) /\ D \cup {o} \subseteq Nat \ {0}
  BY <1>1, FS_AddElement DEF IsStack
<1> HIDE DEF f, n
<1>5. IsStack(n)
  <2> DEFINE E == D \cup {o}
  <2>1. /\ IsFiniteSet(E) /\ E \subseteq Nat \ {0} /\ f = [j \in E |-> f[j]]
        /\ \A j \in E : f[j] = [val |-> f[j].val, prev |-> f[j].prev, next |-> f[j].next]
    BY <1>3, <1>4
  <2> HIDE DEF E
  <2> QED BY <1>2, <2>1, StackOf
<1>6. n.top = s.top /\ n.bottom = s.bottom /\ n.size = s.size /\ n.objs = f /\ DOMAIN n.objs = D \cup {o}
  BY <1>2, <1>3
<1>7. Linked(n, q, v, whole)
  <2>1. Linked(s, q, v, whole)
    BY DEF Piled
  <2>2. \A k \in 1 .. s.size : f[q[k]] = s.objs[q[k]] /\ q[k] \in DOMAIN n.objs
    BY <2>1, <1>3, <1>6, PlaceIs
  <2>3. /\ q = [k \in 1 .. s.size |-> q[k]] /\ v = [k \in 1 .. s.size |-> v[k]]
        /\ \A j, k \in 1 .. s.size : q[j] = q[k] => j = k
        /\ s.bottom = (IF s.size = 0 THEN 0 ELSE q[1])
        /\ s.top = (IF s.size = 0 THEN 0 ELSE q[s.size])
    BY <2>1 DEF Linked
  <2>4. \A k \in 1 .. s.size :
         /\ f[q[k]].val = v[k]
         /\ f[q[k]].prev = (IF k = 1 THEN 0 ELSE q[k - 1])
         /\ \/ f[q[k]].next = (IF k = s.size THEN 0 ELSE q[k + 1])
            \/ ~whole /\ f[q[k]].next = 0
    BY <2>1, <2>2, PlaceIs
  <2>5. IsStack(n) /\ n.size = s.size /\ s.size \in Nat /\ n.bottom = s.bottom /\ n.top = s.top /\ n.objs = f
    BY <1>1, <1>5, <1>6
  <2> HIDE DEF o, D, t
  <2>6. \A k \in 1 .. s.size :
         /\ n.objs[q[k]].val = v[k]
         /\ n.objs[q[k]].prev = (IF k = 1 THEN 0 ELSE q[k - 1])
         /\ \/ n.objs[q[k]].next = (IF k = s.size THEN 0 ELSE q[k + 1])
            \/ ~whole /\ n.objs[q[k]].next = 0
    BY <2>4, <2>5
  <2> DEFINE m == s.size
  <2>7. /\ m \in Nat /\ IsStack(n) /\ n.size = m
        /\ q = [k \in 1 .. m |-> q[k]] /\ v = [k \in 1 .. m |-> v[k]]
        /\ n.bottom = (IF m = 0 THEN 0 ELSE q[1]) /\ n.top = (IF m = 0 THEN 0 ELSE q[m])
        /\ \A k \in 1 .. m : q[k] \in DOMAIN n.objs
        /\ \A j, k \in 1 .. m : q[j] = q[k] => j = k
        /\ \A k \in 1 .. m :
             /\ n.objs[q[k]].val = v[k]
             /\ n.objs[q[k]].prev = (IF k = 1 THEN 0 ELSE q[k - 1])
             /\ \/ n.objs[q[k]].next = (IF k = m THEN 0 ELSE q[k + 1])
                \/ ~whole /\ n.objs[q[k]].next = 0
    BY <2>2, <2>3, <2>5, <2>6
  <2> HIDE DEF n, m
  <2> QED BY ONLY <2>7, LinkedIf
<1>8. o \in DOMAIN n.objs /\ (\A k \in 1 .. n.size : q[k] # o) /\ n.objs[o].prev = 0 /\ n.objs[o].next = 0 /\ n.objs[o].val = x
  <2>1. \A k \in 1 .. s.size : q[k] \in D
    BY PlaceIs DEF Piled
  <2> QED BY <1>1, <1>3, <1>6, <2>1
<1>9. t = C!Link(n, o)
  BY DEF C!Push, n, o
<1>10. Linked(t, More(q, s.size, o), More(v, s.size, x), whole) /\ t.size = s.size + 1 /\ DOMAIN t.objs = D \cup {o}
  BY <1>6, <1>7, <1>8, <1>9, LinkIs
<1>11. ASSUME NEW j \in DOMAIN t.objs PROVE \E k \in 1 .. t.size : More(q, s.size, o)[k] = j
  <2>1. CASE j = o
    <3>1. s.size + 1 \in 1 .. t.size /\ More(q, s.size, o)[s.size + 1] = o
      BY <1>1, <1>10 DEF More
    <3> QED BY <2>1, <3>1
  <2>2. CASE j \in D
    <3>1. PICK k \in 1 .. s.size : q[k] = j
      BY <2>2 DEF Piled
    <3>2. k \in 1 .. t.size /\ More(q, s.size, o)[k] = j
      BY <3>1, <1>1, <1>10 DEF More
    <3> QED BY <3>2
  <2> QED BY <1>10, <2>1, <2>2
<1> HIDE DEF t, o
<1>12. Piled(t, More(q, s.size, o), More(v, s.size, x), whole)
  BY <1>10, <1>11 DEF Piled
<1> QED BY <1>10, <1>12 DEF t, o
(* Counted from the top, the objects are those of q. This is where the     *)
(* walk along prev is unrolled.                                            *)
LEMMA NthIs ==
    ASSUME NEW s, NEW q, NEW v, NEW whole, Linked(s, q, v, whole), NEW n \in 1 .. s.size
    PROVE  C!Nth(s, n) = q[s.size + 1 - n]
<1> DEFINE m == s.size
           Step(f, i) == IF i = 1 THEN s.top ELSE s.objs[f[i - 1]].prev
           F == CHOOSE f : f = [i \in 1 .. n |-> IF i = 1 THEN s.top ELSE s.objs[f[i - 1]].prev]
           g == [i \in 1 .. n |-> q[m + 1 - i]]
<1>1. m \in Nat /\ n \in 1 .. m /\ n \in Nat
  BY EndsAre
<1>2. ASSUME NEW i \in 1 .. n PROVE g[i] = Step(g, i)
  <2>1. CASE i = 1
    BY <2>1, <1>1, EndsAre
  <2>2. CASE i # 1
    <3> DEFINE k == m + 1 - (i - 1)
    <3>1. k \in 1 .. m /\ k # 1 /\ k - 1 = m + 1 - i /\ i - 1 \in 1 .. n
      BY <1>1, <2>2
    <3>2. s.objs[q[k]].prev = q[k - 1]
      BY <3>1, PlaceIs
    <3>3. g[i] = q[m + 1 - i] /\ g[i - 1] = q[k]
      BY <3>1
    <3> HIDE DEF g, k
    <3> QED BY <2>2, <3>1, <3>2, <3>3
  <2> QED BY <2>1, <2>2
<1>3. g = [i \in 1 .. n |-> Step(g, i)]
  <2>1. g = [i \in 1 .. n |-> g[i]]
    OBVIOUS
  <2> HIDE DEF g, Step
  <2> QED BY <1>2, <2>1
<1>4. F = [i \in 1 .. n |-> Step(F, i)]
  <2> HIDE DEF g
  <2>1. \E f : f = [i \in 1 .. n |-> Step(f, i)]
    BY <1>3
  <2> QED BY <2>1, Zenon
<1>5. C!Nth(s, n) = F[n]
  BY DEF C!Nth
<1>6. DOMAIN F = 1 .. n /\ \A i \in 1 .. n : F[i] = Step(F, i)
  <2> HIDE DEF F, Step
  <2> QED BY <1>4
<1> HIDE DEF F
<1>7. ASSUME NEW x \in 1 .. n, F[x] # g[x] PROVE FALSE
  <2> DEFINE bad == {k \in 1 .. n : F[k] # g[k]}
  <2> HIDE DEF g
  <2>0. x \in bad /\ bad \in SUBSET Nat
    BY <1>1, <1>7
  <2>1. PICK k \in bad : \A j \in bad : k <= j
    BY <2>0, Least
  <2>2. k \in 1 .. n /\ F[k] = Step(F, k) /\ g[k] = Step(g, k) /\ F[k] # g[k]
    BY <1>2, <1>6, <2>1
  <2>3. k # 1
    BY <2>2
  <2>4. k - 1 \in 1 .. n /\ ~ (k <= k - 1)
    BY <1>1, <2>2, <2>3
  <2>5. F[k - 1] = g[k - 1]
    BY <2>1, <2>4
  <2> QED BY <2>2, <2>3, <2>5
<1>8. n \in 1 .. n /\ g[n] = q[m + 1 - n]
  BY <1>1
<1> HIDE DEF g
<1> QED BY <1>5, <1>7, <1>8

(* r is what the links of a field lead through from o to NULL.             *)
Chain(s, o, field, r, m) ==
    /\ r = [k \in 1 .. m |-> r[k]] /\ o = (IF m = 0 THEN 0 ELSE r[1])
    /\ \A k \in 1 .. m : /\ r[k] \in DOMAIN s.objs
                         /\ s.objs[r[k]][field] = (IF k = m THEN 0 ELSE r[k + 1])

(* A walk meets just these objects; that it is counted is no matter.       *)
LEMMA WalkIs ==
    ASSUME NEW s, IsStack(s), NEW o, NEW field, NEW r, NEW m \in Nat, Chain(s, o, field, r, m),
           m <= Cardinality(DOMAIN s.objs)
    PROVE  C!Walk(s, o, field) = r
<1> DEFINE D == DOMAIN s.objs
           N == Cardinality(DOMAIN s.objs)
           Onwards(f) == IF Last(f) \in D THEN Append(f, s.objs[Last(f)][field]) ELSE f
           Step(f, n) == IF n = 0 THEN <<o>> ELSE Onwards(f[n - 1])
           F == CHOOSE f : f = [n \in 0 .. C!Cardinality(DOMAIN s.objs) |->
                                  IF n = 0 THEN <<o>>
                                  ELSE LET met == f[n - 1]
                                       IN IF C!Last(met) \in DOMAIN s.objs
                                          THEN Append(met, s.objs[C!Last(met)][field])
                                          ELSE met]
           Part(i) == [j \in 1 .. i + 1 |-> IF j <= m THEN r[j] ELSE 0]
           g == [n \in 0 .. N |-> Part(IF n < m THEN n ELSE m)]
<1>1. /\ m \in Nat /\ N \in Nat /\ m <= N /\ 0 \notin D
      /\ o = (IF m = 0 THEN 0 ELSE r[1])
      /\ \A k \in 1 .. m : r[k] \in D /\ s.objs[r[k]][field] = (IF k = m THEN 0 ELSE r[k + 1])
  BY FS_CardinalityType DEF IsStack, Chain
<1>a. C!Cardinality(D) = N
  BY DEF C!Cardinality, Cardinality, C!IsFiniteSet, IsFiniteSet
<1>b. \A f : C!Last(f) = Last(f)
  BY DEF C!Last, Last
<1> HIDE DEF D, N
<1>2. ASSUME NEW i \in 0 .. m
      PROVE  /\ Part(i) \in Seq(D \cup {0}) /\ Len(Part(i)) = i + 1
             /\ Last(Part(i)) = (IF i < m THEN r[i + 1] ELSE 0)
  <2>1. Part(i) \in [1 .. i + 1 -> D \cup {0}]
    BY <1>1
  <2>2. i + 1 \in Nat /\ DOMAIN Part(i) = 1 .. i + 1 /\ i + 1 \in 1 .. i + 1
    BY <1>1
  <2>3. Part(i)[i + 1] = (IF i < m THEN r[i + 1] ELSE 0)
    BY <1>1, <2>2
  <2> HIDE DEF Part
  <2>4. Part(i) \in Seq(D \cup {0})
    BY <2>1, <2>2 DEF Seq
  <2>5. Len(Part(i)) = i + 1
    BY <2>2, <2>4, LenProperties
  <2> QED BY <2>3, <2>4, <2>5 DEF Last
<1>3. ASSUME NEW i \in 0 .. m PROVE Onwards(Part(i)) = Part(IF i < m THEN i + 1 ELSE m)
  <2>1. CASE i < m
    <3>1. i + 1 \in 0 .. m /\ i + 1 \in 1 .. m
      BY <1>1, <2>1
    <3> DEFINE e == IF i + 1 = m THEN 0 ELSE r[i + 2]
    <3>2. Onwards(Part(i)) = Append(Part(i), e)
      <4>1. Last(Part(i)) = r[i + 1] /\ r[i + 1] \in D /\ s.objs[r[i + 1]][field] = e
        BY <1>1, <1>2, <2>1, <3>1
      <4> HIDE DEF Part, e
      <4> QED BY <4>1 DEF D
    <3>3. e = (IF i + 2 <= m THEN r[i + 2] ELSE 0)
      BY <1>1, <2>1
    <3> HIDE DEF e
    <3>4. Len(Append(Part(i), e)) = i + 2 /\ Append(Part(i), e) \in Seq(D \cup {0})
      <4>1. e \in D \cup {0}
        BY <3>3, <1>1, <2>1
      <4> HIDE DEF Part
      <4> QED BY <1>2, <4>1
    <3>5. Len(Part(i + 1)) = i + 2 /\ Part(i + 1) \in Seq(D \cup {0})
      <4>1. (i + 1) + 1 = i + 2 /\ i + 1 \in 0 .. m
        BY <1>1, <3>1
      <4> HIDE DEF Part
      <4> QED BY <1>2, <4>1
    <3>6. ASSUME NEW j \in 1 .. i + 2 PROVE Append(Part(i), e)[j] = Part(i + 1)[j]
      <4>1. CASE j = i + 2
        <5>1. Part(i + 1)[j] = e
          BY <4>1, <3>3, <3>1
        <5>2. Append(Part(i), e)[j] = e
          <6> HIDE DEF Part
          <6> QED BY <1>2, <4>1
        <5> QED BY <5>1, <5>2
      <4>2. CASE j # i + 2
        <5>1. j \in 1 .. i + 1
          BY <4>2
        <5>2. Part(i + 1)[j] = Part(i)[j]
          BY <5>1
        <5>3. Append(Part(i), e)[j] = Part(i)[j]
          <6> HIDE DEF Part
          <6> QED BY <1>2, <5>1
        <5> QED BY <5>2, <5>3
      <4> QED BY <4>1, <4>2
    <3>7. Append(Part(i), e) = Part(i + 1)
      <4> HIDE DEF Part
      <4> QED BY <3>4, <3>5, <3>6, SeqEqual
    <3> HIDE DEF Part, Onwards
    <3> QED BY <2>1, <3>2, <3>7
  <2>2. CASE ~ (i < m)
    <3>1. i = m /\ Last(Part(i)) = 0
      BY <1>1, <1>2, <2>2
    <3> HIDE DEF Part
    <3> QED BY <1>1, <2>2, <3>1 DEF D
  <2> QED BY <2>1, <2>2
<1>4. g[0] = <<o>>
  <2>1. Part(0) = <<o>>
    <3>1. Part(0) = [j \in 1 .. 1 |-> o]
      BY <1>1
    <3> HIDE DEF Part
    <3> QED BY <3>1
  <2>2. g[0] = Part(0)
    <3> HIDE DEF Part
    <3> QED BY <1>1
  <2> HIDE DEF g, Part
  <2> QED BY <2>1, <2>2
<1>5. ASSUME NEW n \in 0 .. N PROVE g[n] = Step(g, n)
  <2>1. CASE n = 0
    <3> HIDE DEF g, Onwards
    <3> QED BY <1>4, <2>1
  <2>2. CASE n # 0
    <3> DEFINE i == IF n - 1 < m THEN n - 1 ELSE m
    <3>1. n - 1 \in 0 .. N /\ i \in 0 .. m
      BY <1>1, <2>2
    <3>2. (IF n < m THEN n ELSE m) = (IF i < m THEN i + 1 ELSE m)
      BY <1>1, <2>2, <3>1
    <3>3. g[n] = Part(IF n < m THEN n ELSE m) /\ g[n - 1] = Part(i)
      <4> HIDE DEF Part
      <4> QED BY <3>1
    <3> HIDE DEF g, Part, i, Onwards
    <3>4. Onwards(Part(i)) = Part(IF i < m THEN i + 1 ELSE m)
      BY <1>3, <3>1
    <3> QED BY <2>2, <3>2, <3>3, <3>4
  <2> QED BY <2>1, <2>2
<1>6. g = [n \in 0 .. N |-> Step(g, n)]
  <2>1. g = [n \in 0 .. N |-> g[n]]
    <3> HIDE DEF Part
    <3> QED OBVIOUS
  <2> HIDE DEF g, Step
  <2> QED BY <1>5, <2>1
<1>7. F = [n \in 0 .. N |-> Step(F, n)]
  <2> HIDE DEF g
  <2>1. \E f : f = [n \in 0 .. N |-> Step(f, n)]
    BY <1>6, Zenon
  <2>2. F = CHOOSE f : f = [n \in 0 .. N |-> Step(f, n)]
    BY <1>a, <1>b, Zenon DEF D
  <2> HIDE DEF F
  <2> QED BY <2>1, <2>2, Zenon
<1>8. C!Walk(s, o, field) = Front(F[N])
  BY <1>a DEF C!Walk, C!Front, Front, D
<1>9. DOMAIN F = 0 .. N /\ \A n \in 0 .. N : F[n] = Step(F, n)
  <2> HIDE DEF F, Step
  <2> QED BY <1>7
<1> HIDE DEF F
<1>10. ASSUME NEW x \in 0 .. N, F[x] # g[x] PROVE FALSE
  <2> DEFINE bad == {k \in 0 .. N : F[k] # g[k]}
  <2> HIDE DEF g
  <2>0. x \in bad /\ bad \in SUBSET Nat
    BY <1>1, <1>10
  <2>1. PICK k \in bad : \A j \in bad : k <= j
    BY <2>0, Least
  <2>2. k \in 0 .. N /\ F[k] = Step(F, k) /\ g[k] = Step(g, k) /\ F[k] # g[k]
    BY <1>5, <1>9, <2>1
  <2> HIDE DEF Onwards
  <2>3. k # 0
    BY <2>2
  <2>4. k - 1 \in 0 .. N /\ ~ (k <= k - 1)
    BY <1>1, <2>2, <2>3
  <2>5. F[k - 1] = g[k - 1]
    BY <2>1, <2>4
  <2> QED BY <2>2, <2>3, <2>5
<1>11. F[N] = Part(m)
  <2>1. N \in 0 .. N /\ (IF N < m THEN N ELSE m) = m
    BY <1>1
  <2>2. g[N] = Part(m)
    <3> HIDE DEF Part
    <3> QED BY <2>1
  <2> HIDE DEF g, Part
  <2> QED BY <1>10, <2>1, <2>2
<1>12. Front(Part(m)) = r
  <2>1. m \in 0 .. m
    BY <1>1
  <2>2. Part(m) \in Seq(D \cup {0}) /\ Len(Part(m)) = m + 1
    BY <1>2, <2>1
  <2>3. \A j \in 1 .. m : Part(m)[j] = r[j]
    BY <1>1
  <2> HIDE DEF Part
  <2>4. Front(Part(m)) = [j \in 1 .. m |-> Part(m)[j]]
    BY <1>1, <2>2 DEF Front
  <2>5. r = [k \in 1 .. m |-> r[k]]
    BY DEF Chain
  <2> QED BY <2>3, <2>4, <2>5
<1> HIDE DEF Part
<1> QED BY <1>8, <1>11, <1>12

(* q without its last. *)
Less(q, m) == [k \in 1 .. m - 1 |-> q[k]]

(* A stack that is whole is also one that need not be.                     *)
LEMMA Weaker ==
    ASSUME NEW s, NEW q, NEW v, NEW whole, Piled(s, q, v, whole), NEW weak, weak => whole
    PROVE  Piled(s, q, v, weak)
  BY DEF Piled, Linked

(* The empty stack holds nothing.                                          *)
LEMMA EmptyIs == \A whole : Piled(C!EmptyStack, <<>>, <<>>, whole)
<1> DEFINE s == C!EmptyStack
<1>1. s.top = 0 /\ s.bottom = 0 /\ s.size = 0 /\ s.objs = <<>>
      /\ s = [top |-> s.top, bottom |-> s.bottom, size |-> s.size, objs |-> s.objs]
  BY DEF C!EmptyStack
<1>2. DOMAIN s.objs = {} /\ IsFiniteSet({}) /\ 1 .. 0 = {}
  BY <1>1, FS_EmptySet
<1>3. <<>> = [k \in {} |-> <<>>[k]]
  OBVIOUS
<1> HIDE DEF s
<1>4. IsStack(s)
  BY <1>1, <1>2, <1>3 DEF IsStack
<1> SUFFICES ASSUME NEW whole PROVE Piled(s, <<>>, <<>>, whole)
  BY DEF s
<1>5. Linked(s, <<>>, <<>>, whole)
  BY <1>1, <1>2, <1>3, <1>4 DEF Linked
<1> QED BY <1>2, <1>5 DEF Piled

(* The top is popped.                                                      *)
LEMMA PopIs ==
    ASSUME NEW s, NEW q, NEW v, NEW whole, Piled(s, q, v, whole), s.size # 0
    PROVE  /\ Piled(C!Pop(s), Less(q, s.size), Less(v, s.size), whole)
           /\ C!Pop(s).size = s.size - 1
<1> DEFINE m == s.size
           D == DOMAIN s.objs
           below == q[m - 1]
           q2 == Less(q, m)
           v2 == Less(v, m)
           t == C!Pop(s)
<1>0. Linked(s, q, v, whole) /\ \A o \in D : \E k \in 1 .. m : q[k] = o
  BY DEF Piled
<1>1. /\ m \in Nat /\ m # 0 /\ IsStack(s) /\ IsFiniteSet(D) /\ D \subseteq Nat \ {0} /\ m \in 1 .. m
      /\ s.top = q[m] /\ s.bottom = q[1] /\ s.objs[q[m]].prev = (IF m = 1 THEN 0 ELSE below)
      /\ q[m] \in D
  BY <1>0, EndsAre, PlaceIs
<1>2. CASE m = 1
  <2>1. t = C!EmptyStack
    BY <1>1, <1>2 DEF C!Pop
  <2>2. q2 = <<>> /\ v2 = <<>>
    BY <1>2 DEF Less
  <2>3. C!EmptyStack.size = 0
    BY DEF C!EmptyStack
  <2> QED BY <1>2, <2>1, <2>2, <2>3, EmptyIs
<1>3. CASE m # 1
  <2> DEFINE E == D \ {q[m]}
             f == [o \in E |-> IF o = below THEN [val |-> s.objs[o].val, prev |-> s.objs[o].prev, next |-> 0]
                                            ELSE s.objs[o]]
  <2>1. m - 1 \in 1 .. m /\ below \in D /\ below # q[m] /\ below # 0 /\ m - 1 \in Nat /\ m - 1 # 0
    <3>1. m - 1 \in 1 .. m /\ m - 1 # m /\ m - 1 \in Nat /\ m - 1 # 0
      BY <1>1, <1>3
    <3> QED BY <3>1, <1>0, <1>1, PlaceIs
  <2>2. t = [top |-> below, bottom |-> s.bottom, size |-> m - 1, objs |-> f]
    <3>1. t = [s EXCEPT !.top = below, !.size = @ - 1,
                        !.objs = [o \in DOMAIN @ \ {q[m]} |-> IF o = below THEN [@[o] EXCEPT !.next = 0] ELSE @[o]]]
      BY <1>1, <1>3, <2>1 DEF C!Pop
    <3>2. [o \in DOMAIN s.objs \ {q[m]} |-> IF o = below THEN [s.objs[o] EXCEPT !.next = 0] ELSE s.objs[o]] = f
      BY <1>1, <2>1 DEF IsStack
    <3>3. s = [top |-> s.top, bottom |-> s.bottom, size |-> s.size, objs |-> s.objs]
      BY <1>1 DEF IsStack
    <3> HIDE DEF t, f
    <3> QED BY <3>1, <3>2, <3>3
  <2>3. /\ f = [j \in E |-> f[j]] /\ DOMAIN f = E
        /\ \A j \in E : f[j] = [val |-> f[j].val, prev |-> f[j].prev, next |-> f[j].next]
        /\ \A j \in E : f[j].val = s.objs[j].val
        /\ \A j \in E : f[j].prev = s.objs[j].prev
        /\ \A j \in E : f[j].next = (IF j = below THEN 0 ELSE s.objs[j].next)
    BY <1>1 DEF IsStack
  <2>4. IsFiniteSet(E) /\ E \subseteq Nat \ {0}
    BY <1>1, FS_RemoveElement
  <2> HIDE DEF f
  <2>5. IsStack(t)
    <3> HIDE DEF E, t, below
    <3> QED BY <2>2, <2>3, <2>4, StackOf
  <2>6. t.top = below /\ t.bottom = s.bottom /\ t.size = m - 1 /\ t.objs = f /\ DOMAIN t.objs = E
    BY <2>2, <2>3
  <2> HIDE DEF t
  <2>7. /\ q2 = [k \in 1 .. m - 1 |-> q2[k]] /\ v2 = [k \in 1 .. m - 1 |-> v2[k]]
        /\ \A k \in 1 .. m - 1 : q2[k] = q[k] /\ v2[k] = v[k] /\ k \in 1 .. m /\ k # m /\ q[k] \in E
    <3>1. \A k \in 1 .. m - 1 : k \in 1 .. m /\ k # m
      BY <1>1
    <3>2. \A k \in 1 .. m - 1 : q[k] \in E
      BY <1>0, <1>1, <3>1, PlaceIs
    <3> QED BY <3>1, <3>2 DEF Less
  <2> HIDE DEF q2, v2
  <2>8. ASSUME NEW k \in 1 .. m - 1
        PROVE /\ t.objs[q2[k]].val = v2[k]
              /\ t.objs[q2[k]].prev = (IF k = 1 THEN 0 ELSE q2[k - 1])
              /\ \/ t.objs[q2[k]].next = (IF k = m - 1 THEN 0 ELSE q2[k + 1])
                 \/ ~whole /\ t.objs[q2[k]].next = 0
    <3>1. /\ s.objs[q[k]].val = v[k]
          /\ s.objs[q[k]].prev = (IF k = 1 THEN 0 ELSE q[k - 1])
          /\ \/ s.objs[q[k]].next = q[k + 1]
             \/ ~whole /\ s.objs[q[k]].next = 0
          /\ q[k] = below => k = m - 1
      <4>1. k \in 1 .. m /\ k # m /\ m - 1 \in 1 .. m
        BY <2>1, <2>7
      <4>2. \A j, i \in 1 .. m : q[j] = q[i] => j = i
        BY <1>0 DEF Linked
      <4>3. /\ s.objs[q[k]].val = v[k]
            /\ s.objs[q[k]].prev = (IF k = 1 THEN 0 ELSE q[k - 1])
            /\ \/ s.objs[q[k]].next = (IF k = m THEN 0 ELSE q[k + 1])
               \/ ~whole /\ s.objs[q[k]].next = 0
        BY <1>0, <4>1, PlaceIs
      <4> HIDE DEF m, D
      <4> QED BY <4>1, <4>2, <4>3
    <3>2. q2[k] = q[k] /\ v2[k] = v[k] /\ (k # 1 => q2[k - 1] = q[k - 1]) /\ (k # m - 1 => q2[k + 1] = q[k + 1])
      <4>1. (k # 1 => k - 1 \in 1 .. m - 1) /\ (k # m - 1 => k + 1 \in 1 .. m - 1)
        BY <1>1
      <4> QED BY <4>1, <2>7
    <3>3. f[q[k]].val = v[k] /\ f[q[k]].prev = s.objs[q[k]].prev
          /\ f[q[k]].next = (IF k = m - 1 THEN 0 ELSE s.objs[q[k]].next)
      BY <2>3, <2>7, <3>1
    <3> QED BY <3>1, <3>2, <3>3, <2>6
  <2>9. /\ \A j, k \in 1 .. m - 1 : q2[j] = q2[k] => j = k
        /\ \A k \in 1 .. m - 1 : q2[k] \in DOMAIN t.objs
        /\ t.bottom = q2[1] /\ t.top = q2[m - 1]
    <3>1. \A j, k \in 1 .. m : q[j] = q[k] => j = k
      BY <1>0 DEF Linked
    <3>2. 1 \in 1 .. m - 1 /\ m - 1 \in 1 .. m - 1
      BY <2>1
    <3>3. ASSUME NEW j \in 1 .. m - 1, NEW k \in 1 .. m - 1, q2[j] = q2[k] PROVE j = k
      <4>1. j \in 1 .. m /\ k \in 1 .. m /\ q[j] = q[k]
        BY <2>7, <3>3
      <4> HIDE DEF m
      <4> QED BY <3>1, <4>1
    <3>4. t.bottom = q2[1] /\ t.top = q2[m - 1]
      BY <3>2, <2>6, <2>7, <1>1
    <3> QED BY <3>3, <3>4, <2>6, <2>7
  <2>10. Linked(t, q2, v2, whole)
    <3> DEFINE n == m - 1
    <3>1. n \in Nat /\ n # 0 /\ t.size = n /\ IsStack(t)
      BY <2>1, <2>5, <2>6
    <3>2. /\ q2 = [k \in 1 .. n |-> q2[k]] /\ v2 = [k \in 1 .. n |-> v2[k]]
      BY <2>7
    <3> HIDE DEF n, q2, v2
    <3>3. /\ \A j, k \in 1 .. n : q2[j] = q2[k] => j = k
          /\ \A k \in 1 .. n : q2[k] \in DOMAIN t.objs
          /\ t.bottom = (IF n = 0 THEN 0 ELSE q2[1]) /\ t.top = (IF n = 0 THEN 0 ELSE q2[n])
      BY <2>9, <3>1 DEF n
    <3>4. \A k \in 1 .. n :
             /\ t.objs[q2[k]].val = v2[k]
             /\ t.objs[q2[k]].prev = (IF k = 1 THEN 0 ELSE q2[k - 1])
             /\ \/ t.objs[q2[k]].next = (IF k = n THEN 0 ELSE q2[k + 1])
                \/ ~whole /\ t.objs[q2[k]].next = 0
      BY <2>8 DEF n
    <3> HIDE DEF m, D
    <3> QED BY ONLY <3>1, <3>2, <3>3, <3>4, LinkedIf
  <2>11. ASSUME NEW o \in DOMAIN t.objs PROVE \E k \in 1 .. t.size : q2[k] = o
    <3>1. o \in D /\ o # q[m]
      BY <2>6
    <3>2. PICK k \in 1 .. m : q[k] = o
      BY <1>0, <3>1
    <3>3. k \in 1 .. m - 1
      BY <3>1, <3>2, <1>1
    <3> QED BY <3>2, <3>3, <2>6, <2>7
  <2>12. Piled(t, q2, v2, whole)
    BY <2>10, <2>11 DEF Piled
  <2> QED BY <2>6, <2>12 DEF t, q2, v2
<1> QED BY <1>1, <1>2, <1>3

(* q with the one at k moved to the end. *)
Raised(q, m, k) == [j \in 1 .. m |-> IF j = m THEN q[k] ELSE IF j < k THEN q[j] ELSE q[j + 1]]

(* Any two objects of a stack are the same only at one place, and a stack  *)
(* says of each place what it links to.                                    *)
LEMMA Places ==
    ASSUME NEW s, NEW q, NEW v, NEW whole, Linked(s, q, v, whole)
    PROVE  /\ s.size \in Nat
           /\ \A j, k \in 1 .. s.size : q[j] = q[k] => j = k
           /\ \A k \in 1 .. s.size :
                /\ q[k] \in DOMAIN s.objs /\ q[k] \in Nat \ {0}
                /\ s.objs[q[k]].val = v[k]
                /\ s.objs[q[k]].prev = (IF k = 1 THEN 0 ELSE q[k - 1])
                /\ \/ s.objs[q[k]].next = (IF k = s.size THEN 0 ELSE q[k + 1])
                   \/ ~whole /\ s.objs[q[k]].next = 0
<1>1. s.size \in Nat /\ \A j, k \in 1 .. s.size : q[j] = q[k] => j = k
  BY DEF Linked
<1> QED BY <1>1, PlaceIs

(* An object is picked: the old top keeps its next.                        *)
LEMMA PickIs ==
    ASSUME NEW s, NEW q, NEW v, NEW whole, Piled(s, q, v, whole), NEW n \in 2 .. s.size,
           ~C!NothingAbove(s, n)
    PROVE  LET k == s.size + 1 - n
           IN /\ Piled(C!Pick(s, n), Raised(q, s.size, k), Raised(v, s.size, k), FALSE)
              /\ C!Pick(s, n).size = s.size
<1> DEFINE m == s.size
           k == m + 1 - n
           D == DOMAIN s.objs
           c == q[k]
           up == q[k + 1]
           down == q[k - 1]
           q2 == Raised(q, m, k)
           v2 == Raised(v, m, k)
           t == C!Pick(s, n)
           f == [o \in D |-> [val |-> s.objs[o].val,
                              prev |-> IF o = c THEN q[m] ELSE IF o = up THEN IF k = 1 THEN 0 ELSE down
                                       ELSE s.objs[o].prev,
                              next |-> IF o = c THEN 0 ELSE IF k # 1 /\ o = down THEN up
                                       ELSE s.objs[o].next]]
<1>0. Linked(s, q, v, whole) /\ \A o \in D : \E j \in 1 .. m : q[j] = o
  BY DEF Piled
<1>1. /\ m \in Nat /\ IsStack(s) /\ IsFiniteSet(D) /\ D \subseteq Nat \ {0}
  BY <1>0, EndsAre
<1>2. /\ m # 0 /\ k \in 1 .. m /\ k # m /\ k + 1 \in 1 .. m /\ (k # 1 => k - 1 \in 1 .. m) /\ m \in 1 .. m /\ 1 \in 1 .. m
      /\ n \in 1 .. m /\ m - 1 \in 1 .. m /\ m = s.size /\ k \in Nat
  BY <1>1
<1> HIDE DEF k
<1>a. s.top = q[m] /\ s.bottom = q[1] /\ C!Nth(s, n) = c
  BY <1>0, <1>2, EndsAre, NthIs DEF k
<1>b. /\ \A j, i \in 1 .. m : q[j] = q[i] => j = i
      /\ \A j \in 1 .. m :
           /\ q[j] \in D /\ q[j] \in Nat \ {0}
           /\ s.objs[q[j]].val = v[j]
           /\ s.objs[q[j]].prev = (IF j = 1 THEN 0 ELSE q[j - 1])
           /\ \/ s.objs[q[j]].next = (IF j = m THEN 0 ELSE q[j + 1])
              \/ ~whole /\ s.objs[q[j]].next = 0
  BY <1>0, Places
<1> HIDE DEF D, m
<1>c. s.objs[c].next = up /\ s.objs[c].prev = (IF k = 1 THEN 0 ELSE down)
  BY <1>2, <1>a, <1>b DEF C!NothingAbove
<1>d. /\ c \in D /\ up \in D /\ (k # 1 => down \in D /\ down # c /\ down # up /\ down # 0) /\ c # up /\ q[m] \in D /\ q[m] # c /\ up # 0
  <2>1. k # k + 1 /\ (k # 1 => k # k - 1 /\ k + 1 # k - 1)
    BY <1>2
  <2> QED BY <2>1, <1>2, <1>b
<1>e. /\ D = DOMAIN s.objs /\ s.objs = [o \in D |-> s.objs[o]]
      /\ \A o \in D : s.objs[o] = [val |-> s.objs[o].val, prev |-> s.objs[o].prev, next |-> s.objs[o].next]
      /\ s = [top |-> s.top, bottom |-> s.bottom, size |-> s.size, objs |-> s.objs]
  BY <1>1 DEF IsStack, D
<1>3. t = [top |-> c, bottom |-> IF k = 1 THEN up ELSE s.bottom, size |-> m, objs |-> f]
  <2> DEFINE g == [[s.objs EXCEPT ![c].next = 0] EXCEPT ![c].prev = q[m]]
             taken == [s EXCEPT !.top = c, !.objs[c].next = 0, !.objs[c].prev = s.top]
  <2>1. t = (IF k = 1 THEN [taken EXCEPT !.bottom = up, !.objs[up].prev = 0]
             ELSE [taken EXCEPT !.objs[down].next = up, !.objs[up].prev = down])
    <3>1. t = (IF s.objs[c].prev = 0 THEN [taken EXCEPT !.bottom = s.objs[c].next, !.objs[s.objs[c].next].prev = 0]
               ELSE [taken EXCEPT !.objs[s.objs[c].prev].next = s.objs[c].next, !.objs[s.objs[c].next].prev = s.objs[c].prev])
      BY <1>a DEF C!Pick
    <3> HIDE DEF taken, t
    <3> QED BY <3>1, <1>c, <1>d
  <2>2. taken = [top |-> c, bottom |-> s.bottom, size |-> m, objs |-> g]
    <3>1. taken = [s EXCEPT !.top = c, !.objs = g]
      <4>1. s.top = q[m] /\ s = [top |-> s.top, bottom |-> s.bottom, size |-> s.size, objs |-> s.objs]
        BY <1>a, <1>e
      <4> HIDE DEF c
      <4> QED BY <4>1
    <3> HIDE DEF taken, g
    <3> QED BY <3>1, <1>e DEF m
  <2>3. g = [o \in D |-> IF o = c THEN [val |-> s.objs[o].val, prev |-> q[m], next |-> 0] ELSE s.objs[o]]
    <3> HIDE DEF c
    <3>1. g = [o \in D |-> IF o = c THEN [[s.objs[o] EXCEPT !.next = 0] EXCEPT !.prev = q[m]] ELSE s.objs[o]]
      BY <1>e, <1>d
    <3>2. ASSUME NEW o \in D
          PROVE  [[s.objs[o] EXCEPT !.next = 0] EXCEPT !.prev = q[m]]
                 = [val |-> s.objs[o].val, prev |-> q[m], next |-> 0]
      <4> DEFINE r == [s.objs[o] EXCEPT !.next = 0]
      <4>1. r = [val |-> s.objs[o].val, prev |-> s.objs[o].prev, next |-> 0]
        <5>1. s.objs[o] = [val |-> s.objs[o].val, prev |-> s.objs[o].prev, next |-> s.objs[o].next]
          BY <1>e
        <5> HIDE DEF g, taken, f, t
        <5> QED BY <5>1
      <4> HIDE DEF r, g, taken, f, t
      <4>2. [r EXCEPT !.prev = q[m]] = [val |-> s.objs[o].val, prev |-> q[m], next |-> 0]
        BY ONLY <4>1
      <4> QED BY <4>2 DEF r
    <3> HIDE DEF g
    <3> QED BY <3>1, <3>2
  <2> HIDE DEF t, taken, g
  <2>4. CASE k = 1
    <3>1. t = [top |-> c, bottom |-> up, size |-> m, objs |-> [g EXCEPT ![up].prev = 0]]
      BY <2>1, <2>2, <2>4
    <3>2. [g EXCEPT ![up].prev = 0] = f
      BY <2>3, <2>4, <1>d, <1>e
    <3> HIDE DEF f
    <3> QED BY <3>1, <3>2, <2>4
  <2>5. CASE k # 1
    <3>1. t = [top |-> c, bottom |-> s.bottom, size |-> m,
               objs |-> [[g EXCEPT ![down].next = up] EXCEPT ![up].prev = down]]
      BY <2>1, <2>2, <2>5
    <3>2. [[g EXCEPT ![down].next = up] EXCEPT ![up].prev = down] = f
      BY <2>3, <2>5, <1>d, <1>e, SMTT(30)
    <3> HIDE DEF f
    <3> QED BY <3>1, <3>2, <2>5
  <2> QED BY <2>4, <2>5
<1>4. /\ f = [j \in D |-> f[j]] /\ DOMAIN f = D
      /\ \A j \in D : f[j] = [val |-> f[j].val, prev |-> f[j].prev, next |-> f[j].next]
      /\ \A o \in D :
           /\ f[o].val = s.objs[o].val
           /\ f[o].prev = (IF o = c THEN q[m] ELSE IF o = up THEN IF k = 1 THEN 0 ELSE down ELSE s.objs[o].prev)
           /\ f[o].next = (IF o = c THEN 0 ELSE IF k # 1 /\ o = down THEN up ELSE s.objs[o].next)
  OBVIOUS
<1> HIDE DEF f
<1>5. IsStack(t)
  <2>1. IsFiniteSet(D) /\ D \subseteq Nat \ {0}
    BY <1>1 DEF D
  <2> QED BY <2>1, <1>3, <1>4, StackOf
<1>6. t.top = c /\ t.bottom = (IF k = 1 THEN up ELSE s.bottom) /\ t.size = m /\ t.objs = f /\ DOMAIN t.objs = D
  BY <1>3, <1>4
<1> HIDE DEF t
<1>7. /\ q2 = [j \in 1 .. m |-> q2[j]] /\ v2 = [j \in 1 .. m |-> v2[j]]
      /\ q2[m] = q[k] /\ v2[m] = v[k]
      /\ \A j \in 1 .. m : j < k => q2[j] = q[j] /\ v2[j] = v[j]
      /\ \A j \in 1 .. m : j >= k /\ j # m => q2[j] = q[j + 1] /\ v2[j] = v[j + 1]
  BY <1>1, <1>2 DEF Raised
<1> HIDE DEF q2, v2
<1>8. ASSUME NEW j \in 1 .. m
      PROVE /\ q2[j] \in D
            /\ f[q2[j]].val = v2[j]
            /\ f[q2[j]].prev = (IF j = 1 THEN 0 ELSE q2[j - 1])
            /\ f[q2[j]].next = (IF j = m THEN 0 ELSE q2[j + 1]) \/ f[q2[j]].next = 0
  <2>0. m \in Nat
    BY <1>1 DEF m
  <2>1. CASE j = m
    <3>1. m - 1 >= k /\ m - 1 # m /\ (m - 1) + 1 = m /\ m # 1
      BY <1>2, <2>0
    <3>2. q2[m] = c /\ v2[m] = v[k] /\ q2[m - 1] = q[m]
      BY <3>1, <1>2, <1>7
    <3> HIDE DEF c, up, down
    <3>3. f[c].val = s.objs[c].val /\ f[c].prev = q[m] /\ f[c].next = 0 /\ s.objs[c].val = v[k]
      BY <1>2, <1>4, <1>b, <1>d DEF c
    <3> QED BY <2>1, <3>1, <3>2, <3>3, <1>d
  <2>2. CASE j < k
    <3>1. /\ q2[j] = q[j] /\ v2[j] = v[j] /\ (j # 1 => q2[j - 1] = q[j - 1]) /\ j # m
          /\ j + 1 < k => q2[j + 1] = q[j + 1]
          /\ j + 1 >= k => q2[j + 1] = up /\ j = k - 1
      <4>1. (j # 1 => j - 1 \in 1 .. m /\ j - 1 < k) /\ j + 1 \in 1 .. m /\ j # m
            /\ (j + 1 >= k => j = k - 1 /\ j + 1 = k /\ k # m)
        BY <2>0, <2>2, <1>2
      <4> QED BY <4>1, <2>2, <1>7
    <3>2. q[j] \in D /\ q[j] # c /\ q[j] # up /\ (k # 1 => (q[j] = down <=> j = k - 1)) /\ k # 1
      <4>1. j # k /\ j # k + 1 /\ k # 1
        BY <2>0, <2>2, <1>2
      <4> QED BY <4>1, <1>2, <1>b
    <3>3. f[q[j]].val = v[j] /\ f[q[j]].prev = s.objs[q[j]].prev
          /\ f[q[j]].next = (IF j = k - 1 THEN up ELSE s.objs[q[j]].next)
      <4> HIDE DEF c, up, down
      <4> QED BY <3>2, <1>4, <1>b
    <3>4. s.objs[q[j]].prev = (IF j = 1 THEN 0 ELSE q[j - 1])
          /\ (s.objs[q[j]].next = q[j + 1] \/ s.objs[q[j]].next = 0)
      BY <1>b, <3>1
    <3>5. j # k - 1 => j + 1 < k
      BY <2>0, <2>2, <1>2
    <3>6. j = k - 1 => j + 1 >= k
      BY <2>0, <2>2, <1>2
    <3> HIDE DEF up
    <3> QED BY <3>1, <3>2, <3>3, <3>4, <3>5, <3>6
  <2>3. CASE j >= k /\ j # m
    <3>0. j + 1 \in 1 .. m /\ j + 1 # k /\ j + 1 # k - 1 /\ j + 1 # 1 /\ (j + 1) - 1 = j /\ (j + 1 = k + 1 <=> j = k) /\ (j + 1) + 1 = j + 2
      BY <2>0, <2>3, <1>2
    <3>1. /\ q2[j] = q[j + 1] /\ v2[j] = v[j + 1]
          /\ j = k /\ j # 1 => q2[j - 1] = down
          /\ j # k /\ j # 1 => q2[j - 1] = q[j]
          /\ j + 1 # m => q2[j + 1] = q[j + 2]
          /\ j = 1 => j = k
      <4>1. (j = k /\ j # 1 => j - 1 \in 1 .. m /\ j - 1 < k) /\ (j # k /\ j # 1 => j - 1 \in 1 .. m /\ j - 1 >= k /\ j - 1 # m /\ (j - 1) + 1 = j)
            /\ (j + 1 # m => j + 1 >= k) /\ (j = 1 => j = k)
        BY <2>0, <2>3, <1>2
      <4> QED BY <4>1, <2>3, <3>0, <1>7
    <3>2. q[j + 1] \in D /\ q[j + 1] # c /\ (q[j + 1] = up <=> j = k) /\ (k # 1 => q[j + 1] # down)
      BY <3>0, <1>2, <1>b
    <3>3. f[q[j + 1]].val = v[j + 1]
          /\ f[q[j + 1]].prev = (IF j = k THEN IF k = 1 THEN 0 ELSE down ELSE s.objs[q[j + 1]].prev)
          /\ f[q[j + 1]].next = s.objs[q[j + 1]].next
      <4> HIDE DEF c, up, down
      <4>1. s.objs[q[j + 1]].val = v[j + 1]
        BY <3>0, <1>b
      <4> QED BY <4>1, <3>2, <1>4
    <3>4. s.objs[q[j + 1]].prev = q[j]
          /\ (s.objs[q[j + 1]].next = (IF j + 1 = m THEN 0 ELSE q[j + 2]) \/ s.objs[q[j + 1]].next = 0)
      BY <3>0, <1>b
    <3> HIDE DEF up, down, c
    <3> QED BY <2>3, <3>1, <3>2, <3>3, <3>4
  <2> QED BY <2>0, <2>1, <2>2, <2>3, <1>2
<1>9. ASSUME NEW j \in 1 .. m, NEW i \in 1 .. m, q2[j] = q2[i] PROVE j = i
  <2> DEFINE at(x) == IF x = m THEN k ELSE IF x < k THEN x ELSE x + 1
  <2>0. m \in Nat
    BY <1>1 DEF m
  <2>1. ASSUME NEW x \in 1 .. m PROVE q2[x] = q[at(x)] /\ at(x) \in 1 .. m
    <3>1. CASE x = m
      BY <3>1, <1>2, <1>7
    <3>2. CASE x # m /\ x < k
      BY <3>2, <1>7
    <3>3. CASE x # m /\ ~ (x < k)
      <4>1. x >= k /\ x + 1 \in 1 .. m
        BY <2>0, <3>3, <1>2
      <4> QED BY <4>1, <3>3, <1>7
    <3> QED BY <3>1, <3>2, <3>3
  <2>2. at(j) = at(i)
    <3> HIDE DEF at
    <3> QED BY <2>1, <1>9, <1>b
  <2> QED BY <2>0, <2>2, <1>2
<1>10. t.bottom = q2[1] /\ t.top = q2[m]
  <2>1. k = 1 => 1 >= k /\ 1 # m
    BY <1>2
  <2>2. k # 1 => 1 < k
    BY <1>2
  <2> QED BY <2>1, <2>2, <1>2, <1>6, <1>7, <1>a
<1>11. Linked(t, q2, v2, FALSE)
  <2>1. m \in Nat /\ m # 0 /\ t.size = m /\ IsStack(t)
    BY <1>1, <1>2, <1>5, <1>6 DEF m
  <2>2. /\ \A j, i \in 1 .. m : q2[j] = q2[i] => j = i
        /\ \A j \in 1 .. m : q2[j] \in DOMAIN t.objs
        /\ t.bottom = (IF m = 0 THEN 0 ELSE q2[1]) /\ t.top = (IF m = 0 THEN 0 ELSE q2[m])
    BY <2>1, <1>6, <1>8, <1>9, <1>10
  <2>3. \A j \in 1 .. m :
             /\ t.objs[q2[j]].val = v2[j]
             /\ t.objs[q2[j]].prev = (IF j = 1 THEN 0 ELSE q2[j - 1])
             /\ \/ t.objs[q2[j]].next = (IF j = m THEN 0 ELSE q2[j + 1])
                \/ ~FALSE /\ t.objs[q2[j]].next = 0
    BY <1>6, <1>8
  <2>4. q2 = [j \in 1 .. m |-> q2[j]] /\ v2 = [j \in 1 .. m |-> v2[j]]
    BY <1>7
  <2> QED BY ONLY <2>1, <2>2, <2>3, <2>4, LinkedIf
<1>12. ASSUME NEW o \in DOMAIN t.objs PROVE \E j \in 1 .. t.size : q2[j] = o
  <2>0. m \in Nat
    BY <1>1 DEF m
  <2>1. PICK i \in 1 .. m : q[i] = o
    BY <1>0, <1>6 DEF D, m
  <2>2. CASE i = k
    BY <2>1, <2>2, <1>2, <1>6, <1>7
  <2>3. CASE i < k
    BY <2>1, <2>3, <1>2, <1>6, <1>7
  <2>4. CASE i > k
    <3>1. i - 1 \in 1 .. m /\ i - 1 >= k /\ i - 1 # m /\ (i - 1) + 1 = i
      BY <2>0, <2>4, <1>2
    <3> QED BY <3>1, <2>1, <1>6, <1>7
  <2> QED BY <2>0, <2>1, <2>2, <2>3, <2>4, <1>2
<1>13. Piled(t, q2, v2, FALSE)
  BY <1>11, <1>12 DEF Piled
<1> QED BY <1>6, <1>13 DEF t, q2, v2, k, m

(* q with o above the place k. *)
Inserted(q, m, k, o) == [j \in 1 .. m + 1 |-> IF j <= k THEN q[j] ELSE IF j = k + 1 THEN o ELSE q[j - 1]]

(* One link of one object is set.                                          *)
LEMMA SetNext ==
    ASSUME NEW E, NEW g, g = [o \in E |-> g[o]],
           \A o \in E : g[o] = [val |-> g[o].val, prev |-> g[o].prev, next |-> g[o].next],
           NEW x \in E, NEW y
    PROVE  LET h == [g EXCEPT ![x].next = y]
           IN /\ h = [o \in E |-> h[o]]
              /\ \A o \in E :
                   /\ h[o] = [val |-> h[o].val, prev |-> h[o].prev, next |-> h[o].next]
                   /\ h[o].val = g[o].val /\ h[o].prev = g[o].prev
                   /\ h[o].next = (IF o = x THEN y ELSE g[o].next)
<1> DEFINE h == [g EXCEPT ![x].next = y]
<1>1. h = [o \in E |-> [val |-> g[o].val, prev |-> g[o].prev, next |-> IF o = x THEN y ELSE g[o].next]]
  OBVIOUS
<1> HIDE DEF h
<1> QED BY <1>1 DEF h

(* One prev is written.                                                    *)
LEMMA SetPrev ==
    ASSUME NEW E, NEW g, g = [o \in E |-> g[o]],
           \A o \in E : g[o] = [val |-> g[o].val, prev |-> g[o].prev, next |-> g[o].next],
           NEW x \in E, NEW y
    PROVE  LET h == [g EXCEPT ![x].prev = y]
           IN /\ h = [o \in E |-> h[o]]
              /\ \A o \in E :
                   /\ h[o] = [val |-> h[o].val, prev |-> h[o].prev, next |-> h[o].next]
                   /\ h[o].val = g[o].val /\ h[o].next = g[o].next
                   /\ h[o].prev = (IF o = x THEN y ELSE g[o].prev)
<1> DEFINE h == [g EXCEPT ![x].prev = y]
<1>1. h = [o \in E |-> [val |-> g[o].val, next |-> g[o].next, prev |-> IF o = x THEN y ELSE g[o].prev]]
  OBVIOUS
<1> HIDE DEF h
<1> QED BY <1>1 DEF h

(* A copy of the top is inserted.                                          *)
LEMMA InsertCopyIs ==
    ASSUME NEW s, NEW q, NEW v, NEW whole, Piled(s, q, v, whole), NEW n \in 2 .. s.size,
           ~C!NothingAbove(s, n)
    PROVE  LET k == s.size + 1 - n
           IN /\ Piled(C!InsertCopy(s, n), Inserted(q, s.size, k, C!Slot(s)),
                       Inserted(v, s.size, k, v[s.size]), whole)
              /\ C!InsertCopy(s, n).size = s.size + 1
<1> DEFINE m == s.size
           k == m + 1 - n
           D == DOMAIN s.objs
           new == C!Slot(s)
           E == D \cup {new}
           x == s.objs[s.top].val
           c == q[k]
           up == q[k + 1]
           q2 == Inserted(q, m, k, new)
           v2 == Inserted(v, m, k, x)
           t == C!InsertCopy(s, n)
           f == [o \in E |-> [val |-> IF o = new THEN x ELSE s.objs[o].val,
                              prev |-> IF o = new THEN c ELSE IF o = up THEN new ELSE s.objs[o].prev,
                              next |-> IF o = new THEN up ELSE IF o = c THEN new ELSE s.objs[o].next]]
<1>0. Linked(s, q, v, whole) /\ \A o \in D : \E j \in 1 .. m : q[j] = o
  BY DEF Piled
<1>1. /\ m \in Nat /\ IsStack(s) /\ IsFiniteSet(D) /\ D \subseteq Nat \ {0} /\ new \in Nat \ {0} /\ new \notin D
  BY <1>0, EndsAre, SlotIs
<1>2. /\ m # 0 /\ k \in 1 .. m /\ k # m /\ k + 1 \in 1 .. m /\ m \in 1 .. m /\ 1 \in 1 .. m
      /\ n \in 1 .. m /\ k \in Nat /\ m + 1 \in Nat /\ m + 1 # 0 /\ k <= m /\ 1 <= k
  BY <1>1
<1> HIDE DEF k
<1>a. s.top = q[m] /\ s.bottom = q[1] /\ C!Nth(s, n) = c
  BY <1>0, <1>2, EndsAre, NthIs DEF k
<1>b. /\ \A j, i \in 1 .. m : q[j] = q[i] => j = i
      /\ \A j \in 1 .. m :
           /\ q[j] \in D /\ q[j] \in Nat \ {0}
           /\ s.objs[q[j]].val = v[j]
           /\ s.objs[q[j]].prev = (IF j = 1 THEN 0 ELSE q[j - 1])
           /\ \/ s.objs[q[j]].next = (IF j = m THEN 0 ELSE q[j + 1])
              \/ ~whole /\ s.objs[q[j]].next = 0
  BY <1>0, Places
<1> HIDE DEF D, m, new, E
<1>c. s.objs[c].next = up /\ x = v[m]
  BY <1>2, <1>a, <1>b DEF C!NothingAbove
<1>d. /\ c \in D /\ up \in D /\ c # up /\ c # new /\ up # new /\ c \in E /\ up \in E /\ new \in E
  <2>1. k # k + 1
    BY <1>2
  <2> QED BY <2>1, <1>1, <1>2, <1>b DEF E
<1>e. /\ D = DOMAIN s.objs /\ s.objs = [o \in D |-> s.objs[o]]
      /\ \A o \in D : s.objs[o] = [val |-> s.objs[o].val, prev |-> s.objs[o].prev, next |-> s.objs[o].next]
      /\ s = [top |-> s.top, bottom |-> s.bottom, size |-> s.size, objs |-> s.objs]
  BY <1>1 DEF IsStack, D
<1> HIDE DEF x
<1>3. t = [top |-> s.top, bottom |-> s.bottom, size |-> m + 1, objs |-> f]
  <2> DEFINE g == [j \in E |-> IF j = new THEN [val |-> x, prev |-> 0, next |-> 0] ELSE s.objs[j]]
             made == C!NewObject(s, x)
             g1 == [g EXCEPT ![c].next = new]
             g2 == [g1 EXCEPT ![up].prev = new]
             g3 == [g2 EXCEPT ![new].prev = c]
             g4 == [g3 EXCEPT ![new].next = up]
  <2>1. made = [top |-> s.top, bottom |-> s.bottom, size |-> m, objs |-> g]
    <3>1. made = [s EXCEPT !.objs = g]
      BY <1>e DEF C!NewObject, E, new
    <3> HIDE DEF made, g
    <3> QED BY <3>1, <1>e DEF m
  <2>2. t = [made EXCEPT !.objs[c].next = new, !.objs[up].prev = new,
                         !.objs[new].prev = c, !.objs[new].next = up, !.size = @ + 1]
    <3> HIDE DEF up
    <3> QED BY <1>a, <1>c DEF C!InsertCopy, new, x
  <2> DEFINE m1 == [made EXCEPT !.objs[c].next = new]
             m2 == [m1 EXCEPT !.objs[up].prev = new]
             m3 == [m2 EXCEPT !.objs[new].prev = c]
             m4 == [m3 EXCEPT !.objs[new].next = up]
  <2>a. t = [m4 EXCEPT !.size = @ + 1]
    <3> HIDE DEF g, c, up, t, made, f
    <3> QED BY <2>2
  <2> HIDE DEF t, made, f, g, c, up
  <2>b. m1 = [top |-> s.top, bottom |-> s.bottom, size |-> m, objs |-> g1]
    BY <2>1
  <2> HIDE DEF m1, g1
  <2>c. m2 = [top |-> s.top, bottom |-> s.bottom, size |-> m, objs |-> g2]
    BY <2>b
  <2> HIDE DEF m2, g2
  <2>d. m3 = [top |-> s.top, bottom |-> s.bottom, size |-> m, objs |-> g3]
    BY <2>c
  <2> HIDE DEF m3, g3
  <2>e. m4 = [top |-> s.top, bottom |-> s.bottom, size |-> m, objs |-> g4]
    BY <2>d
  <2> HIDE DEF m4, g4
  <2>4. t = [top |-> s.top, bottom |-> s.bottom, size |-> m + 1, objs |-> g4]
    BY <2>a, <2>e
  <2>5. /\ g = [o \in E |-> g[o]] /\ g[new] = [val |-> x, prev |-> 0, next |-> 0]
        /\ \A o \in E : o # new => g[o] = s.objs[o] /\ o \in D
        /\ \A o \in E : g[o] = [val |-> g[o].val, prev |-> g[o].prev, next |-> g[o].next]
    BY <1>e DEF E, g
  <2>6. /\ g1 = [o \in E |-> g1[o]]
        /\ \A o \in E :
             /\ g1[o] = [val |-> g1[o].val, prev |-> g1[o].prev, next |-> g1[o].next]
             /\ g1[o].val = g[o].val /\ g1[o].prev = g[o].prev
             /\ g1[o].next = (IF o = c THEN new ELSE g[o].next)
    BY <2>5, <1>d, SetNext DEF g1
  <2>7. /\ g2 = [o \in E |-> g2[o]]
        /\ \A o \in E :
             /\ g2[o] = [val |-> g2[o].val, prev |-> g2[o].prev, next |-> g2[o].next]
             /\ g2[o].val = g1[o].val /\ g2[o].next = g1[o].next
             /\ g2[o].prev = (IF o = up THEN new ELSE g1[o].prev)
    BY <2>6, <1>d, SetPrev DEF g2
  <2>8. /\ g3 = [o \in E |-> g3[o]]
        /\ \A o \in E :
             /\ g3[o] = [val |-> g3[o].val, prev |-> g3[o].prev, next |-> g3[o].next]
             /\ g3[o].val = g2[o].val /\ g3[o].next = g2[o].next
             /\ g3[o].prev = (IF o = new THEN c ELSE g2[o].prev)
    BY <2>7, <1>d, SetPrev DEF g3
  <2>9. /\ g4 = [o \in E |-> g4[o]]
        /\ \A o \in E :
             /\ g4[o] = [val |-> g4[o].val, prev |-> g4[o].prev, next |-> g4[o].next]
             /\ g4[o].val = g3[o].val /\ g4[o].prev = g3[o].prev
             /\ g4[o].next = (IF o = new THEN up ELSE g3[o].next)
    BY <2>8, <1>d, SetNext DEF g4
  <2>10. g4 = f
    <3>1. ASSUME NEW o \in E
          PROVE  g4[o] = [val |-> IF o = new THEN x ELSE s.objs[o].val,
                          prev |-> IF o = new THEN c ELSE IF o = up THEN new ELSE s.objs[o].prev,
                          next |-> IF o = new THEN up ELSE IF o = c THEN new ELSE s.objs[o].next]
      <4>1. /\ g4[o] = [val |-> g4[o].val, prev |-> g4[o].prev, next |-> g4[o].next]
            /\ g4[o].val = g[o].val
            /\ g4[o].prev = (IF o = new THEN c ELSE IF o = up THEN new ELSE g[o].prev)
            /\ g4[o].next = (IF o = new THEN up ELSE IF o = c THEN new ELSE g[o].next)
        BY <2>6, <2>7, <2>8, <2>9
      <4>2. g[o].val = (IF o = new THEN x ELSE s.objs[o].val) /\ (o # new => g[o] = s.objs[o])
        BY <2>5
      <4> QED BY <4>1, <4>2
    <3> QED BY <2>9, <3>1 DEF f
  <2> QED BY <2>4, <2>10
<1>4. /\ f = [j \in E |-> f[j]] /\ DOMAIN f = E
      /\ \A j \in E : f[j] = [val |-> f[j].val, prev |-> f[j].prev, next |-> f[j].next]
      /\ \A o \in E :
           /\ f[o].val = (IF o = new THEN x ELSE s.objs[o].val)
           /\ f[o].prev = (IF o = new THEN c ELSE IF o = up THEN new ELSE s.objs[o].prev)
           /\ f[o].next = (IF o = new THEN up ELSE IF o = c THEN new ELSE s.objs[o].next)
  OBVIOUS
<1> HIDE DEF f
<1>5. IsStack(t)
  <2>1. IsFiniteSet(E) /\ E \subseteq Nat \ {0}
    BY <1>1, FS_AddElement DEF E
  <2> HIDE DEF t
  <2> QED BY <2>1, <1>3, <1>4, StackOf
<1>6. t.top = q[m] /\ t.bottom = q[1] /\ t.size = m + 1 /\ t.objs = f /\ DOMAIN t.objs = E
  BY <1>3, <1>4, <1>a
<1> HIDE DEF t
<1>7. /\ q2 = [j \in 1 .. m + 1 |-> q2[j]] /\ v2 = [j \in 1 .. m + 1 |-> v2[j]]
      /\ \A j \in 1 .. m + 1 : j <= k => q2[j] = q[j] /\ v2[j] = v[j]
      /\ q2[k + 1] = new /\ v2[k + 1] = x
      /\ \A j \in 1 .. m + 1 : j > k + 1 => q2[j] = q[j - 1] /\ v2[j] = v[j - 1] /\ j - 1 \in 1 .. m
  <2>0. m \in Nat
    BY <1>1 DEF m
  <2>1. \A j \in 1 .. m + 1 : j > k + 1 => ~ (j <= k) /\ j # k + 1 /\ j - 1 \in 1 .. m
    BY <1>2, <2>0
  <2>2. k + 1 \in 1 .. m + 1 /\ ~ (k + 1 <= k)
    BY <1>2, <2>0
  <2> QED BY <2>1, <2>2 DEF Inserted
<1> HIDE DEF q2, v2
<1>8. ASSUME NEW j \in 1 .. m + 1
      PROVE /\ q2[j] \in E
            /\ f[q2[j]].val = v2[j]
            /\ f[q2[j]].prev = (IF j = 1 THEN 0 ELSE q2[j - 1])
            /\ \/ f[q2[j]].next = (IF j = m + 1 THEN 0 ELSE q2[j + 1])
               \/ ~whole /\ f[q2[j]].next = 0
  <2>0. m \in Nat
    BY <1>1 DEF m
  <2>1. CASE j = k + 1
    <3>1. (k + 1) - 1 = k /\ k + 1 # 1 /\ k + 1 # m + 1 /\ (k + 1) + 1 > k + 1 /\ (k + 1) + 1 \in 1 .. m + 1
          /\ ((k + 1) + 1) - 1 = k + 1 /\ k \in 1 .. m + 1 /\ k <= k
      BY <1>2, <2>0
    <3>2. q2[k] = c /\ q2[(k + 1) + 1] = up
      BY <3>1, <1>7
    <3> HIDE DEF c, up
    <3> QED BY <2>1, <3>1, <3>2, <1>4, <1>7, <1>d
  <2>2. CASE j <= k
    <3>1. /\ q2[j] = q[j] /\ v2[j] = v[j] /\ (j # 1 => q2[j - 1] = q[j - 1]) /\ j # m + 1
          /\ j # k => q2[j + 1] = q[j + 1]
          /\ j = k => q2[j + 1] = new
      <4>1. (j # 1 => j - 1 \in 1 .. m + 1 /\ j - 1 <= k) /\ j + 1 \in 1 .. m + 1 /\ j # m + 1
            /\ (j # k => j + 1 <= k)
        BY <2>0, <2>2, <1>2
      <4> QED BY <4>1, <2>2, <1>7
    <3>2. j \in 1 .. m /\ j # m /\ q[j] \in D /\ q[j] # up /\ (q[j] = c <=> j = k) /\ q[j] # new /\ q[j] \in E
      <4>1. j \in 1 .. m /\ j # m /\ j # k + 1
        BY <2>0, <2>2, <1>2
      <4>2. q[j] \in D
        BY <4>1, <1>b
      <4> QED BY <4>1, <4>2, <1>1, <1>2, <1>b DEF E
    <3>3. f[q[j]].val = v[j] /\ f[q[j]].prev = s.objs[q[j]].prev
          /\ f[q[j]].next = (IF j = k THEN new ELSE s.objs[q[j]].next)
      <4>1. s.objs[q[j]].val = v[j]
        BY <3>2, <1>b
      <4> HIDE DEF c, up
      <4> QED BY <4>1, <3>2, <1>4
    <3>4. s.objs[q[j]].prev = (IF j = 1 THEN 0 ELSE q[j - 1])
          /\ (s.objs[q[j]].next = q[j + 1] \/ (~whole /\ s.objs[q[j]].next = 0))
      BY <1>b, <3>2
    <3> HIDE DEF up, c
    <3> QED BY <3>1, <3>2, <3>3, <3>4
  <2>3. CASE j > k + 1
    <3>0. j - 1 \in 1 .. m /\ j - 1 # k /\ (j - 1 = k + 1 <=> j = k + 2) /\ j # 1 /\ (j - 1 = m <=> j = m + 1) /\ (j - 1) + 1 = j
          /\ j - 1 # 1 /\ (j = k + 2 => j - 1 = k + 1) /\ (j # k + 2 => j - 1 > k + 1) /\ j - 1 \in 1 .. m + 1
          /\ (j # m + 1 => j + 1 \in 1 .. m + 1 /\ j + 1 > k + 1 /\ (j + 1) - 1 = j)
      BY <2>0, <2>3, <1>2
    <3>1. /\ q2[j] = q[j - 1] /\ v2[j] = v[j - 1]
          /\ j = k + 2 => q2[j - 1] = new
          /\ j # k + 2 => q2[j - 1] = q[(j - 1) - 1]
          /\ j # m + 1 => q2[j + 1] = q[j]
      BY <2>3, <3>0, <1>7
    <3>2. q[j - 1] \in D /\ q[j - 1] # c /\ (q[j - 1] = up <=> j = k + 2) /\ q[j - 1] # new /\ q[j - 1] \in E
      <4>1. q[j - 1] \in D
        BY <3>0, <1>b
      <4> QED BY <4>1, <3>0, <1>1, <1>2, <1>b DEF E
    <3>3. f[q[j - 1]].val = v[j - 1]
          /\ f[q[j - 1]].prev = (IF j = k + 2 THEN new ELSE s.objs[q[j - 1]].prev)
          /\ f[q[j - 1]].next = s.objs[q[j - 1]].next
      <4>1. s.objs[q[j - 1]].val = v[j - 1]
        BY <3>0, <1>b
      <4> HIDE DEF c, up
      <4> QED BY <4>1, <3>2, <1>4
    <3>4. s.objs[q[j - 1]].prev = q[(j - 1) - 1]
          /\ (s.objs[q[j - 1]].next = (IF j - 1 = m THEN 0 ELSE q[(j - 1) + 1])
              \/ (~whole /\ s.objs[q[j - 1]].next = 0))
      BY <3>0, <1>b
    <3> HIDE DEF up, c
    <3> QED BY <3>0, <3>1, <3>2, <3>3, <3>4
  <2> QED BY <2>0, <2>1, <2>2, <2>3, <1>2
<1>9. ASSUME NEW j \in 1 .. m + 1, NEW i \in 1 .. m + 1, q2[j] = q2[i] PROVE j = i
  <2> DEFINE at(y) == IF y <= k THEN y ELSE y - 1
  <2>0. m \in Nat
    BY <1>1 DEF m
  <2>1. ASSUME NEW y \in 1 .. m + 1, y # k + 1 PROVE q2[y] = q[at(y)] /\ at(y) \in 1 .. m /\ q2[y] # new
    <3>1. CASE y <= k
      <4>1. y \in 1 .. m
        BY <2>0, <3>1, <1>2
      <4> QED BY <3>1, <4>1, <1>1, <1>7, <1>b
    <3>2. CASE ~ (y <= k)
      <4>1. y > k + 1
        BY <2>0, <2>1, <3>2, <1>2
      <4>2. q2[y] = q[y - 1] /\ y - 1 \in 1 .. m
        BY <4>1, <1>7
      <4> QED BY <3>2, <4>2, <1>1, <1>b
    <3> QED BY <3>1, <3>2
  <2>2. CASE j # k + 1 /\ i # k + 1
    <3>1. at(j) = at(i)
      <4> HIDE DEF at
      <4> QED BY <2>1, <2>2, <1>9, <1>b
    <3> QED BY <2>0, <2>2, <3>1, <1>2
  <2>3. CASE j = k + 1 \/ i = k + 1
    BY <2>1, <2>3, <1>9, <1>7
  <2> QED BY <2>2, <2>3
<1>10. t.bottom = q2[1] /\ t.top = q2[m + 1]
  <2>0. m \in Nat
    BY <1>1 DEF m
  <2>1. 1 <= k /\ m + 1 > k + 1 /\ 1 \in 1 .. m + 1 /\ m + 1 \in 1 .. m + 1 /\ (m + 1) - 1 = m
    BY <1>2, <2>0
  <2> QED BY <2>1, <1>6, <1>7
<1>11. Linked(t, q2, v2, whole)
  <2> DEFINE p == m + 1
  <2>1. p \in Nat /\ p # 0 /\ t.size = p /\ IsStack(t)
    BY <1>1, <1>2, <1>5, <1>6 DEF m
  <2>2. /\ \A j, i \in 1 .. p : q2[j] = q2[i] => j = i
        /\ \A j \in 1 .. p : q2[j] \in DOMAIN t.objs
        /\ t.bottom = (IF p = 0 THEN 0 ELSE q2[1]) /\ t.top = (IF p = 0 THEN 0 ELSE q2[p])
    BY <2>1, <1>6, <1>8, <1>9, <1>10
  <2>3. \A j \in 1 .. p :
             /\ t.objs[q2[j]].val = v2[j]
             /\ t.objs[q2[j]].prev = (IF j = 1 THEN 0 ELSE q2[j - 1])
             /\ \/ t.objs[q2[j]].next = (IF j = p THEN 0 ELSE q2[j + 1])
                \/ ~whole /\ t.objs[q2[j]].next = 0
    BY <1>6, <1>8
  <2>4. q2 = [j \in 1 .. p |-> q2[j]] /\ v2 = [j \in 1 .. p |-> v2[j]]
    BY <1>7
  <2> HIDE DEF p
  <2> QED BY ONLY <2>1, <2>2, <2>3, <2>4, LinkedIf
<1>12. ASSUME NEW o \in DOMAIN t.objs PROVE \E j \in 1 .. t.size : q2[j] = o
  <2>0. m \in Nat
    BY <1>1 DEF m
  <2>1. CASE o = new
    <3>1. k + 1 \in 1 .. m + 1
      BY <1>2, <2>0
    <3> QED BY <2>1, <3>1, <1>6, <1>7
  <2>2. CASE o \in D
    <3>1. PICK i \in 1 .. m : q[i] = o
      BY <1>0, <2>2 DEF D, m
    <3>2. CASE i <= k
      <4>1. i \in 1 .. m + 1
        BY <2>0
      <4> QED BY <4>1, <3>1, <3>2, <1>6, <1>7
    <3>3. CASE i > k
      <4>1. i + 1 \in 1 .. m + 1 /\ i + 1 > k + 1 /\ (i + 1) - 1 = i
        BY <2>0, <3>3, <1>2
      <4> QED BY <4>1, <3>1, <1>6, <1>7
    <3> QED BY <2>0, <3>2, <3>3, <1>2
  <2> QED BY <2>1, <2>2, <1>6 DEF E
<1>13. Piled(t, q2, v2, whole)
  BY <1>11, <1>12 DEF Piled
<1>14. v2 = Inserted(v, m, k, v[m])
  BY <1>c DEF v2
<1> QED BY <1>6, <1>13, <1>14 DEF t, q2, k, m, new

(* One object after another is linked to a stack: there is a function that *)
(* says what is made of it.                                                *)
Linking(s, t, n) == CHOOSE f : f = [i \in 0 .. n |-> IF i = 0 THEN t ELSE C!Link(f[i - 1], C!Nth(s, i))]
LEMMA LinkingIs ==
    ASSUME NEW s, NEW t, NEW n \in Nat
    PROVE  LET F == Linking(s, t, n)
           IN /\ DOMAIN F = 0 .. n /\ F[0] = t
              /\ \A i \in 1 .. n : F[i] = C!Link(F[i - 1], C!Nth(s, i))
<1> DEFINE Step(f, i) == IF i = 0 THEN t ELSE C!Link(f[i - 1], C!Nth(s, i))
           bad == {a \in Nat : ~ (\E f : f = [i \in 0 .. a |-> Step(f, i)])}
<1>1. SUFFICES ASSUME bad # {} PROVE FALSE
  <2> DEFINE F == Linking(s, t, n)
  <2>0. F = CHOOSE f : f = [i \in 0 .. n |-> Step(f, i)]
    BY DEF Linking
  <2> HIDE DEF Step, F
  <2>1. n \notin bad
    BY <1>1
  <2>2. \E f : f = [i \in 0 .. n |-> Step(f, i)]
    BY <2>1
  <2>3. F = [i \in 0 .. n |-> Step(F, i)]
    BY <2>0, <2>2, Zenon
  <2>4. DOMAIN F = 0 .. n /\ \A i \in 0 .. n : F[i] = Step(F, i)
    BY <2>3
  <2>5. 0 \in 0 .. n /\ \A i \in 1 .. n : i \in 0 .. n /\ i # 0
    OBVIOUS
  <2> QED BY <2>4, <2>5 DEF Step, F
<1>2. PICK a \in bad : \A b \in bad : a <= b
  <2>1. bad \in SUBSET Nat
    OBVIOUS
  <2> HIDE DEF bad
  <2> QED BY <1>1, <2>1, Least
<1>3. a \in Nat /\ ~ (\E f : f = [i \in 0 .. a |-> Step(f, i)])
  BY <1>2
<1>4. CASE a = 0
  <2> DEFINE g == [i \in 0 .. a |-> t]
  <2>1. \A i \in 0 .. a : g[i] = Step(g, i)
    BY <1>4
  <2>2. g = [i \in 0 .. a |-> g[i]]
    OBVIOUS
  <2> HIDE DEF g, Step
  <2>3. g = [i \in 0 .. a |-> Step(g, i)]
    BY <2>1, <2>2
  <2> QED BY <2>3, <1>3
<1>5. CASE a # 0
  <2>1. a - 1 \in Nat /\ ~ (a <= a - 1)
    BY <1>3, <1>5
  <2>2. a - 1 \notin bad
    BY <1>2, <2>1
  <2>3. PICK f : f = [i \in 0 .. a - 1 |-> Step(f, i)]
    BY <2>1, <2>2
  <2>4. DOMAIN f = 0 .. a - 1 /\ \A i \in 0 .. a - 1 : f[i] = Step(f, i)
    <3> HIDE DEF Step
    <3> QED BY <2>3
  <2> DEFINE g == [i \in 0 .. a |-> IF i = a THEN Step(f, a) ELSE f[i]]
  <2>5. \A i \in 0 .. a : i # a => g[i] = f[i]
    BY <1>3
  <2>6. g[a] = Step(f, a)
    BY <1>3
  <2>7. g = [i \in 0 .. a |-> g[i]]
    OBVIOUS
  <2> HIDE DEF g
  <2>8. ASSUME NEW i \in 0 .. a PROVE g[i] = Step(g, i)
    <3>1. CASE i = a
      <4>1. g[a - 1] = f[a - 1]
        <5>1. a - 1 \in 0 .. a /\ a - 1 # a
          BY <1>3, <2>1
        <5> QED BY <5>1, <2>5
      <4> QED BY <1>5, <2>6, <3>1, <4>1
    <3>2. CASE i # a
      <4>1. i \in 0 .. a - 1 /\ (i # 0 => i - 1 \in 0 .. a /\ i - 1 # a)
        BY <1>3, <3>2
      <4>2. g[i] = f[i] /\ f[i] = Step(f, i) /\ (i # 0 => g[i - 1] = f[i - 1])
        BY <3>2, <4>1, <2>4, <2>5
      <4> QED BY <4>2
    <3> QED BY <3>1, <3>2
  <2> HIDE DEF Step
  <2>9. g = [i \in 0 .. a |-> Step(g, i)]
    BY <2>7, <2>8
  <2> QED BY <2>9, <1>3
<1> QED BY <1>4, <1>5

(* What the next of the top was is no matter: it is set.                   *)
LEMMA LinkSets ==
    ASSUME NEW s, IsStack(s), s.bottom # 0, NEW o \in DOMAIN s.objs, s.top \in DOMAIN s.objs
    PROVE  C!Link(s, o) = C!Link([s EXCEPT !.objs[s.top].next = 0], o)
<1> DEFINE D == DOMAIN s.objs
           x == s.top
           g == s.objs
           g0 == [g EXCEPT ![x].next = 0]
           s0 == [s EXCEPT !.objs[s.top].next = 0]
           h == [g EXCEPT ![x].next = o]
           h0 == [g0 EXCEPT ![x].next = o]
<1>1. /\ s = [top |-> s.top, bottom |-> s.bottom, size |-> s.size, objs |-> s.objs]
      /\ g = [j \in D |-> g[j]] /\ x \in D
      /\ \A j \in D : g[j] = [val |-> g[j].val, prev |-> g[j].prev, next |-> g[j].next]
  BY DEF IsStack
<1>2. s0 = [top |-> x, bottom |-> s.bottom, size |-> s.size, objs |-> g0]
  <2> HIDE DEF h, h0
  <2> QED BY <1>1
<1>3. C!Link(s, o) = [top |-> o, bottom |-> s.bottom, size |-> s.size + 1, objs |-> [h EXCEPT ![o].prev = x]]
  <2>1. C!Link(s, o) = [s EXCEPT !.objs[x].next = o, !.objs[o].prev = x, !.top = o, !.size = @ + 1]
    BY DEF C!Link
  <2>2. C!Link(s, o) = [s EXCEPT !.objs = [h EXCEPT ![o].prev = x], !.top = o, !.size = @ + 1]
    BY <2>1, <1>1
  <2> HIDE DEF h
  <2> QED BY <2>2, <1>1
<1> HIDE DEF s0, g0
<1>4. C!Link(s0, o) = [top |-> o, bottom |-> s.bottom, size |-> s.size + 1, objs |-> [h0 EXCEPT ![o].prev = x]]
  <2>0. s0.top = x /\ s0.bottom # 0 /\ s0.objs = g0
    BY <1>2
  <2>1. C!Link(s0, o) = [s0 EXCEPT !.objs[x].next = o, !.objs[o].prev = x, !.top = o, !.size = @ + 1]
    BY <2>0 DEF C!Link
  <2>2. C!Link(s0, o) = [s0 EXCEPT !.objs = [h0 EXCEPT ![o].prev = x], !.top = o, !.size = @ + 1]
    BY <2>0, <2>1, <1>2
  <2> HIDE DEF h0
  <2> QED BY <2>2, <1>2
<1>5. /\ g0 = [j \in D |-> g0[j]]
      /\ \A j \in D :
           /\ g0[j] = [val |-> g0[j].val, prev |-> g0[j].prev, next |-> g0[j].next]
           /\ g0[j].val = g[j].val /\ g0[j].prev = g[j].prev
           /\ g0[j].next = (IF j = x THEN 0 ELSE g[j].next)
  <2> HIDE DEF D, g, x
  <2> QED BY <1>1, SetNext DEF g0
<1>6. /\ h0 = [j \in D |-> h0[j]]
      /\ \A j \in D :
           /\ h0[j] = [val |-> h0[j].val, prev |-> h0[j].prev, next |-> h0[j].next]
           /\ h0[j].val = g0[j].val /\ h0[j].prev = g0[j].prev
           /\ h0[j].next = (IF j = x THEN o ELSE g0[j].next)
  <2> HIDE DEF D, g, x
  <2> QED BY <1>1, <1>5, SetNext
<1>7. /\ h = [j \in D |-> h[j]]
      /\ \A j \in D :
           /\ h[j] = [val |-> h[j].val, prev |-> h[j].prev, next |-> h[j].next]
           /\ h[j].val = g[j].val /\ h[j].prev = g[j].prev
           /\ h[j].next = (IF j = x THEN o ELSE g[j].next)
  <2> HIDE DEF D, g, x
  <2> QED BY <1>1, SetNext
<1> HIDE DEF h, h0, g, D, x
<1>8. \A j \in D : h[j] = h0[j]
  <2> SUFFICES ASSUME NEW j \in D PROVE h[j] = h0[j]
    OBVIOUS
  <2>1. h[j].val = h0[j].val /\ h[j].prev = h0[j].prev /\ h[j].next = h0[j].next
    BY <1>5, <1>6, <1>7
  <2> QED BY <1>6, <1>7, <2>1
<1>9. h = h0
  BY <1>6, <1>7, <1>8
<1> QED BY <1>3, <1>4, <1>9 DEF s0, x

(* The first of q. *)
First(q, b) == [k \in 1 .. b |-> q[k]]

(* The first b of q, and i of the others from the last on.                 *)
Back(q, m, b, i) == [k \in 1 .. b + i |-> IF k <= b THEN q[k] ELSE q[m + 1 - (k - b)]]

(* n objects are taken off. The one under them still has its next; for     *)
(* what is linked next, that is no matter.                                 *)
LEMMA TakenOffIs ==
    ASSUME NEW s, NEW q, NEW v, NEW whole, Piled(s, q, v, whole), NEW n \in 1 .. s.size
    PROVE  \E t :
             LET b == s.size - n
             IN /\ Linked(t, First(q, b), First(v, b), whole)
                /\ t.size = b /\ DOMAIN t.objs = DOMAIN s.objs
                /\ \A j \in 1 .. s.size : j > b =>
                     t.objs[q[j]].val = v[j] /\ t.objs[q[j]].prev = 0 /\ t.objs[q[j]].next = 0
                /\ \A o \in DOMAIN s.objs : C!Link(C!TakenOff(s, n), o) = C!Link(t, o)
<1> DEFINE m == s.size
           b == m - n
           D == DOMAIN s.objs
           x == q[b]
           T0 == C!TakenOff(s, n)
           taken == {C!Nth(s, i) : i \in 1 .. n}
           f == [o \in D |-> IF o \in taken THEN [val |-> s.objs[o].val, prev |-> 0, next |-> 0]
                             ELSE s.objs[o]]
           t == IF b = 0 THEN T0 ELSE [T0 EXCEPT !.objs[T0.top].next = 0]
           q2 == First(q, b)
           v2 == First(v, b)
<1>0. Linked(s, q, v, whole) /\ \A o \in D : \E j \in 1 .. m : q[j] = o
  BY DEF Piled
<1>1. /\ m \in Nat /\ IsStack(s) /\ IsFiniteSet(D) /\ D \subseteq Nat \ {0}
  BY <1>0, EndsAre
<1>2. /\ m # 0 /\ n \in Nat /\ b \in Nat /\ n \in 1 .. m /\ (b # 0 => b \in 1 .. m /\ 1 \in 1 .. m) /\ (b = 0 <=> n = m) /\ b < m
      /\ m \in 1 .. m
  BY <1>1
<1>3. s.top = q[m] /\ s.bottom = q[1]
  BY <1>0, <1>2, EndsAre
<1>b. /\ \A j, i \in 1 .. m : q[j] = q[i] => j = i
      /\ \A j \in 1 .. m :
           /\ q[j] \in D /\ q[j] \in Nat \ {0}
           /\ s.objs[q[j]].val = v[j]
           /\ s.objs[q[j]].prev = (IF j = 1 THEN 0 ELSE q[j - 1])
           /\ \/ s.objs[q[j]].next = (IF j = m THEN 0 ELSE q[j + 1])
              \/ ~whole /\ s.objs[q[j]].next = 0
  BY <1>0, Places
<1>4. ASSUME NEW i \in 1 .. m PROVE C!Nth(s, i) = q[m + 1 - i]
  BY <1>0, NthIs
<1>5. n # m => C!Nth(s, n + 1) = x
  <2>1. n # m => n + 1 \in 1 .. m /\ m + 1 - (n + 1) = b
    BY <1>1, <1>2
  <2> HIDE DEF b, m
  <2> QED BY <2>1, <1>4
<1>6. \A j \in 1 .. m : q[j] \in taken <=> j > b
  <2> SUFFICES ASSUME NEW j \in 1 .. m PROVE q[j] \in taken <=> j > b
    OBVIOUS
  <2>1. ASSUME j > b PROVE q[j] \in taken
    <3>1. m + 1 - j \in 1 .. n /\ m + 1 - j \in 1 .. m /\ m + 1 - (m + 1 - j) = j
      BY <1>1, <1>2, <2>1
    <3>2. C!Nth(s, m + 1 - j) = q[j]
      BY <3>1, <1>4
    <3> QED BY <3>1, <3>2
  <2>2. ASSUME q[j] \in taken PROVE j > b
    <3>1. PICK i \in 1 .. n : q[j] = C!Nth(s, i)
      BY <2>2
    <3>2. i \in 1 .. m /\ m + 1 - i \in 1 .. m /\ m + 1 - i > b
      BY <1>1, <1>2
    <3>3. q[j] = q[m + 1 - i]
      BY <3>1, <3>2, <1>4
    <3>4. j = m + 1 - i
      BY <3>2, <3>3, <1>b
    <3> QED BY <3>2, <3>4
  <2> QED BY <2>1, <2>2
<1> HIDE DEF taken
<1> HIDE DEF m, D, b
<1>e. /\ D = DOMAIN s.objs /\ s.objs = [o \in D |-> s.objs[o]]
      /\ \A o \in D : s.objs[o] = [val |-> s.objs[o].val, prev |-> s.objs[o].prev, next |-> s.objs[o].next]
      /\ s = [top |-> s.top, bottom |-> s.bottom, size |-> s.size, objs |-> s.objs]
  BY <1>1 DEF IsStack, D
<1>7. T0 = [top |-> IF b = 0 THEN 0 ELSE x, bottom |-> IF b = 0 THEN 0 ELSE s.bottom, size |-> b, objs |-> f]
  <2> DEFINE top == IF n = m THEN 0 ELSE C!Nth(s, n + 1)
             g == [o \in DOMAIN s.objs |-> IF o \in taken THEN [s.objs[o] EXCEPT !.prev = 0, !.next = 0] ELSE s.objs[o]]
  <2>1. T0 = [s EXCEPT !.top = top, !.size = @ - n, !.bottom = IF top = 0 THEN 0 ELSE @, !.objs = g]
    BY DEF C!TakenOff, taken, m
  <2>2. g = f
    <3>1. ASSUME NEW o \in D
          PROVE  [[s.objs[o] EXCEPT !.prev = 0] EXCEPT !.next = 0] = [val |-> s.objs[o].val, prev |-> 0, next |-> 0]
      <4> DEFINE r == [s.objs[o] EXCEPT !.prev = 0]
      <4>1. r = [val |-> s.objs[o].val, prev |-> 0, next |-> s.objs[o].next]
        <5>1. s.objs[o] = [val |-> s.objs[o].val, prev |-> s.objs[o].prev, next |-> s.objs[o].next]
          BY <1>e
        <5> HIDE DEF g, f, T0, t
        <5> QED BY <5>1
      <4> HIDE DEF r, g, f, T0, t
      <4>2. [r EXCEPT !.next = 0] = [val |-> s.objs[o].val, prev |-> 0, next |-> 0]
        BY ONLY <4>1
      <4> QED BY <4>2 DEF r
    <3> QED BY <3>1, <1>e
  <2>3. top = (IF b = 0 THEN 0 ELSE x) /\ (b # 0 => x # 0)
    BY <1>2, <1>5, <1>b
  <2> HIDE DEF g, f, T0, top, x
  <2>4. T0 = [top |-> top, bottom |-> IF top = 0 THEN 0 ELSE s.bottom, size |-> s.size - n, objs |-> g]
    BY <2>1, <1>e
  <2> QED BY <2>2, <2>3, <2>4 DEF b, m
<1>8. /\ f = [o \in D |-> f[o]] /\ DOMAIN f = D
      /\ \A o \in D :
           /\ f[o] = [val |-> f[o].val, prev |-> f[o].prev, next |-> f[o].next]
           /\ f[o].val = s.objs[o].val
           /\ f[o].prev = (IF o \in taken THEN 0 ELSE s.objs[o].prev)
           /\ f[o].next = (IF o \in taken THEN 0 ELSE s.objs[o].next)
  BY <1>e
<1> HIDE DEF f, T0
<1> DEFINE h == IF b = 0 THEN f ELSE [f EXCEPT ![x].next = 0]
<1>9. b # 0 => x \in D
  BY <1>2, <1>b
<1>10. /\ h = [o \in D |-> h[o]] /\ DOMAIN h = D
       /\ \A o \in D :
            /\ h[o] = [val |-> h[o].val, prev |-> h[o].prev, next |-> h[o].next]
            /\ h[o].val = f[o].val /\ h[o].prev = f[o].prev
            /\ h[o].next = (IF b # 0 /\ o = x THEN 0 ELSE f[o].next)
  <2>1. CASE b = 0
    BY <2>1, <1>8
  <2>2. CASE b # 0
    <3> DEFINE h1 == [f EXCEPT ![x].next = 0]
    <3> HIDE DEF x
    <3>1. /\ h1 = [o \in D |-> h1[o]]
          /\ \A o \in D :
               /\ h1[o] = [val |-> h1[o].val, prev |-> h1[o].prev, next |-> h1[o].next]
               /\ h1[o].val = f[o].val /\ h1[o].prev = f[o].prev
               /\ h1[o].next = (IF o = x THEN 0 ELSE f[o].next)
      BY <2>2, <1>8, <1>9, SetNext
    <3>2. h = h1
      BY <2>2
    <3> HIDE DEF h, h1
    <3> QED BY <2>2, <3>1, <3>2
  <2> QED BY <2>1, <2>2
<1>11. t = [top |-> IF b = 0 THEN 0 ELSE x, bottom |-> IF b = 0 THEN 0 ELSE s.bottom, size |-> b, objs |-> h]
  <2>1. CASE b = 0
    BY <2>1, <1>7
  <2>2. CASE b # 0
    <3> HIDE DEF x
    <3> QED BY <2>2, <1>7
  <2> QED BY <2>1, <2>2
<1> HIDE DEF h
<1>12. IsStack(T0) /\ IsStack(t)
  <2>1. IsFiniteSet(D) /\ D \subseteq Nat \ {0}
    BY <1>1 DEF D
  <2> HIDE DEF t, x
  <2> QED BY <2>1, <1>7, <1>8, <1>10, <1>11, StackOf
<1>13. \A o \in DOMAIN s.objs : C!Link(T0, o) = C!Link(t, o)
  <2>1. CASE b = 0
    BY <2>1
  <2>2. CASE b # 0
    <3>1. T0.bottom # 0 /\ T0.top \in DOMAIN T0.objs /\ DOMAIN T0.objs = DOMAIN s.objs
      BY <2>2, <1>2, <1>3, <1>7, <1>8, <1>9, <1>b, <1>e
    <3>2. t = [T0 EXCEPT !.objs[T0.top].next = 0]
      BY <2>2
    <3> HIDE DEF t
    <3> QED BY <3>1, <3>2, <1>12, LinkSets
  <2> QED BY <2>1, <2>2
<1>14. t.size = b /\ t.objs = h /\ DOMAIN t.objs = DOMAIN s.objs
       /\ t.top = (IF b = 0 THEN 0 ELSE x) /\ t.bottom = (IF b = 0 THEN 0 ELSE q[1])
  BY <1>3, <1>10, <1>11, <1>e
<1> HIDE DEF t
<1>15. \A j \in 1 .. m : j > b =>
          t.objs[q[j]].val = v[j] /\ t.objs[q[j]].prev = 0 /\ t.objs[q[j]].next = 0
  <2> SUFFICES ASSUME NEW j \in 1 .. m, j > b
               PROVE  h[q[j]].val = v[j] /\ h[q[j]].prev = 0 /\ h[q[j]].next = 0
    BY <1>14
  <2> HIDE DEF x
  <2>1. q[j] \in D /\ q[j] \in taken /\ s.objs[q[j]].val = v[j]
    BY <1>6, <1>b
  <2> QED BY <2>1, <1>8, <1>10
<1>16. Linked(t, q2, v2, whole)
  <2>1. q2 = [k \in 1 .. b |-> q2[k]] /\ v2 = [k \in 1 .. b |-> v2[k]]
        /\ \A k \in 1 .. b : q2[k] = q[k] /\ v2[k] = v[k] /\ k \in 1 .. m /\ ~ (k > b) /\ k # m
    BY <1>1, <1>2 DEF First, m
  <2> HIDE DEF q2, v2
  <2>2. /\ t.bottom = (IF b = 0 THEN 0 ELSE q2[1]) /\ t.top = (IF b = 0 THEN 0 ELSE q2[b])
    <3>1. b # 0 => 1 \in 1 .. b /\ b \in 1 .. b
      BY <1>2
    <3> QED BY <3>1, <2>1, <1>14
  <2>3. \A k \in 1 .. b : q2[k] \in DOMAIN t.objs
    BY <2>1, <1>14, <1>b, <1>e
  <2>4. ASSUME NEW j \in 1 .. b, NEW k \in 1 .. b, q2[j] = q2[k] PROVE j = k
    BY <2>1, <2>4, <1>b
  <2>5. ASSUME NEW k \in 1 .. b
        PROVE  /\ t.objs[q2[k]].val = v2[k]
               /\ t.objs[q2[k]].prev = (IF k = 1 THEN 0 ELSE q2[k - 1])
               /\ \/ t.objs[q2[k]].next = (IF k = b THEN 0 ELSE q2[k + 1])
                  \/ ~whole /\ t.objs[q2[k]].next = 0
    <3>1. /\ q2[k] = q[k] /\ v2[k] = v[k] /\ k \in 1 .. m /\ k # m /\ b # 0
          /\ k # 1 => q2[k - 1] = q[k - 1]
          /\ k # b => q2[k + 1] = q[k + 1]
      <4>1. (k # 1 => k - 1 \in 1 .. b) /\ (k # b => k + 1 \in 1 .. b) /\ b # 0
        BY <1>2
      <4> QED BY <4>1, <2>1
    <3>2. q[k] \in D /\ q[k] \notin taken /\ (q[k] = x <=> k = b)
      BY <2>1, <3>1, <1>2, <1>6, <1>b
    <3>3. /\ s.objs[q[k]].val = v[k]
          /\ s.objs[q[k]].prev = (IF k = 1 THEN 0 ELSE q[k - 1])
          /\ \/ s.objs[q[k]].next = q[k + 1]
             \/ ~whole /\ s.objs[q[k]].next = 0
      BY <3>1, <1>b
    <3> HIDE DEF x
    <3>4. h[q[k]].val = s.objs[q[k]].val /\ h[q[k]].prev = s.objs[q[k]].prev
          /\ h[q[k]].next = (IF k = b THEN 0 ELSE s.objs[q[k]].next)
      BY <3>1, <3>2, <1>8, <1>10
    <3> QED BY <3>1, <3>3, <3>4, <1>14
  <2>6. b \in Nat /\ t.size = b /\ IsStack(t)
    BY <1>2, <1>12, <1>14
  <2> QED BY ONLY <2>1, <2>2, <2>3, <2>4, <2>5, <2>6, LinkedIf
<1> QED BY <1>13, <1>14, <1>15, <1>16 DEF q2, v2, b, m, T0

(* The objects taken off come back one by one, from the last on.           *)
LEMMA ReverseIs ==
    ASSUME NEW s, NEW q, NEW v, NEW whole, Piled(s, q, v, whole), NEW n \in 2 .. s.size
    PROVE  LET b == s.size - n
           IN /\ Piled(C!ReverseTop(s, n), Back(q, s.size, b, n), Back(v, s.size, b, n), whole)
              /\ C!ReverseTop(s, n).size = s.size
<1> DEFINE m == s.size
           b == m - n
           D == DOMAIN s.objs
           T0 == C!TakenOff(s, n)
           F == Linking(s, T0, n)
<1>0. Linked(s, q, v, whole) /\ \A o \in D : \E j \in 1 .. m : q[j] = o
  BY DEF Piled
<1>1. m \in Nat
  BY <1>0, EndsAre
<1>2. /\ m # 0 /\ n \in Nat /\ b \in Nat /\ n \in 1 .. m /\ b + n = m /\ ~ (n <= 1)
  BY <1>1
<1>b. /\ \A j, i \in 1 .. m : q[j] = q[i] => j = i
      /\ \A j \in 1 .. m : q[j] \in D
  BY <1>0, Places
<1>3. ASSUME NEW i \in 1 .. n PROVE C!Nth(s, i) = q[m + 1 - i] /\ m + 1 - i \in 1 .. m
  <2>1. i \in 1 .. m /\ m + 1 - i \in 1 .. m
    BY <1>1, <1>2
  <2> HIDE DEF m
  <2> QED BY <2>1, <1>0, NthIs DEF m
<1>4. PICK t : /\ Linked(t, First(q, b), First(v, b), whole)
               /\ t.size = b /\ DOMAIN t.objs = D
               /\ \A j \in 1 .. m : j > b =>
                    t.objs[q[j]].val = v[j] /\ t.objs[q[j]].prev = 0 /\ t.objs[q[j]].next = 0
               /\ \A o \in D : C!Link(T0, o) = C!Link(t, o)
  BY <1>2, TakenOffIs
<1>5. C!ReverseTop(s, n) = F[n]
  BY <1>2 DEF C!ReverseTop, Linking
<1>7. DOMAIN F = 0 .. n /\ F[0] = T0 /\ \A i \in 1 .. n : F[i] = C!Link(F[i - 1], C!Nth(s, i))
  <2> HIDE DEF T0
  <2> QED BY <1>2, LinkingIs
<1> HIDE DEF F
<1> HIDE DEF T0
<1> DEFINE Good(r, i) ==
             /\ Linked(r, Back(q, m, b, i), Back(v, m, b, i), whole)
             /\ r.size = b + i /\ DOMAIN r.objs = D
             /\ \A j \in 1 .. m : j > b /\ m + 1 - j > i =>
                    r.objs[q[j]].val = v[j] /\ r.objs[q[j]].prev = 0 /\ r.objs[q[j]].next = 0
<1> HIDE DEF m, b, D
<1>8. ASSUME NEW r, NEW i \in 0 .. n, i < n, Good(r, i)
      PROVE  Good(C!Link(r, q[m - i]), i + 1)
  <2> DEFINE o == q[m - i]
             u == C!Link(r, o)
             Q == Back(q, m, b, i)
             V == Back(v, m, b, i)
  <2>1. /\ m - i \in 1 .. m /\ m - i > b /\ m + 1 - (m - i) > i /\ i \in Nat /\ b + i \in Nat /\ (b + i) + 1 = b + (i + 1)
    BY <1>1, <1>2, <1>8
  <2>2. o \in D /\ r.objs[o].val = v[m - i] /\ r.objs[o].prev = 0 /\ r.objs[o].next = 0 /\ r.size = b + i /\ DOMAIN r.objs = D
    BY <1>8, <1>b, <2>1
  <2>3. \A k \in 1 .. b + i : Q[k] = q[IF k <= b THEN k ELSE m + 1 - (k - b)]
    BY DEF Back
  <2>4. ASSUME NEW k \in 1 .. b + i, NEW j \in 1 .. m, j > b, m + 1 - j > i PROVE Q[k] # q[j]
    <3> DEFINE a == IF k <= b THEN k ELSE m + 1 - (k - b)
    <3>1. a \in 1 .. m /\ a # j
      BY <2>1, <2>4, <1>1, <1>2
    <3> HIDE DEF a
    <3>2. q[a] # q[j]
      BY <3>1, <1>b
    <3> QED BY <3>2, <2>3 DEF a
  <2> HIDE DEF o, u, Q, V
  <2>5. \A k \in 1 .. r.size : Q[k] # o
    BY <2>1, <2>2, <2>4 DEF o
  <2>6. Linked(r, Q, V, whole) /\ o \in DOMAIN r.objs
    BY <1>8, <2>2 DEF Q, V
  <2>7. /\ Linked(u, More(Q, r.size, o), More(V, r.size, r.objs[o].val), whole)
        /\ DOMAIN u.objs = DOMAIN r.objs /\ u.size = r.size + 1
        /\ \A j \in DOMAIN r.objs : j # o /\ (\A k \in 1 .. r.size : Q[k] # j) => u.objs[j] = r.objs[j]
    BY <2>2, <2>5, <2>6, LinkIs DEF u
  <2>8. More(Q, b + i, o) = Back(q, m, b, i + 1) /\ More(V, b + i, v[m - i]) = Back(v, m, b, i + 1)
    <3>1. ASSUME NEW k \in 1 .. (b + i) + 1
          PROVE  /\ (IF k = (b + i) + 1 THEN o ELSE Q[k]) = (IF k <= b THEN q[k] ELSE q[m + 1 - (k - b)])
                 /\ (IF k = (b + i) + 1 THEN v[m - i] ELSE V[k]) = (IF k <= b THEN v[k] ELSE v[m + 1 - (k - b)])
      <4>1. CASE k = (b + i) + 1
        <5>1. ~ (k <= b) /\ m + 1 - (k - b) = m - i
          BY <4>1, <2>1, <1>1, <1>2
        <5> QED BY <4>1, <5>1 DEF o
      <4>2. CASE k # (b + i) + 1
        <5>1. k \in 1 .. b + i
          BY <4>2, <2>1
        <5> QED BY <4>2, <5>1 DEF Q, V, Back
      <4> QED BY <4>1, <4>2
    <3>2. More(Q, b + i, o) = [k \in 1 .. (b + i) + 1 |-> IF k <= b THEN q[k] ELSE q[m + 1 - (k - b)]]
      BY <3>1 DEF More
    <3>3. More(V, b + i, v[m - i]) = [k \in 1 .. (b + i) + 1 |-> IF k <= b THEN v[k] ELSE v[m + 1 - (k - b)]]
      BY <3>1 DEF More
    <3> QED BY <2>1, <3>2, <3>3 DEF Back
  <2>9. ASSUME NEW j \in 1 .. m, j > b, m + 1 - j > i + 1
        PROVE  u.objs[q[j]].val = v[j] /\ u.objs[q[j]].prev = 0 /\ u.objs[q[j]].next = 0
    <3>1. m + 1 - j > i /\ j # m - i
      BY <2>1, <2>9, <1>1
    <3>2. q[j] # o /\ q[j] \in D
      BY <3>1, <2>1, <1>b DEF o
    <3>3. \A k \in 1 .. r.size : Q[k] # q[j]
      BY <2>2, <2>4, <2>9, <3>1
    <3>4. u.objs[q[j]] = r.objs[q[j]]
      BY <2>2, <2>7, <3>2, <3>3
    <3> QED BY <1>8, <2>9, <3>1, <3>4
  <2>10. Linked(u, Back(q, m, b, i + 1), Back(v, m, b, i + 1), whole) /\ u.size = b + (i + 1) /\ DOMAIN u.objs = D
    BY <2>1, <2>2, <2>7, <2>8
  <2> QED BY <2>9, <2>10 DEF u, o
<1>9. Good(t, 0)
  <2>1. Back(q, m, b, 0) = First(q, b) /\ Back(v, m, b, 0) = First(v, b)
    <3>1. b + 0 = b /\ \A k \in 1 .. b : k <= b
      BY <1>2
    <3> QED BY <3>1 DEF Back, First
  <2>2. b + 0 = b
    BY <1>2
  <2> QED BY <1>4, <2>1, <2>2
<1>10. ASSUME NEW i \in 1 .. n, i = 1 \/ Good(F[i - 1], i - 1) PROVE Good(F[i], i)
  <2>1. i - 1 \in 0 .. n /\ i - 1 < n /\ (i - 1) + 1 = i /\ i \in 0 .. n /\ i # 0 /\ m - (i - 1) = m + 1 - i /\ 0 \in 0 .. n
    BY <1>1, <1>2
  <2>2. F[i] = C!Link(F[i - 1], q[m + 1 - i]) /\ q[m + 1 - i] \in D
    <3>1. F[i] = C!Link(F[i - 1], C!Nth(s, i))
      BY <1>7, <2>1
    <3> HIDE DEF Good
    <3> QED BY <3>1, <1>3, <1>b
  <2>3. CASE i = 1
    <3>1. F[0] = T0
      BY <1>7, <2>1
    <3>2. F[i] = C!Link(t, q[m + 1 - i])
      BY <2>2, <2>3, <3>1, <1>4
    <3> HIDE DEF Good
    <3>3. Good(C!Link(t, q[m - 0]), 0 + 1)
      BY <1>8, <1>9, <2>1, <2>3
    <3>4. m - 0 = m + 1 - i /\ 0 + 1 = i
      BY <2>3, <1>1
    <3> QED BY <3>2, <3>3, <3>4
  <2>4. CASE i # 1
    <3> HIDE DEF Good
    <3>1. Good(C!Link(F[i - 1], q[m - (i - 1)]), (i - 1) + 1)
      BY <1>8, <1>10, <2>1, <2>4
    <3> QED BY <2>1, <2>2, <3>1
  <2> QED BY <2>3, <2>4
<1> HIDE DEF Good
<1>11. Good(F[n], n)
  <2> DEFINE bad == {i \in 1 .. n : ~ Good(F[i], i)}
  <2>1. SUFFICES ASSUME n \in bad PROVE FALSE
    BY <1>2
  <2>2. PICK i \in bad : \A j \in bad : i <= j
    <3>1. bad \in SUBSET Nat /\ bad # {}
      BY <2>1
    <3> HIDE DEF bad
    <3> QED BY <3>1, Least
  <2>3. i \in 1 .. n /\ ~ Good(F[i], i)
    BY <2>2
  <2>4. i # 1 => i - 1 \in 1 .. n /\ ~ (i <= i - 1)
    BY <2>3
  <2>5. i # 1 => Good(F[i - 1], i - 1)
    BY <2>2, <2>4
  <2> QED BY <2>3, <2>5, <1>10
<1>12. /\ Linked(F[n], Back(q, m, b, n), Back(v, m, b, n), whole) /\ F[n].size = m /\ DOMAIN F[n].objs = D
  BY <1>2, <1>11 DEF Good
<1>13. ASSUME NEW o \in DOMAIN F[n].objs PROVE \E k \in 1 .. F[n].size : Back(q, m, b, n)[k] = o
  <2>1. PICK j \in 1 .. m : q[j] = o
    BY <1>0, <1>12 DEF D, m
  <2> DEFINE k == IF j <= b THEN j ELSE m + 1 - j + b
  <2>2. k \in 1 .. m /\ (IF k <= b THEN k ELSE m + 1 - (k - b)) = j
    BY <1>1, <1>2
  <2> HIDE DEF k
  <2>3. Back(q, m, b, n)[k] = q[j]
    <3>1. Back(q, m, b, n)[k] = (IF k <= b THEN q[k] ELSE q[m + 1 - (k - b)])
      BY <2>2, <1>2 DEF Back
    <3> QED BY <2>2, <3>1
  <2> QED BY <2>1, <2>2, <2>3, <1>12
<1> QED BY <1>5, <1>12, <1>13 DEF Piled, b, m

(* Downwards, a walk meets the whole stack, upwards too if it is whole.    *)
LEMMA WalksAgree ==
    ASSUME NEW s, NEW q, NEW v, NEW whole, Piled(s, q, v, whole)
    PROVE  /\ Len(C!Downwards(s)) = s.size
           /\ whole => C!Upwards(s) = Reverse(C!Downwards(s))
<1> DEFINE m == s.size
           D == DOMAIN s.objs
           r == [k \in 1 .. m |-> q[m + 1 - k]]
<1>0. Linked(s, q, v, whole)
  BY DEF Piled
<1>1. m \in Nat /\ IsStack(s) /\ IsFiniteSet(D)
      /\ (m = 0 => s.top = 0 /\ s.bottom = 0)
      /\ (m # 0 => s.top = q[m] /\ s.bottom = q[1] /\ m \in 1 .. m /\ 1 \in 1 .. m)
  BY <1>0, EndsAre
<1>2. /\ \A j, i \in 1 .. m : q[j] = q[i] => j = i
      /\ \A j \in 1 .. m :
           /\ q[j] \in D
           /\ s.objs[q[j]].prev = (IF j = 1 THEN 0 ELSE q[j - 1])
           /\ \/ s.objs[q[j]].next = (IF j = m THEN 0 ELSE q[j + 1])
              \/ ~whole /\ s.objs[q[j]].next = 0
      /\ q = [k \in 1 .. m |-> q[k]]
  <2>1. q = [k \in 1 .. m |-> q[k]]
    BY <1>0 DEF Linked
  <2> QED BY <2>1, <1>0, Places, SMTT(30)
<1>3. m <= Cardinality(D)
  <2>1. q \in Injection(1 .. m, D)
    <3>1. q \in [1 .. m -> D]
      BY <1>2
    <3>2. IsInjective(q)
      BY <1>2 DEF IsInjective
    <3> QED BY <3>1, <3>2 DEF Injection
  <2>2. Cardinality(1 .. m) <= Cardinality(D)
    BY <2>1, <1>1, FS_Injection
  <2>3. Cardinality(1 .. m) = m
    <3>1. \A a, b \in Int : Cardinality(a .. b) = IF a > b THEN 0 ELSE b - a + 1
      BY FS_Interval
    <3>2. Cardinality(1 .. m) = IF 1 > m THEN 0 ELSE m - 1 + 1
      BY ONLY <3>1, <1>1
    <3> QED BY <1>1, <3>2
  <2> QED BY <2>2, <2>3
<1> HIDE DEF m
<1>4. C!Downwards(s) = r
  <2>0. m \in Nat
    BY <1>1
  <2>1. \A k \in 1 .. m : m + 1 - k \in 1 .. m /\ (k # m => k + 1 \in 1 .. m /\ m + 1 - (k + 1) = (m + 1 - k) - 1 /\ m + 1 - k # 1)
                         /\ (k = m => m + 1 - k = 1)
    BY <2>0
  <2>2. \A k \in 1 .. m : r[k] \in D /\ s.objs[r[k]].prev = (IF k = m THEN 0 ELSE r[k + 1])
    <3> SUFFICES ASSUME NEW k \in 1 .. m
                 PROVE  r[k] \in D /\ s.objs[r[k]].prev = (IF k = m THEN 0 ELSE r[k + 1])
      OBVIOUS
    <3>0. /\ m + 1 - k \in 1 .. m
          /\ k # m => k + 1 \in 1 .. m /\ m + 1 - (k + 1) = (m + 1 - k) - 1
      BY <2>1
    <3>1. r[k] = q[m + 1 - k]
      OBVIOUS
    <3>2. ASSUME k # m PROVE r[k + 1] = q[(m + 1 - k) - 1]
      <4>1. k + 1 \in 1 .. m /\ m + 1 - (k + 1) = (m + 1 - k) - 1
        BY <3>0, <3>2
      <4>2. r[k + 1] = q[m + 1 - (k + 1)]
        BY <4>1
      <4> HIDE DEF r
      <4> QED BY <4>1, <4>2
    <3> DEFINE i == m + 1 - k
    <3> HIDE DEF r
    <3>a. r[k] = q[i] /\ (k # m => r[k + 1] = q[i - 1])
      BY <3>1, <3>2
    <3>b. i \in 1 .. m /\ (i = 1 <=> k = m)
      BY <3>0, <1>1
    <3>3. i \in 1 .. m /\ (i = 1 <=> k = m) /\ r[k] = q[i] /\ (k # m => r[k + 1] = q[i - 1])
      BY <3>a, <3>b
    <3> HIDE DEF i
    <3>4. q[i] \in D /\ s.objs[q[i]].prev = (IF i = 1 THEN 0 ELSE q[i - 1])
      BY <3>3, <1>2
    <3> QED BY <3>3, <3>4, Zenon
  <2>3. r = [k \in 1 .. m |-> r[k]] /\ s.top = (IF m = 0 THEN 0 ELSE r[1])
    <3>1. m # 0 => r[1] = q[m]
      BY <1>1
    <3> QED BY <3>1, <1>1
  <2> HIDE DEF r
  <2>4. Chain(s, s.top, "prev", r, m)
    BY <2>2, <2>3 DEF Chain, D
  <2> QED BY <2>4, <1>1, <1>3, WalkIs DEF C!Downwards, D
<1>5. whole => C!Upwards(s) = q
  <2> SUFFICES ASSUME whole PROVE C!Upwards(s) = q
    OBVIOUS
  <2>1. \A k \in 1 .. m : q[k] \in D /\ s.objs[q[k]].next = (IF k = m THEN 0 ELSE q[k + 1])
    BY <1>2
  <2>2. q = [k \in 1 .. m |-> q[k]] /\ s.bottom = (IF m = 0 THEN 0 ELSE q[1])
    BY <1>1, <1>2
  <2>3. Chain(s, s.bottom, "next", q, m)
    BY <2>1, <2>2 DEF Chain, D
  <2> QED BY <2>3, <1>1, <1>3, WalkIs DEF C!Upwards, D
<1>6. Len(r) = m /\ Reverse(r) = q
  <2>1. r \in Seq(D)
    <3>1. \A k \in 1 .. m : m + 1 - k \in 1 .. m
      BY <1>1
    <3>2. r \in [1 .. m -> D]
      BY <3>1, <1>2
    <3> QED BY <3>2, <1>1 DEF Seq
  <2>2. DOMAIN r = 1 .. m
    OBVIOUS
  <2>3. Len(r) = m
    <3> HIDE DEF r
    <3> QED BY <2>1, <2>2, <1>1, LenProperties
  <2>4. \A i \in 1 .. m : r[(m - i) + 1] = q[i]
    <3> SUFFICES ASSUME NEW i \in 1 .. m PROVE r[(m - i) + 1] = q[i]
      OBVIOUS
    <3>1. (m - i) + 1 \in 1 .. m /\ m + 1 - ((m - i) + 1) = i
      BY <1>1
    <3> QED BY <3>1
  <2> HIDE DEF r
  <2> QED BY <2>3, <2>4, <1>2 DEF Reverse
<1> QED BY <1>4, <1>5, <1>6 DEF m
-----------------------------------------------------------------------------
(* The stack is made of objects that prev leads through and, for a careful *)
(* program, next as well.                                                  *)
StackSound == \E q, v : Piled(stack, q, v, careful)
FateSound == fate = "fault" => ~careful

(* What each operation leaves is a stack again, with both its directions   *)
(* where PICK was not used.                                                *)
LEMMA StackOpsKeep ==
    ASSUME NEW s, NEW whole, \E q, v : Piled(s, q, v, whole)
    PROVE  /\ \A x : \E q, v : Piled(C!Push(s, x), q, v, whole)
           /\ s.size # 0 => \E q, v : Piled(C!Pop(s), q, v, whole)
           /\ s.size # 0 => C!Pop(s).size = s.size - 1
           /\ s.size \in Nat
           /\ \A n \in 2 .. s.size :
                /\ C!NothingAbove(s, n) => ~whole
                /\ ~C!NothingAbove(s, n) => \E q, v : Piled(C!Pick(s, n), q, v, FALSE)
                /\ ~C!NothingAbove(s, n) => \E q, v : Piled(C!InsertCopy(s, n), q, v, whole)
           /\ \A n \in 0 .. s.size : \E q, v : Piled(C!ReverseTop(s, n), q, v, whole)
<1>0. PICK q, v : Piled(s, q, v, whole)
  OBVIOUS
<1>1. s.size \in Nat
  BY <1>0, EndsAre DEF Piled
<1>2. \A x : \E q1, v1 : Piled(C!Push(s, x), q1, v1, whole)
  BY <1>0, PushIs
<1>3. s.size # 0 => (\E q1, v1 : Piled(C!Pop(s), q1, v1, whole)) /\ C!Pop(s).size = s.size - 1
  BY <1>0, PopIs
<1>4. ASSUME NEW n \in 2 .. s.size
      PROVE  /\ C!NothingAbove(s, n) => ~whole
             /\ ~C!NothingAbove(s, n) => \E q1, v1 : Piled(C!Pick(s, n), q1, v1, FALSE)
             /\ ~C!NothingAbove(s, n) => \E q1, v1 : Piled(C!InsertCopy(s, n), q1, v1, whole)
  <2>1. ASSUME C!NothingAbove(s, n), whole PROVE FALSE
    <3> DEFINE k == s.size + 1 - n
    <3>1. k \in 1 .. s.size /\ k # s.size /\ k + 1 \in 1 .. s.size /\ n \in 1 .. s.size
      BY <1>1
    <3>2. C!Nth(s, n) = q[k]
      BY <3>1, <1>0, NthIs DEF Piled
    <3> HIDE DEF k
    <3>3. s.objs[q[k]].next = q[k + 1] /\ q[k + 1] # 0
      <4>1. \A j \in 1 .. s.size :
              /\ q[j] \in Nat \ {0}
              /\ \/ s.objs[q[j]].next = (IF j = s.size THEN 0 ELSE q[j + 1])
                 \/ ~whole /\ s.objs[q[j]].next = 0
        <5>1. Linked(s, q, v, whole)
          BY <1>0 DEF Piled
        <5> QED BY <5>1, Places
      <4> QED BY <2>1, <3>1, <4>1
    <3> QED BY <2>1, <3>2, <3>3 DEF C!NothingAbove
  <2>2. ASSUME ~C!NothingAbove(s, n) PROVE \E q1, v1 : Piled(C!Pick(s, n), q1, v1, FALSE)
    BY <2>2, <1>0, PickIs
  <2>3. ASSUME ~C!NothingAbove(s, n) PROVE \E q1, v1 : Piled(C!InsertCopy(s, n), q1, v1, whole)
    BY <2>3, <1>0, InsertCopyIs
  <2> QED BY <2>1, <2>2, <2>3
<1>5. ASSUME NEW n \in 0 .. s.size PROVE \E q1, v1 : Piled(C!ReverseTop(s, n), q1, v1, whole)
  <2>1. CASE n <= 1
    BY <2>1, <1>0 DEF C!ReverseTop
  <2>2. CASE ~ (n <= 1)
    <3>1. n \in 2 .. s.size
      BY <1>1, <2>2
    <3> QED BY <3>1, <1>0, ReverseIs
  <2> QED BY <2>1, <2>2
<1> QED BY <1>1, <1>2, <1>3, <1>4, <1>5

-----------------------------------------------------------------------------
(* Arithmetic: what traps.                                                 *)

(* Only the division of the least integer by -1 traps.                     *)
LEMMA OnlyDivisionTraps ==
    ASSUME NEW width, NEW op, NEW l, NEW r, NEW o \in S!BinaryOperate(width, op, l, r), o[1] = "fault"
    PROVE  /\ op \in {"DIV", "MOD"} /\ S!Type(l) = "int" /\ S!Type(r) = "int"
           /\ S!Val(l) = S!Least(width) /\ S!Val(r) = -1
<1>1. \A x : \A p \in S!Gives(x) : p[1] # "fault"
  BY DEF S!Gives
<1>2. \A p \in S!Refused : p[1] # "fault"
  BY DEF S!Refused
<1>3. ASSUME NEW p \in S!IntArithmetic(width, op, S!Val(l), S!Val(r)), p[1] = "fault"
      PROVE  op \in {"DIV", "MOD"} /\ S!Val(l) = S!Least(width) /\ S!Val(r) = -1
  BY <1>1, <1>2, <1>3 DEF S!IntArithmetic
<1>4. \A a, b, c : \A p \in S!Compare(a, b, c) : p[1] # "fault"
  BY <1>1 DEF S!Compare
<1>5. \A p \in S!IntCompare(op, l, r) : p[1] # "fault"
  BY <1>1, <1>2, <1>4 DEF S!IntCompare, S!Unequal
<1>6. \A p \in S!CharCompare(width, op, l, r) : p[1] # "fault"
  BY <1>1, <1>2, <1>4 DEF S!CharCompare
<1>7. \A p \in S!FloatCompare(op, l, r) : p[1] # "fault"
  BY <1>1, <1>2, <1>4 DEF S!FloatCompare, S!Unequal
<1>8. op \in {"ADD", "SUB", "MUL", "DIV"} => \A p \in S!FloatArithmetic(op, l, r) : p[1] # "fault"
  BY <1>1, <1>2 DEF S!FloatArithmetic
<1>9. \A p \in S!BoolLogical(op, l, r) : p[1] # "fault"
  BY <1>1, <1>2 DEF S!BoolLogical
<1>10. \A p \in S!StrAdd(l, r) : p[1] # "fault"
  BY <1>1, <1>2 DEF S!StrAdd
<1>11. \A p \in S!StrMul(l, r) : p[1] # "fault"
  BY <1>1, <1>2 DEF S!StrMul
<1>12. \A p \in S!SameValue(op, l, r) : p[1] # "fault"
  BY <1>1, <1>4 DEF S!SameValue, S!Unequal
<1>13. \A p \in S!SameType(op, l, r) : p[1] # "fault"
  BY <1>1 DEF S!SameType
<1>14. o \in S!IntArithmetic(width, op, S!Val(l), S!Val(r)) /\ S!Type(l) = "int" /\ S!Type(r) = "int"
  BY <1>2, <1>5, <1>6, <1>7, <1>8, <1>9, <1>10, <1>11, <1>12, <1>13 DEF S!BinaryOperate
<1> QED BY <1>3, <1>14

(* No other operation does.                                                *)
LEMMA OthersDoNotTrap ==
    /\ \A x : \A o \in S!Gives(x) : o[1] # "fault"
    /\ \A o \in S!Refused : o[1] # "fault"
    /\ \A width, op, x : \A o \in S!UnaryOperate(width, op, x) : o[1] # "fault"
    /\ \A width, x, t : \A o \in S!Convert(width, x, t) : o[1] # "fault"
<1>1. \A x : \A p \in S!Gives(x) : p[1] # "fault"
  BY DEF S!Gives
<1>2. \A p \in S!Refused : p[1] # "fault"
  BY DEF S!Refused
<1>3. ASSUME NEW width, NEW op, NEW x, NEW o \in S!UnaryOperate(width, op, x) PROVE o[1] # "fault"
  BY <1>1, <1>2 DEF S!UnaryOperate
<1>4. \A width, x : \A o \in S!StrToInt(width, x) : o[1] # "fault"
  BY <1>1, <1>2 DEF S!StrToInt
<1>5. ASSUME NEW width, NEW x, NEW t \in {"str", "int", "bool", "symbol"}, NEW o \in S!StrConvert(width, x, t) PROVE o[1] # "fault"
  BY <1>1, <1>4 DEF S!StrConvert
<1>6. ASSUME NEW width, NEW x, NEW t \in {"int", "str"}, NEW o \in S!CharConvert(width, x, t) PROVE o[1] # "fault"
  BY <1>1, <1>2 DEF S!CharConvert
<1>7. ASSUME NEW width, NEW x, NEW t, NEW o \in S!Convert(width, x, t) PROVE o[1] # "fault"
  BY <1>1, <1>2, <1>5, <1>6 DEF S!Convert
<1> QED BY <1>1, <1>2, <1>3, <1>7

-----------------------------------------------------------------------------
(* The instructions on the stack.                                          *)

(* What an instruction on the stack leaves sound.                          *)
Left(s) == \E q, v : Piled(s, q, v, careful)

(* An operation takes its operands away and pushes what it computed.       *)
LEMMA OperateKeeps ==
    ASSUME StackSound, NEW op, NEW n \in {1, 2}, NEW outcomes, Operate(op, n, outcomes)
    PROVE  /\ Left(stack')
           /\ ran'.op = op
           /\ fate' = "fault" => stack.size >= n /\ \E o \in outcomes : o[1] = "fault"
<1>1. stack.size \in Nat /\ Left(stack)
  BY StackOpsKeep DEF StackSound, Left
<1>2. ran'.op = op
  BY DEF Operate, Did
<1>3. CASE stack.size < n
  BY <1>1, <1>2, <1>3 DEF Operate, Ends
<1>4. CASE ~ (stack.size < n)
  <2>1. PICK o \in outcomes :
          IF o[1] = "ok" THEN /\ Bounded(o[2]) /\ Did(op, Tops(n), <<o[2]>>)
                              /\ Stack(C!Push(IF n = 1 THEN Under ELSE Under2, o[2]))
          ELSE Did(op, Tops(n), <<>>) /\ Ends(o[1])
    BY <1>4 DEF Operate
  <2>2. CASE o[1] = "ok"
    <3>1. stack' = C!Push(IF n = 1 THEN Under ELSE Under2, o[2]) /\ fate' = "running"
      BY <2>1, <2>2 DEF Stack
    <3>2. Left(Under) /\ Under.size = stack.size - 1
      <4>1. stack.size # 0
        BY <1>1, <1>4
      <4> QED BY <1>1, <4>1, StackOpsKeep DEF Under, Left
    <3>3. n = 2 => Left(Under2)
      <4>1. n = 2 => Under.size # 0
        BY <1>1, <1>4, <3>2
      <4> QED BY <3>2, <4>1, StackOpsKeep DEF Under2, Left
    <3>4. Left(C!Push(IF n = 1 THEN Under ELSE Under2, o[2]))
      <4>1. Left(IF n = 1 THEN Under ELSE Under2)
        BY <3>2, <3>3
      <4> QED BY <4>1, StackOpsKeep DEF Left
    <3> QED BY <1>2, <3>1, <3>4
  <2>3. CASE o[1] # "ok"
    <3>1. stack' = stack /\ fate' = o[1]
      BY <2>1, <2>3 DEF Ends
    <3> QED BY <1>1, <1>2, <1>4, <3>1
  <2> QED BY <2>2, <2>3
<1> QED BY <1>3, <1>4

(* A step leaves the stack sound, and only a careless one is undefined.    *)
LEMMA StackStepKeeps ==
    ASSUME StackSound, StackStep
    PROVE  StackSound' /\ FateSound'
<1>1. stack.size \in Nat /\ Left(stack)
  BY StackOpsKeep DEF StackSound, Left
<1>2. careful' = (careful /\ ~Dangerous)
  BY DEF StackStep
<1> SUFFICES /\ Left(stack') \/ (~careful' /\ \E q, v : Piled(stack', q, v, FALSE))
             /\ fate' = "fault" => ~careful'
  <2>1. CASE Left(stack')
    BY <1>2, <2>1, Weaker DEF Left, StackSound, FateSound
  <2>2. CASE ~careful' /\ \E q, v : Piled(stack', q, v, FALSE)
    BY <2>2, Weaker DEF StackSound, FateSound
  <2> QED BY <2>1, <2>2 DEF FateSound
<1>a. stack.size # 0 => Left(Under) /\ Under.size = stack.size - 1 /\ Under.size \in Nat
  BY <1>1, StackOpsKeep DEF Under, Left
<1>b. \A s, x : Left(s) => Left(C!Push(s, x))
  BY StackOpsKeep DEF Left
<1>3. ASSUME PUSH PROVE Left(stack') /\ fate' # "fault"
  BY <1>1, <1>b, <1>3 DEF PUSH, Stack
<1>4. ASSUME DUP PROVE Left(stack') /\ fate' # "fault"
  BY <1>1, <1>b, <1>4 DEF DUP, Stack, Ends
<1>5. ASSUME DROP PROVE Left(stack') /\ fate' # "fault"
  BY <1>1, <1>a, <1>5 DEF DROP, Stack, Ends, Under
<1>6. ASSUME SHUFFLE
      PROVE  /\ Left(stack') \/ (~careful' /\ \E q, v : Piled(stack', q, v, FALSE))
             /\ fate' = "fault" => ~careful'
  <2>1. PICK op \in Shuffles :
          /\ Did(op, <<>>, <<>>)
          /\ IF stack.size = 0 THEN Ends("fault")
             ELSE IF ~IsInt(At(1)) THEN Ends("error")
             ELSE LET n == S!Val(At(1))
                  IN IF n \in {0, 1} THEN Stack(Under)
                     ELSE IF n \notin 2..Under.size THEN Ends("error")
                     ELSE Moved(op, n)
    BY <1>6 DEF SHUFFLE
  <2>2. ran'.op = op
    BY <2>1 DEF Did
  <2>3. CASE stack.size = 0
    <3>1. Dangerous
      BY <2>2, <2>3 DEF Dangerous
    <3> QED BY <1>1, <1>2, <2>1, <2>3, <3>1 DEF Ends
  <2>4. CASE stack.size # 0 /\ ~IsInt(At(1))
    BY <1>1, <2>1, <2>4 DEF Ends
  <2>5. CASE stack.size # 0 /\ IsInt(At(1))
    <3> DEFINE n == S!Val(At(1))
    <3>1. IF n \in {0, 1} THEN Stack(Under)
          ELSE IF n \notin 2..Under.size THEN Ends("error")
          ELSE Moved(op, n)
      BY <2>1, <2>5
    <3>2. op = "PICK" /\ n \notin {0, 1} => Dangerous
      <4>1. At(1) = S!Integer(0) => n = 0
        BY DEF S!Integer, S!Val
      <4>2. At(1) = S!Integer(1) => n = 1
        BY DEF S!Integer, S!Val
      <4> HIDE DEF n
      <4>3. stack.size > 0
        BY <1>1, <2>5
      <4> QED BY <2>2, <4>1, <4>2, <4>3 DEF Dangerous
    <3> HIDE DEF n
    <3>3. CASE n \in {0, 1}
      BY <1>a, <2>5, <3>1, <3>3 DEF Stack
    <3>4. CASE n \notin {0, 1} /\ n \notin 2 .. Under.size
      BY <1>1, <3>1, <3>4 DEF Ends
    <3>5. CASE n \notin {0, 1} /\ n \in 2 .. Under.size
      <4>1. Moved(op, n)
        BY <3>1, <3>5
      <4>2. /\ C!NothingAbove(Under, n) => ~careful
            /\ ~C!NothingAbove(Under, n) => \E q, v : Piled(C!Pick(Under, n), q, v, FALSE)
            /\ ~C!NothingAbove(Under, n) => \E q, v : Piled(C!InsertCopy(Under, n), q, v, careful)
        BY <1>a, <2>5, <3>5, StackOpsKeep DEF Left
      <4>3. CASE op = "PICK" /\ C!NothingAbove(Under, n)
        <5>1. Ends("fault")
          BY <4>1, <4>3 DEF Moved
        <5> QED BY <1>1, <1>2, <4>2, <4>3, <5>1 DEF Ends
      <4>4. CASE op = "PICK" /\ ~C!NothingAbove(Under, n)
        <5>1. Stack(C!Pick(Under, n))
          BY <4>1, <4>4 DEF Moved
        <5> QED BY <1>2, <3>2, <3>5, <4>2, <4>4, <5>1 DEF Stack
      <4>5. CASE op = "PICKCP"
        <5>1. Stack(C!PickCopy(Under, n))
          BY <4>1, <4>5 DEF Moved
        <5> QED BY <1>a, <1>b, <2>5, <5>1 DEF Stack, C!PickCopy
      <4>6. CASE op = "INSERT"
        <5>1. Ends("error")
          BY <4>1, <4>6 DEF Moved
        <5> QED BY <1>1, <5>1 DEF Ends
      <4>7. CASE op = "INSERTCP" /\ C!NothingAbove(Under, n)
        <5>1. Ends("fault")
          BY <4>1, <4>7 DEF Moved
        <5> QED BY <1>1, <1>2, <4>2, <4>7, <5>1 DEF Ends
      <4>8. CASE op = "INSERTCP" /\ ~C!NothingAbove(Under, n)
        <5>1. Stack(C!InsertCopy(Under, n))
          BY <4>1, <4>8 DEF Moved
        <5> QED BY <4>2, <4>8, <5>1 DEF Stack, Left
      <4> QED BY <4>3, <4>4, <4>5, <4>6, <4>7, <4>8 DEF Shuffles
    <3> QED BY <3>3, <3>4, <3>5
  <2> QED BY <2>3, <2>4, <2>5
<1>7. ASSUME REVERSE PROVE Left(stack') /\ fate' # "fault"
  <2>1. PICK op \in {"REVERSE", "REVERSEP"} :
          IF stack.size = 0 \/ ~IsInt(At(1)) THEN Ends("error")
          ELSE LET n == S!Val(At(1))
               IN IF n \notin 0..Under.size THEN Ends("error")
                  ELSE IF op = "REVERSE" THEN Stack(C!ReverseTop(Under, n))
                  ELSE Stack(C!Push(C!ReverseTop(Under, n), At(1)))
    BY <1>7 DEF REVERSE
  <2>2. CASE stack.size = 0 \/ ~IsInt(At(1))
    BY <1>1, <2>1, <2>2 DEF Ends
  <2>3. CASE ~ (stack.size = 0 \/ ~IsInt(At(1)))
    <3> DEFINE n == S!Val(At(1))
    <3>1. IF n \notin 0..Under.size THEN Ends("error")
          ELSE IF op = "REVERSE" THEN Stack(C!ReverseTop(Under, n))
          ELSE Stack(C!Push(C!ReverseTop(Under, n), At(1)))
      BY <2>1, <2>3
    <3> HIDE DEF n
    <3>2. n \in 0 .. Under.size => Left(C!ReverseTop(Under, n))
      BY <1>a, <2>3, StackOpsKeep DEF Left
    <3> QED BY <1>1, <1>b, <3>1, <3>2 DEF Stack, Ends
  <2> QED BY <2>2, <2>3
<1>8. ASSUME BINARY PROVE Left(stack') /\ (fate' = "fault" => ~careful')
  <2>1. PICK op : Operate(op, 2, S!BinaryOperate(w, op, At(2), At(1)))
    BY <1>8 DEF BINARY
  <2>2. /\ Left(stack') /\ ran'.op = op
        /\ fate' = "fault" => stack.size >= 2 /\ \E o \in S!BinaryOperate(w, op, At(2), At(1)) : o[1] = "fault"
    BY <2>1, OperateKeeps
  <2>3. ASSUME fate' = "fault" PROVE Dangerous
    <3>1. /\ op \in {"DIV", "MOD"} /\ S!Type(At(2)) = "int" /\ S!Type(At(1)) = "int"
          /\ S!Val(At(2)) = S!Least(w) /\ S!Val(At(1)) = -1
      BY <2>2, <2>3, OnlyDivisionTraps
    <3> QED BY <2>2, <2>3, <3>1 DEF Dangerous, IsInt
  <2> QED BY <1>2, <2>2, <2>3
<1>9. ASSUME UNARY PROVE Left(stack') /\ fate' # "fault"
  BY <1>9, OperateKeeps, OthersDoNotTrap DEF UNARY
<1>10. ASSUME CONVERT PROVE Left(stack') /\ fate' # "fault"
  BY <1>10, OperateKeeps, OthersDoNotTrap DEF CONVERT
<1>11. ASSUME TYPE PROVE Left(stack') /\ fate' # "fault"
  BY <1>11, OperateKeeps, OthersDoNotTrap DEF TYPE
<1>12. ASSUME TYPEP PROVE Left(stack') /\ fate' # "fault"
  BY <1>12, OperateKeeps, OthersDoNotTrap DEF TYPEP
<1>13. ASSUME STRSIZE PROVE Left(stack') /\ fate' # "fault"
  <2>1. CASE S!Type(At(1)) = "str"
    <3>1. Operate("SIZE", 1, S!Gives(S!Integer(Len(S!Val(At(1))))))
      BY <1>13, <2>1 DEF STRSIZE
    <3> QED BY <3>1, OperateKeeps, OthersDoNotTrap
  <2>2. CASE S!Type(At(1)) # "str"
    <3>1. Operate("SIZE", 1, S!Refused)
      BY <1>13, <2>2 DEF STRSIZE
    <3> QED BY <3>1, OperateKeeps, OthersDoNotTrap
  <2> QED BY <2>1, <2>2
<1>14. ASSUME TYPEUP PROVE Left(stack') /\ fate' # "fault"
  <2>1. CASE stack.size < 2
    BY <1>1, <1>14, <2>1 DEF TYPEUP, Ends
  <2>2. CASE ~ (stack.size < 2)
    <3> DEFINE both == S!TypeUpgrade(At(2), At(1))
    <3>1. Stack(C!Push(C!Push(Under2, both[1]), both[2]))
      BY <1>14, <2>2 DEF TYPEUP
    <3>2. Left(Under2)
      <4>1. stack.size # 0 /\ (Under.size = stack.size - 1 => Under.size # 0)
        BY <1>1, <2>2
      <4>2. Left(Under) /\ Under.size # 0
        BY <1>a, <4>1
      <4> HIDE DEF both
      <4> QED BY <4>2, StackOpsKeep DEF Under2, Left
    <3> HIDE DEF both
    <3> QED BY <1>b, <3>1, <3>2 DEF Stack
  <2> QED BY <2>1, <2>2
<1>15. ASSUME JMP PROVE Left(stack') /\ fate' # "fault"
  <2>1. PICK op \in {"JMP", "JMPR", "JMPC", "JMPCR"} :
          \/ Ends("error")
          \/ /\ ~ (op \in Conditional /\ stack.size = 0)
             /\ Stack(IF op \in Conditional THEN C!Pop(stack) ELSE stack)
    BY <1>15 DEF JMP
  <2>2. op \in Conditional /\ stack.size # 0 => Left(C!Pop(stack))
    BY <1>a DEF Under
  <2> QED BY <1>1, <2>1, <2>2 DEF Stack, Ends
<1> QED BY <1>3, <1>4, <1>5, <1>6, <1>7, <1>8, <1>9, <1>10, <1>11, <1>12, <1>13, <1>14, <1>15 DEF StackStep

-----------------------------------------------------------------------------
(* Composite data: what is sound of every structure, and that a step that  *)
(* changes or makes one sound structure leaves the heap sound.             *)

(* What is sound of each kind of structure whose elements are of E. The    *)
(* hazards of a careless program are a list that was cut and a hash with a *)
(* freed key.                                                              *)
ListSound(l, E, whole) ==
    /\ l = [next |-> l.next, prev |-> l.prev, size |-> l.size]
    /\ l.next \in Seq(E) /\ l.size = Len(l.next) /\ l.size <= MaxLen
    /\ l.prev \in Seq(E \cup {Freed})
    /\ \A i \in 1 .. l.size : l.prev[i] = l.next[l.size + 1 - i]
    /\ \/ Len(l.prev) = l.size
       \/ Len(l.prev) = l.size + 1 /\ l.prev[l.size + 1] = Freed /\ ~whole
ArraySound(a, E) ==
    /\ a = [nodes |-> a.nodes, capacity |-> a.capacity, pos |-> a.pos, size |-> a.size]
    /\ a.pos \in Nat /\ a.size \in Nat /\ a.capacity \in Nat /\ a.pos + a.size <= a.capacity
    /\ a.nodes \in [0 .. (a.capacity - 1) -> E \cup {Freed, Null}]
    /\ \A i \in A!Live(a) : a.nodes[i] \in E
HashSound(h, E, whole) ==
    /\ h = [nodes |-> h.nodes, size |-> h.size]
    /\ h.nodes \in Seq([key : E \cup {Freed}, value : E])
    /\ h.size \in Nat /\ h.size >= Len(h.nodes)
    /\ \A i, j \in 1 .. Len(h.nodes) : i # j => ~ObjectsEq(h.nodes[i].key, h.nodes[j].key)
    /\ whole => \A i \in 1 .. Len(h.nodes) : h.nodes[i].key # Freed
DataSound(kind, data, E, whole) ==
    \/ kind = "list" /\ ListSound(data, E, whole)
    \/ kind = "array" /\ ArraySound(data, E)
    \/ kind = "hash" /\ HashSound(data, E, whole)
    \/ kind = "pair" /\ data \in [car : E, cdr : E]

HeapSound ==
    /\ \E T : heap \in Seq(T)
    /\ Len(heap) <= program.cells
    /\ \A r \in 1 .. Len(heap) :
         /\ heap[r] = [kind |-> heap[r].kind, data |-> heap[r].data]
         /\ DataSound(heap[r].kind, heap[r].data, Elements, careful)
StatusSound ==
    /\ status \in {"running", "error", "fault"} /\ careful \in BOOLEAN
    /\ status = "fault" => ~careful

(* More elements and fewer promises do no harm.                            *)
LEMMA SoundStays ==
    ASSUME NEW kind, NEW data, NEW E, NEW whole, DataSound(kind, data, E, whole),
           NEW E2, E \subseteq E2, NEW weak, weak => whole
    PROVE  DataSound(kind, data, E2, weak)
<1>1. CASE kind = "list" /\ ListSound(data, E, whole)
  <2>1. data.next \in Seq(E2) /\ data.prev \in Seq(E2 \cup {Freed})
    BY <1>1, SeqMonotonic DEF ListSound
  <2> QED BY <1>1, <2>1 DEF ListSound, DataSound
<1>2. CASE kind = "array" /\ ArraySound(data, E)
  <2>1. data.nodes \in [0 .. (data.capacity - 1) -> E2 \cup {Freed, Null}]
    BY <1>2 DEF ArraySound
  <2> QED BY <1>2, <2>1 DEF ArraySound, DataSound
<1>3. CASE kind = "hash" /\ HashSound(data, E, whole)
  <2>1. data.nodes \in Seq([key : E2 \cup {Freed}, value : E2])
    <3>1. [key : E \cup {Freed}, value : E] \subseteq [key : E2 \cup {Freed}, value : E2]
      OBVIOUS
    <3> QED BY <1>3, <3>1, SeqMonotonic DEF HashSound
  <2> QED BY <1>3, <2>1 DEF HashSound, DataSound
<1>4. CASE kind = "pair" /\ data \in [car : E, cdr : E]
  BY <1>4 DEF DataSound
<1> QED BY <1>1, <1>2, <1>3, <1>4 DEF DataSound

(* A handle leads to a structure.                                          *)
LEMMA HandleIs ==
    ASSUME HeapSound, NEW v \in Elements \cup Tuples, NEW kind, IsA(v, kind)
    PROVE  /\ v \in Elements /\ v[2] \in 1 .. Len(heap) /\ heap[v[2]].kind = kind
           /\ DataSound(kind, DataOf(v), Elements, careful)
<1>1. DOMAIN heap = 1 .. Len(heap)
  BY LenProperties DEF HeapSound
<1>2. v[1] = "ref" /\ heap[v[2]].kind = kind
  BY DEF IsA
<1>3. PICK r \in DOMAIN heap : v = Ref(r)
  <2>1. v \in Refs
    <3>1. CASE v \in Tuples
      <4>1. PICK s \in Sequences(Nums) : v = Tuple(s)
        BY <3>1 DEF Tuples
      <4>2. v[1] = "tuple"
        BY <4>1 DEF Tuple
      <4> QED BY <1>2, <4>2
    <3>2. CASE v \in Nums
      <4>1. PICK n \in program.numbers : v = Num(n)
        BY <3>2 DEF Nums
      <4>2. v[1] = "num"
        BY <4>1 DEF Num
      <4> QED BY <1>2, <4>2
    <3>3. CASE v \in Ids
      <4>1. PICK x \in program.names : v = Id(x)
        BY <3>3 DEF Ids
      <4>2. v[1] = "id"
        BY <4>1 DEF Id
      <4> QED BY <1>2, <4>2
    <3> QED BY <3>1, <3>2, <3>3 DEF Elements, Values
  <2> QED BY <2>1 DEF Refs
<1>4. v[2] = r
  BY <1>3 DEF Ref
<1>5. v \in Elements
  BY <1>3 DEF Elements, Values, Refs
<1> QED BY <1>1, <1>2, <1>4, <1>5 DEF HeapSound, DataOf

(* One structure is changed.                                               *)
LEMMA ChangeKeeps ==
    ASSUME HeapSound, NEW v \in Elements \cup Tuples, NEW kind, IsA(v, kind), NEW data, NEW pushed,
           Change(v, data, pushed), DataSound(kind, data, Elements, careful'),
           careful' => careful, program' = program
    PROVE  HeapSound' /\ status' = "running"
<1> DEFINE r == v[2]
           new == [kind |-> kind, data |-> data]
<1>1. PICK T : heap \in Seq(T)
  BY DEF HeapSound
<1>2. r \in 1 .. Len(heap) /\ heap[r].kind = kind /\ heap[r] = [kind |-> heap[r].kind, data |-> heap[r].data]
  BY HandleIs DEF HeapSound
<1>3. heap' = [heap EXCEPT ![r] = new]
  <2>1. heap' = [heap EXCEPT ![r].data = data]
    BY DEF Change
  <2>2. heap' = [heap EXCEPT ![r] = [@ EXCEPT !.data = data]]
    BY <2>1
  <2>3. [heap[r] EXCEPT !.data = data] = new
    <3> HIDE DEF r
    <3>1. heap[r] = [kind |-> kind, data |-> heap[r].data]
      BY <1>2
    <3> QED BY <3>1
  <2> HIDE DEF r, new
  <2> QED BY <2>2, <2>3
<1> HIDE DEF r, new
<1>4. /\ heap' \in Seq(T \cup {new}) /\ Len(heap') = Len(heap)
      /\ \A j \in 1 .. Len(heap) : heap'[j] = IF j = r THEN new ELSE heap[j]
  <2>1. heap \in Seq(T \cup {new})
    BY <1>1, SeqMonotonic
  <2> QED BY <1>2, <1>3, <2>1, ExceptSeq
<1>5. Elements' = Elements
  <2>1. DOMAIN heap' = DOMAIN heap
    BY <1>3
  <2> QED BY <2>1 DEF Elements, Values, Ids, Nums, Refs
<1>6. ASSUME NEW j \in 1 .. Len(heap')
      PROVE  /\ heap'[j] = [kind |-> heap'[j].kind, data |-> heap'[j].data]
             /\ DataSound(heap'[j].kind, heap'[j].data, Elements', careful')
  <2>1. CASE j = r
    <3>1. heap'[j].kind = kind /\ heap'[j].data = data /\ heap'[j] = [kind |-> kind, data |-> data]
      BY <1>2, <1>4, <2>1 DEF new
    <3> QED BY <3>1, <1>5
  <2>2. CASE j # r
    <3>1. heap'[j] = heap[j] /\ j \in 1 .. Len(heap)
      BY <1>4, <2>2
    <3>2. /\ heap[j] = [kind |-> heap[j].kind, data |-> heap[j].data]
          /\ DataSound(heap[j].kind, heap[j].data, Elements, careful)
      BY <3>1 DEF HeapSound
    <3>3. DataSound(heap[j].kind, heap[j].data, Elements, careful')
      BY <3>2, SoundStays
    <3> QED BY <3>1, <3>2, <3>3, <1>5
  <2> QED BY <2>1, <2>2
<1>7. Len(heap') <= program'.cells
  BY <1>4 DEF HeapSound
<1> QED BY <1>4, <1>6, <1>7 DEF HeapSound, Change

(* A structure is made.                                                    *)
LEMMA CreateKeeps ==
    ASSUME HeapSound, NEW kind, NEW data, Create(kind, data), DataSound(kind, data, Elements, careful'),
           careful' => careful, program' = program, program.cells \in Nat
    PROVE  HeapSound' /\ status' = "running"
<1> DEFINE new == [kind |-> kind, data |-> data]
<1>1. PICK T : heap \in Seq(T)
  BY DEF HeapSound
<1>2. heap' = Append(heap, new) /\ Len(heap) < program.cells
  BY DEF Create
<1> HIDE DEF new
<1>4. /\ heap' \in Seq(T \cup {new}) /\ Len(heap') = Len(heap) + 1 /\ Len(heap) \in Nat
      /\ \A j \in 1 .. Len(heap') : heap'[j] = IF j = Len(heap) + 1 THEN new ELSE heap[j]
      /\ DOMAIN heap = 1 .. Len(heap) /\ DOMAIN heap' = 1 .. Len(heap')
  <2>1. heap \in Seq(T \cup {new})
    BY <1>1, SeqMonotonic
  <2> QED BY <1>2, <2>1
<1>5. Elements \subseteq Elements'
  <2>1. DOMAIN heap \subseteq DOMAIN heap'
    BY <1>4
  <2> QED BY <2>1 DEF Elements, Values, Ids, Nums, Refs
<1>6. ASSUME NEW j \in 1 .. Len(heap')
      PROVE  /\ heap'[j] = [kind |-> heap'[j].kind, data |-> heap'[j].data]
             /\ DataSound(heap'[j].kind, heap'[j].data, Elements', careful')
  <2>1. CASE j = Len(heap) + 1
    <3>1. heap'[j].kind = kind /\ heap'[j].data = data /\ heap'[j] = [kind |-> kind, data |-> data]
      BY <1>4, <2>1 DEF new
    <3>2. DataSound(kind, data, Elements', careful')
      BY <1>5, SoundStays
    <3> QED BY <3>1, <3>2
  <2>2. CASE j # Len(heap) + 1
    <3>1. heap'[j] = heap[j] /\ j \in 1 .. Len(heap)
      BY <1>4, <2>2
    <3>2. /\ heap[j] = [kind |-> heap[j].kind, data |-> heap[j].data]
          /\ DataSound(heap[j].kind, heap[j].data, Elements, careful)
      BY <3>1 DEF HeapSound
    <3>3. DataSound(heap[j].kind, heap[j].data, Elements', careful')
      BY <1>5, <3>2, SoundStays
    <3> QED BY <3>1, <3>2, <3>3
  <2> QED BY <2>1, <2>2
<1>7. Len(heap') <= program'.cells
  BY <1>2, <1>4
<1> QED BY <1>4, <1>6, <1>7 DEF HeapSound, Create

(* Or nothing is changed.                                                  *)
LEMMA UnchangedKeeps ==
    ASSUME HeapSound, heap' = heap, careful' => careful, program' = program
    PROVE  HeapSound'
<1>1. Elements' = Elements
  BY DEF Elements, Values, Ids, Nums, Refs
<1>2. ASSUME NEW j \in 1 .. Len(heap)
      PROVE  /\ heap[j] = [kind |-> heap[j].kind, data |-> heap[j].data]
             /\ DataSound(heap[j].kind, heap[j].data, Elements, careful')
  <2>1. /\ heap[j] = [kind |-> heap[j].kind, data |-> heap[j].data]
        /\ DataSound(heap[j].kind, heap[j].data, Elements, careful)
    BY DEF HeapSound
  <2> QED BY <2>1, SoundStays
<1> QED BY <1>1, <1>2 DEF HeapSound

(* An interval from 1 on has one end.                                      *)
LEMMA SameEnd ==
    ASSUME NEW a \in Nat, NEW b \in Nat, 1 .. a = 1 .. b
    PROVE  a = b
<1>1. ASSUME NEW x \in Nat, NEW y \in Nat, 1 .. x = 1 .. y PROVE x <= y
  <2>1. CASE x = 0
    BY <2>1
  <2>2. CASE x # 0
    <3>1. x \in 1 .. x
      BY <2>2
    <3>2. x \in 1 .. y
      BY <1>1, <3>1
    <3> QED BY <3>2
  <2> QED BY <2>1, <2>2
<1>2. a <= b /\ b <= a
  BY <1>1
<1> QED BY <1>2

(* A bounded sequence is a sequence.                                       *)
LEMMA BoundedIs ==
    ASSUME NEW E, NEW s \in Sequences(E)
    PROVE  s \in Seq(E) /\ Len(s) \in Nat /\ Len(s) <= MaxLen
<1>1. PICK m \in 0 .. MaxLen : s \in [1 .. m -> E]
  BY DEF Sequences, BoundedSeq, SeqOf
<1>2. s \in Seq(E)
  BY <1>1, DataAssumption DEF Seq
<1>3. Len(s) \in Nat /\ DOMAIN s = 1 .. Len(s)
  BY <1>2, LenProperties
<1>4. m \in Nat /\ m <= MaxLen
  BY DataAssumption
<1>5. 1 .. m = 1 .. Len(s)
  BY <1>1, <1>3
<1>6. m = Len(s)
  BY <1>3, <1>4, <1>5, SameEnd, Zenon
<1> QED BY <1>2, <1>3, <1>4, <1>6

(* A sequence is what it says at every place.                              *)
LEMMA MadeSeq ==
    ASSUME NEW E, NEW n \in Nat, NEW f, f = [i \in 1 .. n |-> f[i]], \A i \in 1 .. n : f[i] \in E
    PROVE  f \in Seq(E) /\ Len(f) = n
<1>1. f \in [1 .. n -> E]
  OBVIOUS
<1>2. f \in Seq(E)
  BY <1>1 DEF Seq
<1>3. DOMAIN f = 1 .. n
  BY <1>1
<1>4. Len(f) \in Nat /\ DOMAIN f = 1 .. Len(f)
  BY <1>2, LenProperties
<1> QED BY <1>2, <1>3, <1>4

(* A list made of a sequence reads the same both ways. Here the recursion  *)
(* is unrolled.                                                            *)
LEMMA MakeIs ==
    ASSUME NEW E, NEW s \in Seq(E)
    PROVE  LET n == Len(s)
           IN L!Make(s) = [next |-> s, prev |-> [i \in 1 .. n |-> s[n + 1 - i]], size |-> n]
<1> DEFINE n == Len(s)
           Fst(k) == [i \in 1 .. k |-> s[i]]
           Rev(k) == [i \in 1 .. k |-> s[k + 1 - i]]
           Step(f, k) == IF k = 0 THEN L!Empty ELSE L!AppendTail(f[k - 1], s[k])
           F == CHOOSE f : f = [k \in 0 .. n |-> IF k = 0 THEN L!Empty ELSE L!AppendTail(f[k - 1], s[k])]
           g == [k \in 0 .. n |-> [next |-> Fst(k), prev |-> Rev(k), size |-> k]]
<1>0. n \in Nat /\ DOMAIN s = 1 .. n /\ \A i \in 1 .. n : s[i] \in E
  BY LenProperties, ElementOfSeq
<1>00. s = [i \in 1 .. n |-> s[i]]
  <2>1. s \in [1 .. n -> E]
    BY LenProperties
  <2> QED BY <2>1
<1> HIDE DEF n
<1>1. ASSUME NEW k \in 0 .. n
      PROVE  Fst(k) \in Seq(E) /\ Len(Fst(k)) = k /\ Rev(k) \in Seq(E) /\ Len(Rev(k)) = k
             /\ (\A i \in 1 .. k : Fst(k)[i] = s[i] /\ Rev(k)[i] = s[k + 1 - i])
  <2>1. k \in Nat /\ \A i \in 1 .. k : i \in 1 .. n /\ k + 1 - i \in 1 .. n
    BY <1>0
  <2>2. Fst(k) = [i \in 1 .. k |-> Fst(k)[i]] /\ \A i \in 1 .. k : Fst(k)[i] \in E /\ Fst(k)[i] = s[i]
    BY <2>1, <1>0
  <2>3. Rev(k) = [i \in 1 .. k |-> Rev(k)[i]] /\ \A i \in 1 .. k : Rev(k)[i] \in E /\ Rev(k)[i] = s[k + 1 - i]
    BY <2>1, <1>0
  <2> HIDE DEF Fst, Rev
  <2> QED BY <2>1, <2>2, <2>3, MadeSeq
<1> HIDE DEF Fst, Rev
<1>2. ASSUME NEW k \in 1 .. n
      PROVE  L!AppendTail([next |-> Fst(k - 1), prev |-> Rev(k - 1), size |-> k - 1], s[k])
             = [next |-> Fst(k), prev |-> Rev(k), size |-> k]
  <2>1. k - 1 \in 0 .. n /\ k \in 0 .. n /\ s[k] \in E /\ k - 1 \in Nat /\ (k - 1) + 1 = k
    BY <1>0
  <2>2. CASE k = 1
    <3>1. Fst(0) = <<>>
      BY DEF Fst
    <3>2. Fst(1) = <<s[1]>> /\ Rev(1) = <<s[1]>>
      <4> DEFINE u == <<s[1]>>
      <4>1. Len(u) = 1 /\ u \in Seq(E) /\ u[1] = s[1]
        BY <2>1, <2>2
      <4> HIDE DEF u
      <4>2. 1 \in 0 .. n /\ 1 + 1 - 1 = 1 /\ 1 \in 1 .. 1
        BY <2>1, <2>2
      <4>3. \A i \in 1 .. 1 : i = 1
        OBVIOUS
      <4>4. Fst(1) \in Seq(E) /\ Len(Fst(1)) = 1 /\ Fst(1)[1] = s[1]
        BY <1>1, <4>2
      <4>5. Rev(1) \in Seq(E) /\ Len(Rev(1)) = 1 /\ Rev(1)[1] = s[1 + 1 - 1]
        BY <1>1, <4>2
      <4>6. Fst(1) = u
        BY <4>1, <4>3, <4>4, SeqEqual
      <4>7. Rev(1) = u
        BY <4>1, <4>2, <4>3, <4>5, SeqEqual
      <4> QED BY <4>6, <4>7 DEF u
    <3>3. k - 1 = 0 /\ 0 + 1 = 1
      BY <2>2
    <3> QED BY <2>2, <3>1, <3>2, <3>3 DEF L!AppendTail
  <2>3. CASE k # 1
    <3>1. Fst(k - 1) # <<>>
      <4>1. Len(Fst(k - 1)) = k - 1 /\ k - 1 # 0
        BY <1>1, <2>1, <2>3
      <4> QED BY <4>1
    <3>2. Append(Fst(k - 1), s[k]) = Fst(k)
      <4>1. Fst(k - 1) \in Seq(E) /\ Len(Fst(k - 1)) = k - 1 /\ Fst(k) \in Seq(E) /\ Len(Fst(k)) = k
            /\ (\A i \in 1 .. k - 1 : Fst(k - 1)[i] = s[i]) /\ (\A i \in 1 .. k : Fst(k)[i] = s[i])
        BY <1>1, <2>1
      <4> DEFINE t == Append(Fst(k - 1), s[k])
      <4>2. t \in Seq(E) /\ Len(t) = k /\ \A i \in 1 .. k : t[i] = s[i]
        BY <2>1, <4>1
      <4> HIDE DEF t
      <4>3. t = Fst(k)
        BY <4>1, <4>2, SeqEqual
      <4> QED BY <4>3 DEF t
    <3>3. <<s[k]>> \o Rev(k - 1) = Rev(k)
      <4>1. Rev(k - 1) \in Seq(E) /\ Len(Rev(k - 1)) = k - 1 /\ Rev(k) \in Seq(E) /\ Len(Rev(k)) = k
            /\ (\A i \in 1 .. k - 1 : Rev(k - 1)[i] = s[(k - 1) + 1 - i]) /\ (\A i \in 1 .. k : Rev(k)[i] = s[k + 1 - i])
        BY <1>1, <2>1
      <4> DEFINE u == <<s[k]>>
                 t == u \o Rev(k - 1)
      <4>2. u \in Seq(E) /\ Len(u) = 1 /\ u[1] = s[k]
        BY <2>1
      <4> HIDE DEF u
      <4>x. Rev(k - 1) \in Seq(E) /\ u \in Seq(E)
        BY <4>1, <4>2
      <4>y. /\ t \in Seq(E) /\ Len(t) = Len(u) + Len(Rev(k - 1))
            /\ \A i \in 1 .. Len(u) + Len(Rev(k - 1)) : t[i] = IF i <= Len(u) THEN u[i] ELSE Rev(k - 1)[i - Len(u)]
        BY <4>x, ConcatProperties
      <4>3. t \in Seq(E) /\ Len(t) = 1 + (k - 1) /\ \A i \in 1 .. 1 + (k - 1) : t[i] = IF i <= 1 THEN u[i] ELSE Rev(k - 1)[i - 1]
        BY <4>1, <4>2, <4>y
      <4> HIDE DEF t
      <4>4. 1 + (k - 1) = k
        BY <2>1
      <4>5. ASSUME NEW i \in 1 .. k PROVE t[i] = Rev(k)[i]
        <5>1. CASE i = 1
          <6>1. t[1] = u[1] /\ Rev(k)[1] = s[k + 1 - 1] /\ k + 1 - 1 = k
            BY <4>1, <4>3, <4>4, <5>1
          <6> QED BY <4>2, <5>1, <6>1
        <5>2. CASE i # 1
          <6>1. i - 1 \in 1 .. k - 1 /\ ~ (i <= 1) /\ (k - 1) + 1 - (i - 1) = k + 1 - i
            BY <5>2
          <6> QED BY <4>1, <4>3, <4>4, <6>1
        <5> QED BY <5>1, <5>2
      <4>6. t = Rev(k)
        BY <4>1, <4>3, <4>4, <4>5, SeqEqual
      <4> QED BY <4>6 DEF t, u
    <3> QED BY <2>1, <3>1, <3>2, <3>3 DEF L!AppendTail
  <2> QED BY <2>2, <2>3
<1>3. ASSUME NEW k \in 0 .. n PROVE g[k] = Step(g, k)
  <2>1. CASE k = 0
    <3>1. Fst(0) = <<>> /\ Rev(0) = <<>>
      BY DEF Fst, Rev
    <3> QED BY <2>1, <3>1 DEF L!Empty
  <2>2. CASE k # 0
    <3>1. k \in 1 .. n /\ k - 1 \in 0 .. n
      BY <1>0, <2>2
    <3>2. g[k] = [next |-> Fst(k), prev |-> Rev(k), size |-> k]
          /\ g[k - 1] = [next |-> Fst(k - 1), prev |-> Rev(k - 1), size |-> k - 1]
      BY <3>1
    <3> HIDE DEF g
    <3>3. g[k] = L!AppendTail(g[k - 1], s[k])
      BY <1>2, <3>1, <3>2
    <3> QED BY <2>2, <3>3
  <2> QED BY <2>1, <2>2
<1>4. g = [k \in 0 .. n |-> Step(g, k)]
  <2>1. g = [k \in 0 .. n |-> g[k]]
    OBVIOUS
  <2> HIDE DEF g, Step
  <2> QED BY <1>3, <2>1
<1>5. F = [k \in 0 .. n |-> Step(F, k)]
  <2> HIDE DEF g
  <2>1. \E f : f = [k \in 0 .. n |-> Step(f, k)]
    BY <1>4
  <2> QED BY <2>1, Zenon
<1>6. L!Make(s) = F[n]
  BY DEF L!Make, n
<1>7. \A k \in 0 .. n : F[k] = Step(F, k)
  <2> HIDE DEF F, Step
  <2> QED BY <1>5
<1> HIDE DEF F
<1>8. ASSUME NEW x \in 0 .. n, F[x] # g[x] PROVE FALSE
  <2> DEFINE bad == {k \in 0 .. n : F[k] # g[k]}
  <2> HIDE DEF g
  <2>0. x \in bad /\ bad \in SUBSET Nat
    BY <1>8
  <2>1. PICK k \in bad : \A j \in bad : k <= j
    BY <2>0, Least
  <2>2. k \in 0 .. n /\ F[k] = Step(F, k) /\ g[k] = Step(g, k) /\ F[k] # g[k]
    BY <1>3, <1>7, <2>1
  <2>3. k # 0
    BY <2>2
  <2>4. k - 1 \in 0 .. n /\ ~ (k <= k - 1)
    BY <1>0, <2>2, <2>3
  <2>5. F[k - 1] = g[k - 1]
    BY <2>1, <2>4
  <2> QED BY <2>2, <2>3, <2>5
<1>9. g[n] = [next |-> Fst(n), prev |-> Rev(n), size |-> n] /\ F[n] = g[n]
  <2>1. n \in 0 .. n
    BY <1>0
  <2>2. g[n] = [next |-> Fst(n), prev |-> Rev(n), size |-> n]
    BY <2>1
  <2> HIDE DEF g
  <2> QED BY <1>8, <2>1, <2>2
<1> HIDE DEF g
<1> QED BY <1>00, <1>6, <1>9 DEF Fst, Rev, n

-----------------------------------------------------------------------------
(* Lists.                                                                  *)

(* A list made up of sound parts is sound.                                 *)
LEMMA ListIs ==
    ASSUME NEW E, NEW next \in Seq(E), NEW prev \in Seq(E \cup {Freed}), NEW size, NEW whole,
           size = Len(next), size <= MaxLen, \A i \in 1 .. size : prev[i] = next[size + 1 - i],
           \/ Len(prev) = size
           \/ Len(prev) = size + 1 /\ prev[size + 1] = Freed /\ ~whole
    PROVE  ListSound([next |-> next, prev |-> prev, size |-> size], E, whole)
<1> DEFINE l == [next |-> next, prev |-> prev, size |-> size]
<1>1. l.next = next /\ l.prev = prev /\ l.size = size /\ l = [next |-> next, prev |-> prev, size |-> size]
  OBVIOUS
<1> HIDE DEF l
<1>2. ListSound(l, E, whole)
  BY <1>1 DEF ListSound
<1> QED BY <1>2 DEF l

(* LSTMK makes a sound list.                                               *)
LEMMA ListMade ==
    ASSUME NEW E, NEW s \in Sequences(E), NEW whole
    PROVE  ListSound(L!Make(s), E, whole)
<1> DEFINE n == Len(s)
           rev == [i \in 1 .. n |-> s[n + 1 - i]]
<1>1. s \in Seq(E) /\ n \in Nat /\ n <= MaxLen
  BY BoundedIs
<1>2. L!Make(s) = [next |-> s, prev |-> rev, size |-> n]
  BY <1>1, MakeIs
<1>3. rev = [i \in 1 .. n |-> rev[i]] /\ \A i \in 1 .. n : rev[i] = s[n + 1 - i] /\ rev[i] \in E \cup {Freed}
  <2>1. ASSUME NEW i \in 1 .. n PROVE n + 1 - i \in 1 .. n /\ s[n + 1 - i] \in E
    <3>1. n + 1 - i \in 1 .. Len(s)
      BY <1>1
    <3> QED BY <1>1, <3>1, ElementOfSeq
  <2> HIDE DEF n
  <2> QED BY <2>1
<1> HIDE DEF rev
<1>4. rev \in Seq(E \cup {Freed}) /\ Len(rev) = n
  BY <1>1, <1>3, MadeSeq
<1> HIDE DEF n
<1>5. n = Len(s)
  BY DEF n
<1> QED BY <1>1, <1>2, <1>3, <1>4, <1>5, ListIs

(* A list that grows at an end stays sound, where its prev leads to a freed*)
(* node as well.                                                           *)
LEMMA ListAppends ==
    ASSUME NEW E, NEW l, NEW whole, ListSound(l, E, whole), NEW e \in E, l.size < MaxLen
    PROVE  /\ ListSound(L!AppendTail(l, e), E, whole)
           /\ ListSound(L!AppendHead(l, e), E, whole)
<1> DEFINE n == Len(l.next)
           nx == l.next
           pv == l.prev
           one == <<e>>
<1>1. /\ nx \in Seq(E) /\ pv \in Seq(E \cup {Freed}) /\ l.size = n /\ n \in Nat /\ n < MaxLen /\ n = Len(nx)
      /\ \A i \in 1 .. n : pv[i] = nx[n + 1 - i]
      /\ Len(pv) \in Nat
      /\ \/ Len(pv) = n
         \/ Len(pv) = n + 1 /\ pv[n + 1] = Freed /\ ~whole
      /\ \A i \in 1 .. n : nx[i] \in E
  <2>1. nx \in Seq(E) /\ pv \in Seq(E \cup {Freed})
    BY DEF ListSound
  <2>2. Len(nx) \in Nat /\ Len(pv) \in Nat /\ \A i \in 1 .. Len(nx) : nx[i] \in E
    BY <2>1, LenProperties, ElementOfSeq
  <2> QED BY <2>1, <2>2 DEF ListSound
<1>2. one \in Seq(E) /\ one \in Seq(E \cup {Freed}) /\ Len(one) = 1 /\ one[1] = e
  OBVIOUS
<1>m. MaxLen \in Nat
  BY DataAssumption
<1>3. CASE nx = <<>>
  <2>0. n = 0
    BY <1>3
  <2> HIDE DEF n, one
  <2>1. ListSound([next |-> one, prev |-> one, size |-> 1], E, whole)
    <3>1. \A i \in 1 .. 1 : one[i] = one[1 + 1 - i]
      BY <1>2
    <3>2. 1 <= MaxLen /\ 1 = Len(one)
      BY <1>1, <1>2, <1>m, <2>0
    <3> QED BY <1>2, <3>1, <3>2, ListIs
  <2>2. l.size + 1 = 1
    BY <1>1, <2>0
  <2> QED BY <1>3, <2>1, <2>2 DEF L!AppendTail, L!AppendHead, one
<1>4. CASE nx # <<>>
  <2>0. n # 0
    BY <1>1, <1>4
  <2> HIDE DEF n, one
  <2>1. ListSound([next |-> Append(nx, e), prev |-> one \o pv, size |-> n + 1], E, whole)
    <3> DEFINE a == Append(nx, e)
               b == one \o pv
    <3>1. a \in Seq(E) /\ Len(a) = n + 1 /\ a[n + 1] = e /\ \A i \in 1 .. n : a[i] = nx[i]
      BY <1>1
    <3>x. /\ b \in Seq(E \cup {Freed}) /\ Len(b) = Len(one) + Len(pv)
          /\ \A i \in 1 .. Len(one) + Len(pv) : b[i] = IF i <= Len(one) THEN one[i] ELSE pv[i - Len(one)]
      BY <1>1, <1>2, ConcatProperties
    <3> HIDE DEF a, b
    <3>2. Len(b) = 1 + Len(pv) /\ b[1] = e /\ \A i \in 2 .. 1 + Len(pv) : b[i] = pv[i - 1]
      <4>1. \A i \in 1 .. 1 + Len(pv) : b[i] = IF i <= 1 THEN one[i] ELSE pv[i - 1]
        BY <1>2, <3>x
      <4>2. 1 \in 1 .. 1 + Len(pv)
        BY <1>1
      <4> QED BY <1>1, <1>2, <3>x, <4>1, <4>2
    <3>3. ASSUME NEW i \in 1 .. n + 1 PROVE b[i] = a[(n + 1) + 1 - i]
      <4>1. CASE i = 1
        BY <1>1, <3>1, <3>2, <4>1
      <4>2. CASE i # 1
        <5>1. i - 1 \in 1 .. n /\ i \in 2 .. 1 + Len(pv) /\ n + 1 - (i - 1) \in 1 .. n /\ n + 1 - (i - 1) = (n + 1) + 1 - i
          BY <1>1, <4>2
        <5>2. b[i] = pv[i - 1] /\ pv[i - 1] = nx[n + 1 - (i - 1)]
          BY <1>1, <3>2, <5>1
        <5> QED BY <3>1, <5>1, <5>2
      <4> QED BY <4>1, <4>2
    <3>4. \/ Len(b) = n + 1
          \/ Len(b) = (n + 1) + 1 /\ b[(n + 1) + 1] = Freed /\ ~whole
      <4>1. CASE Len(pv) = n
        BY <1>1, <3>2, <4>1
      <4>2. CASE Len(pv) = n + 1 /\ pv[n + 1] = Freed /\ ~whole
        <5> DEFINE k == (n + 1) + 1
        <5>1. k \in 2 .. 1 + Len(pv) /\ k - 1 = n + 1
          BY <1>1, <4>2
        <5>3. Len(b) = k
          BY <1>1, <3>2, <4>2
        <5> HIDE DEF k
        <5>2. b[k] = pv[k - 1]
          BY <3>2, <5>1
        <5>4. b[k] = Freed
          BY <4>2, <5>1, <5>2
        <5> QED BY <4>2, <5>3, <5>4 DEF k
      <4> QED BY <1>1, <4>1, <4>2
    <3>5. n + 1 <= MaxLen
      BY <1>1, <1>m
    <3>6. ListSound([next |-> a, prev |-> b, size |-> n + 1], E, whole)
      BY <3>1, <3>x, <3>3, <3>4, <3>5, ListIs
    <3> QED BY <3>6 DEF a, b
  <2>2. ListSound([next |-> one \o nx, prev |-> Append(SubSeq(pv, 1, n), e), size |-> n + 1], E, whole)
    <3> DEFINE a == one \o nx
               c == SubSeq(pv, 1, n)
               b == Append(c, e)
    <3>1. /\ a \in Seq(E) /\ Len(a) = Len(one) + Len(nx)
          /\ \A i \in 1 .. Len(one) + Len(nx) : a[i] = IF i <= Len(one) THEN one[i] ELSE nx[i - Len(one)]
      BY <1>1, <1>2, ConcatProperties
    <3>2. c \in Seq(E \cup {Freed}) /\ Len(c) = n /\ \A i \in 1 .. n : c[i] = pv[i]
      <4>1. n <= Len(pv)
        BY <1>1
      <4>2. 1 .. n \subseteq 1 .. Len(pv)
        BY <1>1, <4>1
      <4> QED BY <1>1, <4>1, <4>2
    <3> HIDE DEF a, c
    <3>3. b \in Seq(E \cup {Freed}) /\ Len(b) = n + 1 /\ b[n + 1] = e /\ \A i \in 1 .. n : b[i] = pv[i]
      BY <1>1, <3>2
    <3> HIDE DEF b
    <3>4. Len(a) = n + 1 /\ a[1] = e /\ \A i \in 2 .. n + 1 : a[i] = nx[i - 1]
      <4>1. \A i \in 1 .. 1 + n : a[i] = IF i <= 1 THEN one[i] ELSE nx[i - 1]
        BY <1>1, <1>2, <3>1
      <4>2. 1 \in 1 .. 1 + n
        BY <1>1
      <4> QED BY <1>1, <1>2, <3>1, <4>1, <4>2
    <3>5. ASSUME NEW i \in 1 .. n + 1 PROVE b[i] = a[(n + 1) + 1 - i]
      <4>1. CASE i = n + 1
        BY <1>1, <3>3, <3>4, <4>1
      <4>2. CASE i # n + 1
        <5>0. n \in Nat
          BY <1>1
        <5>1. i \in 1 .. n /\ (n + 1) + 1 - i \in 2 .. n + 1 /\ (n + 1) + 1 - i - 1 = n + 1 - i
          <6> HIDE DEF pv, nx
          <6> QED BY ONLY <5>0, <4>2, i \in 1 .. n + 1
        <5>2. b[i] = pv[i] /\ pv[i] = nx[n + 1 - i]
          BY <1>1, <3>3, <5>1
        <5> QED BY <3>4, <5>1, <5>2
      <4> QED BY <4>1, <4>2
    <3>6. n + 1 <= MaxLen
      BY <1>1, <1>m
    <3>7. ListSound([next |-> a, prev |-> b, size |-> n + 1], E, whole)
      BY <3>1, <3>3, <3>4, <3>5, <3>6, ListIs
    <3> QED BY <3>7 DEF a, b, c
  <2>3. l.size + 1 = n + 1
    BY <1>1
  <2> QED BY <1>4, <2>1, <2>2, <2>3 DEF L!AppendTail, L!AppendHead, one, n
<1> QED BY <1>3, <1>4

(* Both chains of a list are written.                                      *)
LEMMA BothSet ==
    ASSUME NEW l, l = [next |-> l.next, prev |-> l.prev, size |-> l.size], NEW u, NEW v
    PROVE  [l EXCEPT !.next = u, !.prev = v] = [next |-> u, prev |-> v, size |-> l.size]
<1> DEFINE m == [l EXCEPT !.next = u]
<1>1. m = [next |-> u, prev |-> l.prev, size |-> l.size]
  OBVIOUS
<1>2. [l EXCEPT !.next = u, !.prev = v] = [m EXCEPT !.prev = v]
  OBVIOUS
<1> HIDE DEF m
<1> QED BY <1>1, <1>2

(* An element of a list is replaced in both chains.                        *)
LEMMA ListSet ==
    ASSUME NEW E, NEW l, NEW whole, ListSound(l, E, whole), NEW e \in E, NEW i \in Int, L!InBounds(l, i)
    PROVE  ListSound(L!RefSet(l, i, e), E, whole)
<1> DEFINE n == l.size
           a == [l.next EXCEPT ![i + 1] = e]
           b == [l.prev EXCEPT ![n - i] = e]
           F == E \cup {Freed}
<1>1. /\ l.next \in Seq(E) /\ n = Len(l.next) /\ l.prev \in Seq(F) /\ n \in Nat /\ n <= MaxLen
      /\ \A j \in 1 .. n : l.prev[j] = l.next[n + 1 - j]
      /\ \/ Len(l.prev) = n
         \/ Len(l.prev) = n + 1 /\ l.prev[n + 1] = Freed /\ ~whole
      /\ l = [next |-> l.next, prev |-> l.prev, size |-> n]
  BY LenProperties DEF ListSound
<1>n. n \in Nat /\ (Len(l.prev) = n \/ Len(l.prev) = n + 1)
  BY <1>1
<1>2. i + 1 \in 1 .. n /\ n - i \in 1 .. n
  BY <1>n DEF L!InBounds
<1>3. n - i \in 1 .. Len(l.prev) /\ e \in F
  <2> HIDE DEF n
  <2> QED BY <1>n, <1>2
<1>30. l.next \in Seq(E) /\ i + 1 \in 1 .. Len(l.next) /\ Len(l.next) = n
  BY <1>1, <1>2
<1>4. a \in Seq(E) /\ Len(a) = n /\ \A j \in 1 .. n : a[j] = IF j = i + 1 THEN e ELSE l.next[j]
  BY <1>30, ExceptSeq
<1>5. b \in Seq(F) /\ Len(b) = Len(l.prev) /\ \A j \in 1 .. Len(l.prev) : b[j] = IF j = n - i THEN e ELSE l.prev[j]
  BY <1>1, <1>3, ExceptSeq
<1>6. L!RefSet(l, i, e) = [next |-> a, prev |-> b, size |-> n]
  <2>1. L!RefSet(l, i, e) = [l EXCEPT !.next = a, !.prev = b]
    <3>1. L!RefSet(l, i, e) = [l EXCEPT !.next[i + 1] = e, !.prev[n - i] = e]
      BY <1>1 DEF L!RefSet
    <3> QED BY <3>1, <1>1
  <2> HIDE DEF a, b
  <2> QED BY <1>1, <2>1, BothSet
<1> HIDE DEF a, b
<1>7. ASSUME NEW j \in 1 .. n PROVE b[j] = a[n + 1 - j]
  <2>1. j \in 1 .. Len(l.prev) /\ n + 1 - j \in 1 .. n
    BY <1>1
  <2>2. b[j] = (IF j = n - i THEN e ELSE l.prev[j]) /\ l.prev[j] = l.next[n + 1 - j]
    BY <1>1, <1>5, <2>1
  <2>3. a[n + 1 - j] = IF n + 1 - j = i + 1 THEN e ELSE l.next[n + 1 - j]
    BY <1>4, <2>1
  <2>4. j = n - i <=> n + 1 - j = i + 1
    <3> HIDE DEF n
    <3> QED BY <1>n
  <2> QED BY <2>2, <2>3, <2>4
<1>8. \/ Len(b) = n
      \/ Len(b) = n + 1 /\ b[n + 1] = Freed /\ ~whole
  <2>1. CASE Len(l.prev) = n
    BY <1>5, <2>1
  <2>2. CASE Len(l.prev) = n + 1 /\ l.prev[n + 1] = Freed /\ ~whole
    <3>1. n + 1 \in 1 .. Len(l.prev) /\ n + 1 # n - i
      <4> HIDE DEF n
      <4> QED BY <1>n, <1>2, <2>2
    <3> QED BY <1>5, <2>2, <3>1
  <2> QED BY <1>1, <2>1, <2>2
<1> HIDE DEF n
<1> QED BY <1>1, <1>4, <1>5, <1>6, <1>7, <1>8, ListIs

(* Without its head, a list is no more than a careless program's.          *)
LEMMA ListCdr ==
    ASSUME NEW E, NEW l, NEW whole, ListSound(l, E, whole), l.size # 0
    PROVE  ListSound(L!Cdr(l), E, FALSE)
<1> DEFINE n == l.size
           s == l.next
           rev == [i \in 1 .. n |-> s[n + 1 - i]]
           cut == [rev EXCEPT ![n] = Freed]
           F == E \cup {Freed}
<1>1. s \in Seq(E) /\ n = Len(s) /\ n \in Nat /\ n <= MaxLen /\ n # 0 /\ s # <<>>
  BY LenProperties DEF ListSound
<1>2. L!Make(s) = [next |-> s, prev |-> rev, size |-> n]
  BY <1>1, MakeIs
<1>3. rev = [i \in 1 .. n |-> rev[i]] /\ \A i \in 1 .. n : rev[i] = s[n + 1 - i] /\ rev[i] \in F
  <2>1. ASSUME NEW i \in 1 .. n PROVE n + 1 - i \in 1 .. n /\ s[n + 1 - i] \in E
    <3>1. n + 1 - i \in 1 .. Len(s)
      BY <1>1
    <3> QED BY <1>1, <3>1, ElementOfSeq
  <2> HIDE DEF n
  <2> QED BY <2>1
<1> HIDE DEF rev
<1>4. rev \in Seq(F) /\ Len(rev) = n
  <2>1. n \in Nat /\ rev = [i \in 1 .. n |-> rev[i]] /\ \A i \in 1 .. n : rev[i] \in F
    BY <1>1, <1>3
  <2> HIDE DEF n, F
  <2> QED BY <2>1, MadeSeq
<1>5. cut \in Seq(F) /\ Len(cut) = n /\ \A j \in 1 .. n : cut[j] = IF j = n THEN Freed ELSE rev[j]
  <2>1. n \in 1 .. Len(rev)
    BY <1>1, <1>4
  <2> QED BY <1>4, <2>1, ExceptSeq
<1>6. L!Cdr(l) = [next |-> Tail(s), prev |-> cut, size |-> n - 1]
  <2> DEFINE copy == L!Make(s)
  <2>1. copy.next = s /\ copy.prev = rev /\ copy.size = n
    BY <1>2
  <2>2. L!Cdr(l) = [next |-> Tail(copy.next), prev |-> [copy.prev EXCEPT ![Len(copy.prev)] = Freed],
                    size |-> copy.size - 1]
    BY DEF L!Cdr, L!Clone
  <2> HIDE DEF copy
  <2> QED BY <1>4, <2>1, <2>2
<1> DEFINE t == Tail(s)
<1>7. t \in Seq(E) /\ Len(t) = n - 1 /\ \A i \in 1 .. n - 1 : t[i] = s[i + 1]
  BY <1>1, HeadTailProperties
<1> HIDE DEF cut, t
<1>8. ASSUME NEW j \in 1 .. n - 1 PROVE cut[j] = t[(n - 1) + 1 - j]
  <2>1. j \in 1 .. n /\ j # n /\ (n - 1) + 1 - j \in 1 .. n - 1 /\ (n - 1) + 1 - j + 1 = n + 1 - j
    <3> HIDE DEF n
    <3> QED BY <1>1
  <2>2. cut[j] = s[n + 1 - j]
    BY <1>3, <1>5, <2>1
  <2>3. t[(n - 1) + 1 - j] = s[(n - 1) + 1 - j + 1]
    BY <1>7, <2>1
  <2> QED BY <2>1, <2>2, <2>3
<1>9. Len(cut) = (n - 1) + 1 /\ cut[(n - 1) + 1] = Freed /\ n - 1 <= MaxLen
  <2>1. n \in 1 .. n /\ (n - 1) + 1 = n /\ n - 1 <= MaxLen
    BY <1>1, DataAssumption
  <2> QED BY <1>5, <2>1
<1> HIDE DEF n, s
<1>10. ListSound([next |-> t, prev |-> cut, size |-> n - 1], E, FALSE)
  BY <1>5, <1>7, <1>8, <1>9, ListIs
<1> QED BY <1>6, <1>10 DEF t

(* What ChainsAgree says of it.                                            *)
LEMMA ListReads ==
    ASSUME NEW E, NEW l, NEW whole, ListSound(l, E, whole), Freed \notin E
    PROVE  /\ L!Cut(l) => ~whole
           /\ Reverse(l.prev) = IF L!Cut(l) THEN <<Freed>> \o l.next ELSE l.next
           /\ l.size # 0 => L!RefGet(l, 0) \in E
<1> DEFINE n == l.size
           s == l.next
           p == l.prev
           m == Len(p)
           F == E \cup {Freed}
           r == Reverse(p)
<1>1. /\ s \in Seq(E) /\ n = Len(s) /\ p \in Seq(F) /\ n \in Nat /\ m \in Nat /\ s \in Seq(F)
      /\ \A j \in 1 .. n : p[j] = s[n + 1 - j] /\ s[j] \in E
      /\ \/ m = n
         \/ m = n + 1 /\ p[n + 1] = Freed /\ ~whole
  <2>1. s \in Seq(E) /\ n = Len(s) /\ p \in Seq(F)
    BY DEF ListSound
  <2>2. \A j \in 1 .. Len(s) : s[j] \in E
    BY <2>1, ElementOfSeq
  <2>3. s \in Seq(F)
    BY <2>1, SeqMonotonic
  <2> QED BY <2>1, <2>2, <2>3, LenProperties DEF ListSound
<1>2. r = [i \in 1 .. m |-> p[m + 1 - i]]
  BY <1>1 DEF Reverse
<1>3. r = [i \in 1 .. m |-> r[i]] /\ \A i \in 1 .. m : r[i] = p[m + 1 - i] /\ r[i] \in F
  <2>1. ASSUME NEW i \in 1 .. m PROVE m + 1 - i \in 1 .. m /\ p[m + 1 - i] \in F
    <3>1. m + 1 - i \in 1 .. Len(p)
      BY <1>1
    <3> QED BY <1>1, <3>1, ElementOfSeq
  <2> HIDE DEF m, r
  <2> QED BY <1>2, <2>1
<1> HIDE DEF r
<1>4. r \in Seq(F) /\ Len(r) = m
  <2> HIDE DEF m, F
  <2> QED BY <1>1, <1>3, MadeSeq
<1>5. \A j \in 1 .. n : p[j] # Freed
  <2> SUFFICES ASSUME NEW j \in 1 .. n PROVE p[j] # Freed
    OBVIOUS
  <2>1. n + 1 - j \in 1 .. n
    BY <1>1
  <2> QED BY <1>1, <2>1
<1>6. CASE m = n
  <2>1. ~L!Cut(l)
    BY <1>1, <1>5, <1>6 DEF L!Cut
  <2>2. \A i \in 1 .. n : r[i] = s[i]
    <3> SUFFICES ASSUME NEW i \in 1 .. n PROVE r[i] = s[i]
      OBVIOUS
    <3>1. n + 1 - i \in 1 .. n /\ n + 1 - (n + 1 - i) = i
      BY <1>1
    <3>2. r[i] = p[n + 1 - i]
      BY <1>3, <1>6
    <3>3. p[n + 1 - i] = s[n + 1 - (n + 1 - i)]
      BY <1>1, <3>1
    <3> QED BY <3>1, <3>2, <3>3
  <2>3. r = s
    <3> HIDE DEF F
    <3> QED BY <1>1, <1>4, <1>6, <2>2, SeqEqual
  <2>4. n # 0 => s[1] \in E
    BY <1>1
  <2> QED BY <2>1, <2>3, <2>4 DEF r, L!RefGet
<1>7. CASE m = n + 1 /\ p[n + 1] = Freed /\ ~whole
  <2>1. L!Cut(l)
    <3>1. n + 1 \in 1 .. Len(p)
      BY <1>1, <1>7
    <3> QED BY <1>7, <3>1 DEF L!Cut
  <2> DEFINE one == <<Freed>>
             c == one \o s
  <2>2. one \in Seq(F) /\ Len(one) = 1 /\ one[1] = Freed
    OBVIOUS
  <2> HIDE DEF one
  <2>3. c \in Seq(F) /\ Len(c) = Len(one) + Len(s)
        /\ \A i \in 1 .. Len(one) + Len(s) : c[i] = IF i <= Len(one) THEN one[i] ELSE s[i - Len(one)]
    <3>1. s \in Seq(F) /\ one \in Seq(F)
      BY <1>1, <2>2
    <3> HIDE DEF F, s
    <3> QED BY <3>1, ConcatProperties
  <2> HIDE DEF c
  <2>4. ASSUME NEW i \in 1 .. n + 1 PROVE r[i] = c[i]
    <3>1. c[i] = IF i <= 1 THEN one[i] ELSE s[i - 1]
      <4>1. i \in 1 .. Len(one) + Len(s)
        BY <1>1, <2>2
      <4> QED BY <2>2, <2>3, <4>1
    <3>2. r[i] = p[n + 1 + 1 - i]
      BY <1>3, <1>7
    <3>3. CASE i = 1
      <4>1. n + 1 + 1 - i = n + 1 /\ i <= 1
        BY <1>1, <3>3
      <4> QED BY <1>7, <2>2, <3>1, <3>2, <3>3, <4>1
    <3>4. CASE i # 1
      <4>1. n + 1 + 1 - i \in 1 .. n /\ n + 1 - (n + 1 + 1 - i) = i - 1 /\ ~ (i <= 1)
        BY <1>1, <3>4
      <4>2. p[n + 1 + 1 - i] = s[n + 1 - (n + 1 + 1 - i)]
        BY <1>1, <4>1
      <4> QED BY <3>1, <3>2, <4>1, <4>2
    <3> QED BY <3>3, <3>4
  <2>5. r = c
    <3>1. Len(r) = Len(c) /\ Len(r) = n + 1
      <4>1. Len(c) = 1 + n
        BY <1>1, <2>2, <2>3
      <4> QED BY <1>1, <1>4, <1>7, <4>1
    <3>2. \A i \in 1 .. Len(r) : r[i] = c[i]
      BY <2>4, <3>1
    <3> HIDE DEF F
    <3> QED BY <1>4, <2>3, <3>1, <3>2, SeqEqual
  <2>6. n # 0 => s[1] \in E
    BY <1>1
  <2> QED BY <1>7, <2>1, <2>5, <2>6 DEF r, c, one, L!RefGet
<1> QED BY <1>1, <1>6, <1>7

-----------------------------------------------------------------------------
(* Arrays.                                                                 *)

Shaped(a, nodes, capacity, pos, size) ==
    a = [nodes |-> nodes, capacity |-> capacity, pos |-> pos, size |-> size]
Placed(a, k, e) == [a EXCEPT !.nodes[k] = e]
PlacedLast(a, k, e, m) == [a EXCEPT !.nodes[k] = e, !.size = m]
PlacedFirst(a, k, e, p, m) == [a EXCEPT !.nodes[k] = e, !.pos = p, !.size = m]
(* What is written of an array.                                            *)
LEMMA ArrayPut ==
    ASSUME NEW a, NEW nodes, NEW capacity, NEW pos, NEW size, Shaped(a, nodes, capacity, pos, size),
           NEW k, NEW e, NEW p, NEW m
    PROVE  /\ Shaped(Placed(a, k, e), [nodes EXCEPT ![k] = e], capacity, pos, size)
           /\ Shaped(PlacedLast(a, k, e, m), [nodes EXCEPT ![k] = e], capacity, pos, m)
           /\ Shaped(PlacedFirst(a, k, e, p, m), [nodes EXCEPT ![k] = e], capacity, p, m)
<1> DEFINE f == [nodes EXCEPT ![k] = e]
           b == [a EXCEPT !.nodes = f]
           c == [b EXCEPT !.pos = p]
<1>s. a = [nodes |-> nodes, capacity |-> capacity, pos |-> pos, size |-> size] /\ a.nodes = nodes
  BY DEF Shaped
<1>0. Placed(a, k, e) = b
  BY <1>s DEF Placed
<1>1. PlacedFirst(a, k, e, p, m) = [c EXCEPT !.size = m]
  BY <1>s DEF PlacedFirst
<1>2. PlacedLast(a, k, e, m) = [b EXCEPT !.size = m]
  BY <1>s DEF PlacedLast
<1> HIDE DEF f
<1>3. b = [nodes |-> f, capacity |-> capacity, pos |-> pos, size |-> size]
  BY <1>s
<1> HIDE DEF b
<1>4. c = [nodes |-> f, capacity |-> capacity, pos |-> p, size |-> size]
  BY <1>3
<1> HIDE DEF c
<1>5. [c EXCEPT !.size = m] = [nodes |-> f, capacity |-> capacity, pos |-> p, size |-> m]
  BY <1>4
<1>6. [b EXCEPT !.size = m] = [nodes |-> f, capacity |-> capacity, pos |-> pos, size |-> m]
  BY <1>3
<1> QED BY <1>0, <1>1, <1>2, <1>3, <1>5, <1>6 DEF f, Shaped

(* An array made up of sound parts is sound.                               *)
LEMMA ArrayIs ==
    ASSUME NEW E, NEW capacity \in Nat, NEW pos \in Nat, NEW size \in Nat, pos + size <= capacity,
           NEW nodes \in [0 .. (capacity - 1) -> E \cup {Freed, Null}],
           \A i \in pos .. (pos + size - 1) : nodes[i] \in E,
           NEW a, Shaped(a, nodes, capacity, pos, size)
    PROVE  ArraySound(a, E)
<1>1. /\ a.nodes = nodes /\ a.capacity = capacity /\ a.pos = pos /\ a.size = size
      /\ a = [nodes |-> nodes, capacity |-> capacity, pos |-> pos, size |-> size]
  BY DEF Shaped
<1> QED BY <1>1 DEF ArraySound, A!Live

(* ARRMK makes a sound array.                                              *)
LEMMA ArrayMade ==
    ASSUME NEW E, NEW s \in Sequences(E)
    PROVE  ArraySound(A!Make(s), E)
<1> DEFINE n == Len(s)
           c == 3 * n
           a == A!New(n)
           f == [i \in 0 .. (c - 1) |-> IF i \in n .. (n + n - 1) THEN s[i - n + 1] ELSE Null]
<1>1. s \in Seq(E) /\ n \in Nat /\ \A i \in 1 .. n : s[i] \in E
  BY BoundedIs, ElementOfSeq
<1>2. a.nodes = A!Slots(c) /\ a.pos = n /\ a.size = n /\ a.capacity = c
      /\ a = [nodes |-> A!Slots(c), capacity |-> c, pos |-> n, size |-> n]
  BY DEF A!New
<1>3. DOMAIN a.nodes = 0 .. (c - 1)
  BY <1>2 DEF A!Slots
<1>4. A!Make(s) = [a EXCEPT !.nodes = [i \in DOMAIN a.nodes |->
           IF i \in A!Live(a) THEN s[i - a.pos + 1] ELSE Null]]
  BY DEF A!Make
<1> HIDE DEF a
<1>5. A!Make(s) = [a EXCEPT !.nodes = f]
  BY <1>2, <1>3, <1>4 DEF A!Live
<1> HIDE DEF f
<1>6. Shaped(A!Make(s), f, c, n, n)
  BY <1>2, <1>5 DEF Shaped
<1>7. f \in [0 .. (c - 1) -> E \cup {Freed, Null}] /\ \A i \in n .. (n + n - 1) : f[i] \in E
  <2>1. ASSUME NEW i \in n .. (n + n - 1) PROVE s[i - n + 1] \in E /\ i \in 0 .. (c - 1)
    <3>1. i - n + 1 \in 1 .. n /\ i \in 0 .. (c - 1)
      <4> HIDE DEF n
      <4> QED BY <1>1
    <3> QED BY <1>1, <3>1
  <2> HIDE DEF n, c
  <2> QED BY <2>1 DEF f
<1>8. c \in Nat /\ n + n <= c
  <2> HIDE DEF n
  <2> QED BY <1>1
<1>9. n \in Nat
  BY <1>1
<1> HIDE DEF c, n
<1> QED BY <1>6, <1>7, <1>8, <1>9, ArrayIs

(* An element of an array is replaced.                                     *)
LEMMA ArraySet ==
    ASSUME NEW E, NEW a, ArraySound(a, E), NEW e \in E, NEW i \in Int, A!InBounds(a, i)
    PROVE  ArraySound(A!RefSet(a, i, e), E)
<1> DEFINE k == a.pos + i
           f == [a.nodes EXCEPT ![k] = e]
<1>1. /\ a.pos \in Nat /\ a.size \in Nat /\ a.capacity \in Nat /\ a.pos + a.size <= a.capacity
      /\ a.nodes \in [0 .. (a.capacity - 1) -> E \cup {Freed, Null}]
      /\ \A j \in a.pos .. (a.pos + a.size - 1) : a.nodes[j] \in E
      /\ a = [nodes |-> a.nodes, capacity |-> a.capacity, pos |-> a.pos, size |-> a.size]
  BY DEF ArraySound, A!Live
<1>2. k \in 0 .. (a.capacity - 1)
  BY <1>1 DEF A!InBounds
<1>3. Shaped(A!RefSet(a, i, e), f, a.capacity, a.pos, a.size)
  <2>1. A!RefSet(a, i, e) = Placed(a, k, e)
    BY DEF A!RefSet, Placed
  <2>2. Shaped(a, a.nodes, a.capacity, a.pos, a.size)
    BY <1>1 DEF Shaped
  <2>3. Shaped(Placed(a, k, e), f, a.capacity, a.pos, a.size)
    BY <2>2, ArrayPut
  <2> QED BY <2>1, <2>3
<1> HIDE DEF k
<1>4. /\ f \in [0 .. (a.capacity - 1) -> E \cup {Freed, Null}]
      /\ \A j \in a.pos .. (a.pos + a.size - 1) : f[j] \in E
  BY <1>1, <1>2
<1> HIDE DEF f
<1> QED BY <1>1, <1>3, <1>4, ArrayIs

(* Where the copy fits in its block, what is left of it is sound.          *)
LEMMA ArrayCdr ==
    ASSUME NEW E, NEW a, ArraySound(a, E), a.size # 0, A!CloneFits(a)
    PROVE  ArraySound(A!Cdr(a), E)
<1> DEFINE n == a.size
           p == a.pos
           c == 3 * n
           g == [i \in 0 .. (c - 1) |-> IF i \in p .. (p + n - 1) THEN a.nodes[i] ELSE Null]
           b == [nodes |-> g, capacity |-> c, pos |-> p, size |-> n]
           f == [g EXCEPT ![p] = Freed]
           F == E \cup {Freed, Null}
<1>1. /\ p \in Nat /\ n \in Nat /\ n # 0 /\ p + n <= c
      /\ \A j \in p .. (p + n - 1) : a.nodes[j] \in E
  BY DEF ArraySound, A!Live, A!CloneFits
<1>2. A!Clone(a) = b
  <2> DEFINE s == A!New(n)
             new == [s EXCEPT !.pos = p]
  <2>1. s = [nodes |-> A!Slots(c), capacity |-> c, pos |-> n, size |-> n]
    BY DEF A!New
  <2>2. A!Clone(a) = [new EXCEPT !.nodes = [i \in DOMAIN new.nodes |->
           IF i \in p .. (p + n - 1) THEN a.nodes[i] ELSE Null]]
    BY DEF A!Clone, A!Live
  <2> HIDE DEF s
  <2>3. new = [nodes |-> A!Slots(c), capacity |-> c, pos |-> p, size |-> n]
    BY <2>1
  <2>4. DOMAIN new.nodes = 0 .. (c - 1)
    BY <2>3 DEF A!Slots
  <2> HIDE DEF new
  <2>5. A!Clone(a) = [new EXCEPT !.nodes = g]
    BY <2>2, <2>4
  <2> HIDE DEF g
  <2> QED BY <2>3, <2>5
<1>3. Shaped(A!Cdr(a), f, c, p + 1, n - 1)
  <2>1. A!Cdr(a) = [b EXCEPT !.nodes[b.pos] = Freed, !.pos = b.pos + 1, !.size = b.size - 1]
    BY <1>2 DEF A!Cdr
  <2>2. b.pos = p /\ b.size = n
    OBVIOUS
  <2>3. Shaped(b, g, c, p, n)
    BY DEF Shaped
  <2> HIDE DEF b
  <2>4. A!Cdr(a) = PlacedFirst(b, p, Freed, p + 1, n - 1)
    BY <2>1, <2>2 DEF PlacedFirst
  <2> DEFINE p1 == p + 1
             n1 == n - 1
  <2>5. Shaped(PlacedFirst(b, p, Freed, p1, n1), f, c, p1, n1)
    <3> HIDE DEF g, p1, n1, p, n, c
    <3> QED BY <2>3, ArrayPut
  <2> HIDE DEF g
  <2> QED BY <2>4, <2>5
<1>4. g \in [0 .. (c - 1) -> F] /\ \A j \in p .. (p + n - 1) : g[j] \in E
  <2>1. \A j \in p .. (p + n - 1) : j \in 0 .. (c - 1)
    <3> HIDE DEF p, n
    <3> QED BY <1>1
  <2> HIDE DEF c, p, n
  <2> QED BY <1>1, <2>1
<1> HIDE DEF g, F
<1>5. p \in 0 .. (c - 1) /\ c \in Nat /\ p + 1 \in Nat /\ n - 1 \in Nat /\ (p + 1) + (n - 1) <= c
      /\ (\A j \in (p + 1) .. ((p + 1) + (n - 1) - 1) : j \in p .. (p + n - 1) /\ j # p /\ j \in 0 .. (c - 1))
  <2> HIDE DEF p, n
  <2> QED BY <1>1
<1>6. f \in [0 .. (c - 1) -> F] /\ \A j \in (p + 1) .. ((p + 1) + (n - 1) - 1) : f[j] \in E
  <2> HIDE DEF p, n, c
  <2>1. Freed \in F
    BY DEF F
  <2>2. \A j \in 0 .. (c - 1) : j # p => f[j] = g[j]
    BY <1>4
  <2> QED BY <1>4, <1>5, <2>1, <2>2
<1> HIDE DEF f, n, p, c
<1> QED BY <1>3, <1>5, <1>6, ArrayIs DEF F

(* An array that grows stays in its block, moved or not.                   *)
LEMMA ArrayAppends ==
    ASSUME NEW E, NEW a, ArraySound(a, E), NEW e \in E
    PROVE  ArraySound(A!AppendTail(a, e), E)
<1> DEFINE F == E \cup {Freed, Null}
<1>1. /\ a.pos \in Nat /\ a.size \in Nat /\ a.capacity \in Nat /\ a.pos + a.size <= a.capacity
      /\ a.nodes \in [0 .. (a.capacity - 1) -> F]
      /\ \A j \in a.pos .. (a.pos + a.size - 1) : a.nodes[j] \in E
      /\ a = [nodes |-> a.nodes, capacity |-> a.capacity, pos |-> a.pos, size |-> a.size]
  BY DEF ArraySound, A!Live
<1>2. ASSUME NEW b, ArraySound(b, E), b.pos + b.size < b.capacity
      PROVE  ArraySound(PlacedLast(b, b.pos + b.size, e, b.size + 1), E)
  <2> DEFINE k == b.pos + b.size
             f == [b.nodes EXCEPT ![k] = e]
  <2>1. /\ b.pos \in Nat /\ b.size \in Nat /\ b.capacity \in Nat
        /\ b.nodes \in [0 .. (b.capacity - 1) -> F]
        /\ \A j \in b.pos .. (b.pos + b.size - 1) : b.nodes[j] \in E
    BY <1>2 DEF ArraySound, A!Live
  <2>2. Shaped(PlacedLast(b, k, e, b.size + 1), f, b.capacity, b.pos, b.size + 1)
    <3>1. Shaped(b, b.nodes, b.capacity, b.pos, b.size)
      BY <1>2 DEF ArraySound, Shaped
    <3> HIDE DEF k
    <3> QED BY <3>1, ArrayPut
  <2>3. k \in 0 .. (b.capacity - 1) /\ b.pos + (b.size + 1) <= b.capacity /\ b.size + 1 \in Nat
        /\ \A j \in b.pos .. (b.pos + (b.size + 1) - 1) : j \in 0 .. (b.capacity - 1)
                                                      /\ (j # k => j \in b.pos .. (b.pos + b.size - 1))
    <3>1. k = b.pos + b.size /\ b.pos + b.size < b.capacity
      BY <1>2, <2>1
    <3> HIDE DEF k
    <3>2. k \in 0 .. (b.capacity - 1) /\ b.pos + (b.size + 1) <= b.capacity /\ b.size + 1 \in Nat
      BY <2>1, <3>1
    <3>3. ASSUME NEW j \in b.pos .. (b.pos + (b.size + 1) - 1)
          PROVE  j \in 0 .. (b.capacity - 1) /\ (j # k => j \in b.pos .. (b.pos + b.size - 1))
      BY <2>1, <3>1
    <3> QED BY <3>2, <3>3
  <2> HIDE DEF k
  <2>4. f \in [0 .. (b.capacity - 1) -> F] /\ \A j \in b.pos .. (b.pos + (b.size + 1) - 1) : f[j] \in E
    BY <2>1, <2>3
  <2> HIDE DEF f
  <2> QED BY <2>1, <2>2, <2>3, <2>4, ArrayIs DEF k
<1>3. CASE a.pos + a.size >= a.capacity
  <2> DEFINE b == A!Extend(a)
             n == a.size
             c == IF 3 * n > A!Minimum THEN 3 * n ELSE A!Minimum
             p == c \div 3
             g == [i \in 0 .. (c - 1) |-> IF i \in p .. (p + n - 1) THEN a.nodes[a.pos + i - p] ELSE Null]
  <2>1. Shaped(b, g, c, p, n)
    BY DEF A!Extend, Shaped
  <2>2. c \in Nat /\ p \in Nat /\ n \in Nat /\ p + n < c
    <3> HIDE DEF n
    <3>0. n \in Nat
      BY <1>1 DEF n
    <3>1. CASE 3 * n > 9
      <4>1. c = 3 * n /\ p = n
        BY <3>0, <3>1 DEF A!Minimum
      <4> HIDE DEF c, p
      <4> QED BY <3>0, <3>1, <4>1
    <3>2. CASE ~ (3 * n > 9)
      <4>1. c = 9 /\ p = 3
        BY <3>0, <3>2 DEF A!Minimum
      <4> HIDE DEF c, p
      <4> QED BY <3>0, <3>2, <4>1
    <3> QED BY <3>1, <3>2
  <2> HIDE DEF b, c, p
  <2>3. g \in [0 .. (c - 1) -> F] /\ \A i \in p .. (p + n - 1) : g[i] \in E
    <3>1. ASSUME NEW i \in p .. (p + n - 1) PROVE a.nodes[a.pos + i - p] \in E /\ i \in 0 .. (c - 1)
      <4>1. a.pos + i - p \in a.pos .. (a.pos + a.size - 1) /\ i \in 0 .. (c - 1)
        BY <1>1, <2>2
      <4> QED BY <1>1, <4>1
    <3> HIDE DEF n
    <3> QED BY <3>1
  <2> HIDE DEF g
  <2>4. ArraySound(b, E) /\ b.pos + b.size < b.capacity
    <3>1. p + n <= c
      BY <2>2
    <3>2. ArraySound(b, E)
      <4> HIDE DEF n
      <4> QED BY <2>1, <2>2, <2>3, <3>1, ArrayIs
    <3>3. b.pos = p /\ b.size = n /\ b.capacity = c
      BY <2>1 DEF Shaped
    <3> QED BY <2>2, <3>2, <3>3
  <2> QED BY <1>2, <1>3, <2>4 DEF A!AppendTail, b, PlacedLast
<1>4. CASE ~ (a.pos + a.size >= a.capacity)
  <2>1. a.pos + a.size < a.capacity
    BY <1>1, <1>4
  <2> QED BY <1>2, <1>4, <2>1 DEF A!AppendTail, PlacedLast
<1> QED BY <1>3, <1>4

-----------------------------------------------------------------------------
(* Hashes.                                                                 *)

Nodes(E) == [key : E \cup {Freed}, value : E]
(* A hash made up of sound parts is sound.                                 *)
LEMMA HashIs ==
    ASSUME NEW E, NEW nodes \in Seq(Nodes(E)), NEW size \in Nat, size >= Len(nodes), NEW whole,
           \A i, j \in 1 .. Len(nodes) : i # j => ~ObjectsEq(nodes[i].key, nodes[j].key),
           whole => \A i \in 1 .. Len(nodes) : nodes[i].key # Freed
    PROVE  HashSound([nodes |-> nodes, size |-> size], E, whole)
<1> DEFINE h == [nodes |-> nodes, size |-> size]
<1>1. h.nodes = nodes /\ h.size = size /\ h = [nodes |-> nodes, size |-> size]
  OBVIOUS
<1> HIDE DEF h
<1>2. HashSound(h, E, whole)
  BY <1>1 DEF HashSound, Nodes
<1> QED BY <1>2 DEF h

(* What there is to know of a sound hash.                                  *)
LEMMA HashHas ==
    ASSUME NEW E, NEW h, NEW whole, HashSound(h, E, whole)
    PROVE  /\ h = [nodes |-> h.nodes, size |-> h.size]
           /\ h.nodes \in Seq(Nodes(E)) /\ Len(h.nodes) \in Nat /\ DOMAIN h.nodes = 1 .. Len(h.nodes)
           /\ h.size \in Nat /\ h.size >= Len(h.nodes)
           /\ \A i \in 1 .. Len(h.nodes) : h.nodes[i] \in Nodes(E)
           /\ \A i, j \in 1 .. Len(h.nodes) : i # j => ~ObjectsEq(h.nodes[i].key, h.nodes[j].key)
           /\ whole => \A i \in 1 .. Len(h.nodes) : h.nodes[i].key # Freed
<1>1. h.nodes \in Seq(Nodes(E))
  BY DEF HashSound, Nodes
<1>2. Len(h.nodes) \in Nat /\ DOMAIN h.nodes = 1 .. Len(h.nodes) /\ \A i \in 1 .. Len(h.nodes) : h.nodes[i] \in Nodes(E)
  BY <1>1, LenProperties, ElementOfSeq
<1> QED BY <1>1, <1>2 DEF HashSound

(* A search ends at the first node with the key.                           *)
LEMMA HashFinds ==
    ASSUME NEW E, NEW h, NEW whole, HashSound(h, E, whole), NEW k
    PROVE  /\ H!Exists(h, k) <=> \E i \in 1 .. Len(h.nodes) : ObjectsEq(h.nodes[i].key, k)
           /\ H!Exists(h, k) => H!Position(h, k) \in 1 .. Len(h.nodes)
           /\ H!Unsafe(h, k) => ~whole
<1> DEFINE found == H!At(h, k)
<1>1. DOMAIN h.nodes = 1 .. Len(h.nodes) /\ Len(h.nodes) \in Nat
  BY HashHas
<1>2. found = {i \in 1 .. Len(h.nodes) : ObjectsEq(h.nodes[i].key, k)}
  BY <1>1 DEF H!At
<1>3. H!Exists(h, k) <=> found # {}
  BY DEF H!Exists
<1>4. ASSUME found # {} PROVE H!Position(h, k) \in found
  <2>1. found \in SUBSET Nat
    BY <1>1, <1>2
  <2>2. H!Position(h, k) = H!Min(found)
    BY DEF H!Position
  <2> HIDE DEF found
  <2>3. PICK x \in found : \A y \in found : x <= y
    BY <1>4, <2>1, Least
  <2>4. H!Min(found) \in found
    BY <2>3 DEF H!Min
  <2> QED BY <2>2, <2>4
<1>5. H!Unsafe(h, k) => ~whole
  BY <1>1, HashHas DEF H!Unsafe
<1> QED BY <1>2, <1>3, <1>4, <1>5

(* A node is given another value.                                          *)
LEMMA HashSets ==
    ASSUME NEW E, NEW h, NEW whole, HashSound(h, E, whole), NEW k, NEW v \in E, H!Exists(h, k)
    PROVE  HashSound(H!SetValue(h, k, v), E, whole)
<1> DEFINE p == H!Position(h, k)
           ns == h.nodes
           nd == [key |-> ns[p].key, value |-> v]
           new == [ns EXCEPT ![p] = nd]
<1>1. /\ h = [nodes |-> ns, size |-> h.size] /\ ns \in Seq(Nodes(E)) /\ h.size \in Nat /\ h.size >= Len(ns)
      /\ \A i \in 1 .. Len(ns) : ns[i] \in Nodes(E)
      /\ \A i, j \in 1 .. Len(ns) : i # j => ~ObjectsEq(ns[i].key, ns[j].key)
      /\ whole => \A i \in 1 .. Len(ns) : ns[i].key # Freed
  BY HashHas
<1>2. p \in 1 .. Len(ns)
  BY HashFinds
<1>3. H!SetValue(h, k, v) = [nodes |-> new, size |-> h.size]
  <2>1. H!SetValue(h, k, v) = [h EXCEPT !.nodes = [ns EXCEPT ![p].value = v]]
    BY DEF H!SetValue
  <2>2. [ns EXCEPT ![p].value = v] = [ns EXCEPT ![p] = [ns[p] EXCEPT !.value = v]]
    OBVIOUS
  <2>3. [ns[p] EXCEPT !.value = v] = nd
    <3> DEFINE x == ns[p]
    <3>1. x \in Nodes(E)
      BY <1>1, <1>2
    <3>2. nd = [key |-> x.key, value |-> v]
      OBVIOUS
    <3> HIDE DEF x, nd
    <3>3. [x EXCEPT !.value = v] = nd
      BY <3>1, <3>2 DEF Nodes
    <3> QED BY <3>3 DEF x
  <2>4. H!SetValue(h, k, v) = [h EXCEPT !.nodes = new]
    BY <2>1, <2>2, <2>3
  <2> HIDE DEF new, ns
  <2> QED BY <1>1, <2>4
<1>4. nd \in Nodes(E) /\ nd.key = ns[p].key
  BY <1>1, <1>2 DEF Nodes
<1> HIDE DEF p, ns, nd
<1>5. new \in Seq(Nodes(E)) /\ Len(new) = Len(ns) /\ \A j \in 1 .. Len(ns) : new[j] = IF j = p THEN nd ELSE ns[j]
  BY <1>1, <1>2, <1>4, ExceptSeq
<1> HIDE DEF new
<1>6. \A j \in 1 .. Len(ns) : new[j].key = ns[j].key
  BY <1>4, <1>5
<1> QED BY <1>1, <1>3, <1>5, <1>6, HashIs

(* Equality of objects is symmetric, and nothing equals a freed one.       *)
LEMMA EqIs ==
    /\ \A a, b : ObjectsEq(a, b) <=> ObjectsEq(b, a)
    /\ \A a : ~ObjectsEq(a, Freed) /\ ~ObjectsEq(Freed, a)
BY DEF ObjectsEq, Freed

(* A node is added whose key is not there or cannot be compared.           *)
LEMMA HashGrows ==
    ASSUME NEW E, NEW h, NEW whole, HashSound(h, E, whole), NEW k \in E \cup {Freed}, NEW v \in E,
           k = Freed \/ ~H!Exists(h, k), whole => k # Freed
    PROVE  HashSound(H!AtTail(h, k, v), E, whole)
<1> DEFINE ns == h.nodes
           nd == [key |-> k, value |-> v]
           new == Append(ns, nd)
           n == Len(ns)
<1>1. /\ h = [nodes |-> ns, size |-> h.size] /\ ns \in Seq(Nodes(E)) /\ h.size \in Nat /\ h.size >= n /\ n \in Nat
      /\ \A i \in 1 .. n : ns[i] \in Nodes(E)
      /\ \A i, j \in 1 .. n : i # j => ~ObjectsEq(ns[i].key, ns[j].key)
      /\ whole => \A i \in 1 .. n : ns[i].key # Freed
  BY HashHas
<1>2. nd \in Nodes(E) /\ nd.key = k
  BY DEF Nodes
<1>3. H!AtTail(h, k, v) = [nodes |-> new, size |-> h.size + 1]
  BY DEF H!AtTail, H!Node
<1>4. \A i \in 1 .. n : ~ObjectsEq(ns[i].key, k) /\ ~ObjectsEq(k, ns[i].key)
  BY HashFinds, EqIs
<1> HIDE DEF ns, nd
<1>5. new \in Seq(Nodes(E)) /\ Len(new) = n + 1 /\ new[n + 1] = nd /\ \A i \in 1 .. n : new[i] = ns[i]
  BY <1>1, <1>2
<1> HIDE DEF new, n
<1>6. ASSUME NEW i \in 1 .. n + 1, NEW j \in 1 .. n + 1, i # j
      PROVE  ~ObjectsEq(new[i].key, new[j].key)
  <2>1. CASE i = n + 1
    <3>1. j \in 1 .. n
      BY <1>1, <1>6, <2>1
    <3> QED BY <1>2, <1>4, <1>5, <2>1, <3>1
  <2>2. CASE j = n + 1
    <3>1. i \in 1 .. n
      BY <1>1, <1>6, <2>2
    <3> QED BY <1>2, <1>4, <1>5, <2>2, <3>1
  <2>3. CASE i # n + 1 /\ j # n + 1
    <3>1. i \in 1 .. n /\ j \in 1 .. n
      BY <1>1, <2>3
    <3> QED BY <1>1, <1>5, <1>6, <3>1
  <2> QED BY <2>1, <2>2, <2>3
<1>7. whole => \A i \in 1 .. n + 1 : new[i].key # Freed
  <2> SUFFICES ASSUME whole, NEW i \in 1 .. n + 1 PROVE new[i].key # Freed
    OBVIOUS
  <2>1. CASE i = n + 1
    BY <1>2, <1>5, <2>1
  <2>2. CASE i # n + 1
    <3>1. i \in 1 .. n
      BY <1>1, <2>2
    <3> QED BY <1>1, <1>5, <3>1
  <2> QED BY <2>1, <2>2
<1>8. h.size + 1 \in Nat /\ h.size + 1 >= n + 1
  BY <1>1
<1> QED BY <1>3, <1>5, <1>6, <1>7, <1>8, HashIs

(* HASHADD keeps a hash sound; REFSET does for a key that is there.        *)
LEMMA HashAdds ==
    ASSUME NEW E, NEW h, NEW whole, HashSound(h, E, whole), NEW k \in E, NEW v \in E, Freed \notin E
    PROVE  /\ HashSound(H!AppendPair(h, k, v), E, whole)
           /\ H!Exists(h, k) => HashSound(H!RefSet(h, k, v), E, whole)
           /\ HashSound(H!RefSet(h, k, v), E, FALSE)
<1>1. HashSound(h, E, FALSE)
  BY DEF HashSound
<1>2. CASE H!Exists(h, k)
  BY <1>1, <1>2, HashSets DEF H!AppendPair, H!RefSet
<1>3. CASE ~H!Exists(h, k)
  <2>1. HashSound(H!AtTail(h, k, v), E, whole)
    BY <1>3, HashGrows
  <2>2. HashSound(H!AtTail(h, Freed, v), E, FALSE)
    BY <1>1, HashGrows
  <2> QED BY <1>3, <2>1, <2>2 DEF H!AppendPair, H!RefSet
<1> QED BY <1>2, <1>3

(* The nodes ns are some of the nodes hs, each taken once.                 *)
Chosen(ns, hs, from) ==
    /\ \A i \in 1 .. Len(ns) : from[i] \in 1 .. Len(hs) /\ ns[i] = hs[from[i]]
    /\ \A i, j \in 1 .. Len(ns) : i # j => from[i] # from[j]

(* A hash whose nodes are some of those of another, in their order.        *)
LEMMA HashShrinks ==
    ASSUME NEW E, NEW h, NEW whole, HashSound(h, E, whole),
           NEW r, r = [nodes |-> r.nodes, size |-> r.size], r.size \in Nat,
           r.nodes \in Seq(Nodes(E)), Len(r.nodes) <= r.size, NEW from, Chosen(r.nodes, h.nodes, from)
    PROVE  HashSound(r, E, whole)
<1>1. /\ \A i, j \in 1 .. Len(h.nodes) : i # j => ~ObjectsEq(h.nodes[i].key, h.nodes[j].key)
      /\ whole => \A i \in 1 .. Len(h.nodes) : h.nodes[i].key # Freed
  BY HashHas
<1> DEFINE ns == r.nodes
<1>2. \A i, j \in 1 .. Len(ns) : i # j => ~ObjectsEq(ns[i].key, ns[j].key)
  BY <1>1 DEF Chosen
<1>3. whole => \A i \in 1 .. Len(ns) : ns[i].key # Freed
  BY <1>1 DEF Chosen
<1>4. r.size >= Len(ns)
  BY LenProperties
<1> QED BY <1>2, <1>3, <1>4, HashIs

(* The first node is taken out.                                            *)
LEMMA HashCuts ==
    ASSUME NEW E, NEW h, NEW whole, HashSound(h, E, whole), h.nodes # <<>>
    PROVE  HashSound(H!Cdr(h), E, whole)
<1> DEFINE ns == Tail(h.nodes)
           n == Len(h.nodes)
           from == [i \in 1 .. Len(ns) |-> i + 1]
<1>1. h.nodes \in Seq(Nodes(E)) /\ h.size \in Nat /\ h.size >= n /\ n \in Nat
  BY HashHas
<1>2. ns \in Seq(Nodes(E)) /\ Len(ns) = n - 1 /\ \A i \in 1 .. Len(ns) : ns[i] = h.nodes[i + 1]
  BY <1>1, HeadTailProperties
<1>3. n # 0
  BY <1>1
<1> HIDE DEF ns, n
<1>4. \A i \in 1 .. Len(ns) : from[i] = i + 1 /\ i + 1 \in 1 .. n
  BY <1>1, <1>2
<1>5. \A i, j \in 1 .. Len(ns) : i # j => from[i] # from[j]
  BY <1>1, <1>2
<1>6. \A i \in 1 .. Len(ns) : from[i] \in 1 .. Len(h.nodes) /\ ns[i] = h.nodes[from[i]]
  BY <1>2, <1>4 DEF n
<1> HIDE DEF from
<1>7. h.size - 1 \in Nat /\ Len(ns) <= h.size - 1
  BY <1>1, <1>2, <1>3
<1> DEFINE m == h.size - 1
           r == [nodes |-> ns, size |-> m]
<1>8. r = [nodes |-> ns, size |-> m] /\ r = H!Cdr(h)
  BY DEF H!Cdr, ns
<1> HIDE DEF r, m
<1>9. m \in Nat /\ Len(ns) <= m
  BY <1>7 DEF m
<1>10. r = [nodes |-> r.nodes, size |-> r.size] /\ r.nodes = ns /\ r.size = m
  BY <1>8
<1>11. Chosen(r.nodes, h.nodes, from)
  BY <1>5, <1>6, <1>10 DEF Chosen
<1>12. HashSound(r, E, whole)
  BY <1>2, <1>9, <1>10, <1>11, HashShrinks
<1> QED BY <1>8, <1>12

(* A node is taken out; the count stays.                                   *)
LEMMA HashDeletes ==
    ASSUME NEW E, NEW h, NEW whole, HashSound(h, E, whole), NEW k
    PROVE  HashSound(H!Delete(h, k), E, whole)
<1>1. CASE ~H!Exists(h, k)
  BY <1>1 DEF H!Delete
<1>2. CASE H!Exists(h, k)
  <2> DEFINE p == H!Position(h, k)
             hs == h.nodes
             n == Len(hs)
             a == SubSeq(hs, 1, p - 1)
             b == SubSeq(hs, p + 1, n)
             ns == a \o b
             from == [i \in 1 .. (n - 1) |-> IF i < p THEN i ELSE i + 1]
  <2>1. hs \in Seq(Nodes(E)) /\ h.size \in Nat /\ h.size >= n /\ n \in Nat /\ h = [nodes |-> hs, size |-> h.size]
    BY HashHas
  <2>2. p \in 1 .. n
    BY <1>2, HashFinds
  <2> HIDE DEF p
  <2>3. H!Delete(h, k) = [nodes |-> ns, size |-> h.size]
    <3>1. H!Delete(h, k) = [h EXCEPT !.nodes = ns]
      BY <1>2 DEF H!Delete, H!RemoveAt, p
    <3> HIDE DEF ns, hs
    <3> QED BY <2>1, <3>1
  <2>n. n = Len(hs)
    OBVIOUS
  <2> HIDE DEF hs, n
  <2>4. a \in Seq(Nodes(E)) /\ Len(a) = p - 1 /\ \A i \in 1 .. p - 1 : a[i] = hs[i]
    <3>1. p - 1 \in Nat /\ p - 1 <= n /\ \A i \in 1 .. p - 1 : i \in 1 .. n
      BY <2>1, <2>2
    <3> QED BY <2>1, <2>n, <3>1
  <2>5. b \in Seq(Nodes(E)) /\ Len(b) = n - p /\ \A i \in 1 .. n - p : b[i] = hs[p + i]
    <3>1. p + 1 \in Nat /\ n - p \in Nat /\ \A i \in 1 .. n - p : p + i \in 1 .. n
      BY <2>1, <2>2
    <3> QED BY <2>1, <2>2, <2>n, <3>1, SMTT(30)
  <2> HIDE DEF a, b
  <2>6. /\ ns \in Seq(Nodes(E)) /\ Len(ns) = Len(a) + Len(b)
        /\ \A i \in 1 .. Len(a) + Len(b) : ns[i] = IF i <= Len(a) THEN a[i] ELSE b[i - Len(a)]
    BY <2>4, <2>5, ConcatProperties
  <2> HIDE DEF ns
  <2>7. Len(ns) = n - 1 /\ n - 1 \in Nat
    BY <2>1, <2>2, <2>4, <2>5, <2>6
  <2>8. ASSUME NEW i \in 1 .. n - 1 PROVE from[i] \in 1 .. n /\ ns[i] = hs[from[i]]
    <3>1. CASE i < p
      <4>1. i \in 1 .. p - 1 /\ i <= p - 1 /\ i \in 1 .. n /\ i \in 1 .. Len(a) + Len(b)
        BY <2>1, <2>2, <2>6, <2>7, <3>1
      <4> QED BY <2>4, <2>6, <3>1, <4>1
    <3>2. CASE ~ (i < p)
      <4>1. i - (p - 1) \in 1 .. n - p /\ ~ (i <= p - 1) /\ p + (i - (p - 1)) = i + 1 /\ i + 1 \in 1 .. n
        BY <2>1, <2>2, <3>2
      <4>2. ns[i] = b[i - (p - 1)]
        BY <2>4, <2>6, <2>7, <4>1
      <4>3. b[i - (p - 1)] = hs[p + (i - (p - 1))]
        BY <2>5, <4>1
      <4> QED BY <3>2, <4>1, <4>2, <4>3
    <3> QED BY <3>1, <3>2
  <2>9. \A i, j \in 1 .. n - 1 : i # j => from[i] # from[j]
    BY <2>1, <2>2
  <2> HIDE DEF from
  <2>10. Len(ns) <= h.size
    BY <2>1, <2>7
  <2>11. Chosen(ns, h.nodes, from)
    <3>1. \A i \in 1 .. Len(ns) : from[i] \in 1 .. Len(h.nodes) /\ ns[i] = h.nodes[from[i]]
      BY <2>7, <2>8 DEF hs, n
    <3>2. \A i, j \in 1 .. Len(ns) : i # j => from[i] # from[j]
      BY <2>7, <2>9
    <3> QED BY <3>1, <3>2 DEF Chosen
  <2> DEFINE r == H!Delete(h, k)
  <2>12. r = [nodes |-> r.nodes, size |-> r.size] /\ r.nodes = ns /\ r.size = h.size
    BY <2>3
  <2> HIDE DEF r
  <2>13. HashSound(r, E, whole)
    BY <2>1, <2>6, <2>10, <2>11, <2>12, HashShrinks
  <2> QED BY <2>13 DEF r
<1> QED BY <1>1, <1>2

(* A hash is made pair by pair: there is a function that says what is made *)
(* of so many.                                                             *)
Hashing(s, n) == CHOOSE f : f = [i \in 0 .. n |-> IF i = 0 THEN H!Empty ELSE H!AppendPair(f[i - 1], s[i][1], s[i][2])]
LEMMA HashingIs ==
    ASSUME NEW s, NEW n \in Nat
    PROVE  LET F == Hashing(s, n)
           IN /\ F[0] = H!Empty
              /\ \A i \in 1 .. n : F[i] = H!AppendPair(F[i - 1], s[i][1], s[i][2])
<1> DEFINE Step(f, i) == IF i = 0 THEN H!Empty ELSE H!AppendPair(f[i - 1], s[i][1], s[i][2])
           bad == {a \in Nat : ~ (\E f : f = [i \in 0 .. a |-> Step(f, i)])}
<1>1. SUFFICES ASSUME bad # {} PROVE FALSE
  <2> DEFINE F == Hashing(s, n)
  <2>0. F = CHOOSE f : f = [i \in 0 .. n |-> Step(f, i)]
    BY DEF Hashing
  <2> HIDE DEF Step, F
  <2>1. n \notin bad
    BY <1>1
  <2>2. \E f : f = [i \in 0 .. n |-> Step(f, i)]
    BY <2>1
  <2>3. F = [i \in 0 .. n |-> Step(F, i)]
    BY <2>0, <2>2, Zenon
  <2>4. \A i \in 0 .. n : F[i] = Step(F, i)
    BY <2>3
  <2>5. 0 \in 0 .. n /\ \A i \in 1 .. n : i \in 0 .. n /\ i # 0
    OBVIOUS
  <2> QED BY <2>4, <2>5 DEF Step, F
<1>2. PICK a \in bad : \A b \in bad : a <= b
  <2>1. bad \in SUBSET Nat
    OBVIOUS
  <2> HIDE DEF bad
  <2> QED BY <1>1, <2>1, Least
<1>3. a \in Nat /\ ~ (\E f : f = [i \in 0 .. a |-> Step(f, i)])
  BY <1>2
<1>4. CASE a = 0
  <2> DEFINE g == [i \in 0 .. a |-> H!Empty]
  <2>1. \A i \in 0 .. a : g[i] = Step(g, i)
    BY <1>4
  <2>2. g = [i \in 0 .. a |-> g[i]]
    OBVIOUS
  <2> HIDE DEF g, Step
  <2>3. g = [i \in 0 .. a |-> Step(g, i)]
    BY <2>1, <2>2
  <2> QED BY <2>3, <1>3
<1>5. CASE a # 0
  <2>1. a - 1 \in Nat /\ ~ (a <= a - 1)
    BY <1>3, <1>5
  <2>2. a - 1 \notin bad
    BY <1>2, <2>1
  <2>3. PICK f : f = [i \in 0 .. a - 1 |-> Step(f, i)]
    BY <2>1, <2>2
  <2>4. \A i \in 0 .. a - 1 : f[i] = Step(f, i)
    <3> HIDE DEF Step
    <3> QED BY <2>3
  <2> DEFINE g == [i \in 0 .. a |-> IF i = a THEN Step(f, a) ELSE f[i]]
  <2>5. \A i \in 0 .. a : i # a => g[i] = f[i]
    BY <1>3
  <2>6. g[a] = Step(f, a)
    BY <1>3
  <2>7. g = [i \in 0 .. a |-> g[i]]
    OBVIOUS
  <2> HIDE DEF g
  <2>8. ASSUME NEW i \in 0 .. a PROVE g[i] = Step(g, i)
    <3>1. CASE i = a
      <4>1. g[a - 1] = f[a - 1]
        <5>1. a - 1 \in 0 .. a /\ a - 1 # a
          BY <1>3, <2>1
        <5> QED BY <5>1, <2>5
      <4> QED BY <1>5, <2>6, <3>1, <4>1
    <3>2. CASE i # a
      <4>1. i \in 0 .. a - 1 /\ (i # 0 => i - 1 \in 0 .. a /\ i - 1 # a)
        BY <1>3, <3>2
      <4>2. g[i] = f[i] /\ f[i] = Step(f, i) /\ (i # 0 => g[i - 1] = f[i - 1])
        BY <3>2, <4>1, <2>4, <2>5
      <4> QED BY <4>2
    <3> QED BY <3>1, <3>2
  <2> HIDE DEF Step
  <2>9. g = [i \in 0 .. a |-> Step(g, i)]
    BY <2>7, <2>8
  <2> QED BY <2>9, <1>3
<1> QED BY <1>4, <1>5

(* HASHMK makes a sound hash.                                              *)
LEMMA HashMade ==
    ASSUME NEW K, NEW E, K \subseteq E, Freed \notin E, NEW s \in Sequences(K \X E), NEW whole
    PROVE  HashSound(H!Make(s), E, whole)
<1> DEFINE n == Len(s)
           F == Hashing(s, n)
           bad == {i \in 0 .. n : ~HashSound(F[i], E, whole)}
<1>1. s \in Seq(K \X E) /\ n \in Nat /\ \A i \in 1 .. n : s[i][1] \in E /\ s[i][2] \in E
  <2>1. s \in Seq(K \X E) /\ n \in Nat
    BY BoundedIs
  <2>2. ASSUME NEW i \in 1 .. n PROVE s[i] \in K \X E
    BY <2>1, <2>2, ElementOfSeq
  <2> QED BY <2>1, <2>2
<1>2. H!Make(s) = F[n]
  BY DEF H!Make, Hashing
<1>3. F[0] = H!Empty /\ \A i \in 1 .. n : F[i] = H!AppendPair(F[i - 1], s[i][1], s[i][2])
  BY <1>1, HashingIs
<1> HIDE DEF F
<1>4. HashSound(H!Empty, E, whole)
  <2> DEFINE e == <<>>
  <2>1. e \in Seq(Nodes(E)) /\ Len(e) = 0
    OBVIOUS
  <2>3. \A i \in 1 .. 0 : FALSE
    OBVIOUS
  <2>4. 0 \in Nat /\ 0 >= Len(e) /\ (\A i, j \in 1 .. Len(e) : i # j => ~ObjectsEq(e[i].key, e[j].key))
        /\ (\A i \in 1 .. Len(e) : e[i].key # Freed)
    BY <2>1, <2>3
  <2> HIDE DEF e
  <2>2. HashSound([nodes |-> e, size |-> 0], E, whole)
    BY <2>1, <2>4, HashIs, Zenon
  <2> QED BY <2>2 DEF e, H!Empty
<1>5. bad = {}
  <2> SUFFICES ASSUME bad # {} PROVE FALSE
    OBVIOUS
  <2>1. bad \in SUBSET Nat
    OBVIOUS
  <2> HIDE DEF n
  <2>2. PICK i \in bad : \A j \in bad : i <= j
    <3> HIDE DEF bad
    <3> QED BY <2>1, Least
  <2>3. i \in 0 .. n /\ ~HashSound(F[i], E, whole)
    BY <2>2
  <2>4. i # 0
    BY <1>3, <1>4, <2>3
  <2>5. i - 1 \in 0 .. n /\ i \in 1 .. n /\ ~ (i <= i - 1)
    BY <1>1, <2>3, <2>4
  <2>6. HashSound(F[i - 1], E, whole)
    BY <2>2, <2>5
  <2>7. HashSound(H!AppendPair(F[i - 1], s[i][1], s[i][2]), E, whole)
    BY <1>1, <2>5, <2>6, HashAdds
  <2> QED BY <1>3, <2>3, <2>5, <2>7
<1>6. n \in 0 .. n
  BY <1>1
<1> QED BY <1>2, <1>5, <1>6

-----------------------------------------------------------------------------
(* The instructions on composite data.                                     *)

(* No value is a freed object, numbers are integers and values.            *)
LEMMA ValuesAre ==
    /\ Freed \notin Elements
    /\ program \in Programs => \A i \in Nums : i[2] \in Int
    /\ Nums \subseteq Elements
    /\ Values \subseteq Elements
<1>1. ASSUME NEW v \in Elements PROVE v # Freed
  <2>1. CASE v \in Nums
    <3>1. PICK n \in program.numbers : v = Num(n)
      BY <2>1 DEF Nums
    <3>2. v[1] = "num" /\ Freed[1] = "freed"
      BY <3>1 DEF Num, Freed
    <3> QED BY <3>2
  <2>2. CASE v \in Refs
    <3>1. PICK r \in DOMAIN heap : v = Ref(r)
      BY <2>2 DEF Refs
    <3>2. v[1] = "ref" /\ Freed[1] = "freed"
      BY <3>1 DEF Ref, Freed
    <3> QED BY <3>2
  <2>3. CASE v \in Ids
    <3>1. PICK x \in program.names : v = Id(x)
      BY <2>3 DEF Ids
    <3>2. v[1] = "id" /\ Freed[1] = "freed"
      BY <3>1 DEF Id, Freed
    <3> QED BY <3>2
  <2> QED BY <2>1, <2>2, <2>3 DEF Elements, Values
<1>2. ASSUME program \in Programs, NEW i \in Nums PROVE i[2] \in Int
  <2>1. PICK n \in program.numbers : i = Num(n)
    BY DEF Nums
  <2>2. i[2] = n
    BY <2>1 DEF Num
  <2>3. program.numbers \subseteq Int
    BY <1>2, DataAssumption
  <2> QED BY <2>2, <2>3
<1> QED BY <1>1, <1>2 DEF Elements, Values

(* The more values, the more sequences of them.                            *)
LEMMA MoreSequences ==
    ASSUME NEW few, NEW many, few \subseteq many
    PROVE  Sequences(few) \subseteq Sequences(many)
<1>1. ASSUME NEW m, NEW f \in [1 .. m -> few] PROVE f \in [1 .. m -> many]
  OBVIOUS
<1> QED BY <1>1 DEF Sequences, BoundedSeq, SeqOf

(* A step may change a structure, make one or leave all as they are.       *)
Sound == HeapSound /\ StatusSound
Weakens == careful' \in BOOLEAN /\ (careful' => careful) /\ program' = program
LEMMA OutcomesKeep ==
    ASSUME HeapSound, program \in Programs, Weakens
    PROVE  /\ \A pushed : Push(pushed) => Sound'
           /\ Fails => Sound'
           /\ Undefined /\ ~careful' => Sound'
           /\ \A kind, data, whole : Create(kind, data) /\ DataSound(kind, data, Elements, whole)
                                     /\ (careful' => whole) => Sound'
           /\ \A v \in Elements \cup Tuples : \A kind, data, pushed, whole :
                IsA(v, kind) /\ Change(v, data, pushed) /\ DataSound(kind, data, Elements, whole)
                /\ (careful' => whole) => Sound'
<1>0. program.cells \in Nat /\ careful' \in BOOLEAN /\ (careful' => careful) /\ program' = program
  BY DataAssumption DEF Weakens
<1>1. ASSUME NEW pushed, Push(pushed) PROVE Sound'
  BY <1>0, <1>1, UnchangedKeeps DEF Push, Sound, StatusSound
<1>2. ASSUME Fails PROVE Sound'
  BY <1>0, <1>2, UnchangedKeeps DEF Fails, Sound, StatusSound
<1>3. ASSUME Undefined, ~careful' PROVE Sound'
  BY <1>0, <1>3, UnchangedKeeps DEF Undefined, Sound, StatusSound
<1>4. ASSUME NEW kind, NEW data, NEW whole, Create(kind, data), DataSound(kind, data, Elements, whole),
             careful' => whole
      PROVE  Sound'
  <2>1. DataSound(kind, data, Elements, careful')
    BY <1>4, SoundStays
  <2> QED BY <1>0, <1>4, <2>1, CreateKeeps DEF Sound, StatusSound
<1>5. ASSUME NEW v \in Elements \cup Tuples, NEW kind, NEW data, NEW pushed, NEW whole, IsA(v, kind),
             Change(v, data, pushed), DataSound(kind, data, Elements, whole), careful' => whole
      PROVE  Sound'
  <2>1. DataSound(kind, data, Elements, careful')
    BY <1>5, SoundStays
  <2> QED BY <1>0, <1>5, <2>1, ChangeKeeps DEF Sound, StatusSound
<1> QED BY <1>1, <1>2, <1>3, <1>4, <1>5

(* What a handle leads to is sound as its kind says.                       *)
LEMMA HandlesAre ==
    ASSUME HeapSound, NEW v \in Elements \cup Tuples
    PROVE  /\ IsA(v, "list") => ListSound(DataOf(v), Elements, careful)
           /\ IsA(v, "array") => ArraySound(DataOf(v), Elements)
           /\ IsA(v, "hash") => HashSound(DataOf(v), Elements, careful)
           /\ IsA(v, "pair") => DataOf(v) \in [car : Elements, cdr : Elements]
<1>1. ASSUME IsA(v, "list") PROVE ListSound(DataOf(v), Elements, careful)
  <2>1. DataSound("list", DataOf(v), Elements, careful)
    BY <1>1, HandleIs
  <2> QED BY <2>1 DEF DataSound
<1>2. ASSUME IsA(v, "array") PROVE ArraySound(DataOf(v), Elements)
  <2>1. DataSound("array", DataOf(v), Elements, careful)
    BY <1>2, HandleIs
  <2> QED BY <2>1 DEF DataSound
<1>3. ASSUME IsA(v, "hash") PROVE HashSound(DataOf(v), Elements, careful)
  <2>1. DataSound("hash", DataOf(v), Elements, careful)
    BY <1>3, HandleIs
  <2> QED BY <2>1 DEF DataSound
<1>4. ASSUME IsA(v, "pair") PROVE DataOf(v) \in [car : Elements, cdr : Elements]
  <2>1. DataSound("pair", DataOf(v), Elements, careful)
    BY <1>4, HandleIs
  <2> QED BY <2>1 DEF DataSound
<1> QED BY <1>1, <1>2, <1>3, <1>4

(* The instructions any program may use.                                   *)
LEMMA DataSteps1 ==
    ASSUME HeapSound, program \in Programs, Weakens
    PROVE  /\ LSTMK \/ ARRMK \/ HASHMK \/ PAIRMK \/ TUPMK => Sound'
           /\ LSTCAR \/ ARRCAR \/ LSTUNPACKR \/ SIZE => Sound'
           /\ LSTADD \/ LSTADDH \/ ARRADD => Sound'
           /\ PAIRCARSET \/ PAIRCDRSET \/ LSTCDRSET => Sound'
<1>p. /\ \A pushed : Push(pushed) => Sound'
      /\ Fails => Sound'
  BY OutcomesKeep
<1>c. \A kind, data, whole : Create(kind, data) /\ DataSound(kind, data, Elements, whole)
                             /\ (careful' => whole) => Sound'
  BY OutcomesKeep
<1>m. \A v \in Elements \cup Tuples : \A kind, data, pushed, whole :
          IsA(v, kind) /\ Change(v, data, pushed) /\ DataSound(kind, data, Elements, whole)
          /\ (careful' => whole) => Sound'
  BY OutcomesKeep
<1>w. careful' => careful
  BY DEF Weakens
<1>v. Values \subseteq Elements
  BY ValuesAre
<1>s. /\ Sequences(Values) \subseteq Sequences(Elements)
      /\ Sequences(Nums \X Values) \subseteq Sequences(Nums \X Elements)
  <2>1. Nums \X Values \subseteq Nums \X Elements
    BY <1>v
  <2> QED BY <1>v, <2>1, MoreSequences
<1>1. ASSUME LSTMK PROVE Sound'
  <2>1. PICK s \in Sequences(Elements) : Create("list", L!Make(s))
    BY <1>s, <1>1 DEF LSTMK
  <2>2. DataSound("list", L!Make(s), Elements, careful)
    BY ListMade DEF DataSound
  <2> QED BY <1>c, <1>w, <2>1, <2>2
<1>2. ASSUME ARRMK PROVE Sound'
  <2>1. PICK s \in Sequences(Elements) : Create("array", A!Make(s))
    BY <1>s, <1>2 DEF ARRMK
  <2>2. DataSound("array", A!Make(s), Elements, careful)
    BY ArrayMade DEF DataSound
  <2> QED BY <1>c, <1>w, <2>1, <2>2
<1>3. ASSUME HASHMK PROVE Sound'
  <2>1. PICK s \in Sequences(Nums \X Elements) : Create("hash", H!Make(s))
    BY <1>s, <1>3 DEF HASHMK
  <2>2. DataSound("hash", H!Make(s), Elements, careful)
    BY HashMade, ValuesAre DEF DataSound
  <2> QED BY <1>c, <1>w, <2>1, <2>2
<1>4. ASSUME PAIRMK PROVE Sound'
  <2>1. PICK car \in Elements, cdr \in Elements : Create("pair", [car |-> car, cdr |-> cdr])
    BY <1>4 DEF PAIRMK
  <2>2. DataSound("pair", [car |-> car, cdr |-> cdr], Elements, careful)
    BY DEF DataSound
  <2> QED BY <1>c, <1>w, <2>1, <2>2
<1>5. TUPMK => Sound'
  BY <1>p DEF TUPMK
<1>6. LSTCAR => Sound'
  BY <1>p DEF LSTCAR
<1>7. ARRCAR => Sound'
  BY <1>p DEF ARRCAR
<1>8. LSTUNPACKR => Sound'
  BY <1>p DEF LSTUNPACKR
<1>9. SIZE => Sound'
  BY <1>p DEF SIZE
<1>10. ASSUME LSTADD \/ LSTADDH PROVE Sound'
  <2>1. PICK v \in Elements, e \in Elements :
          IF IsA(v, "list")
          THEN /\ DataOf(v).size < MaxLen
               /\ \/ Change(v, L!AppendTail(DataOf(v), e), <<v>>)
                  \/ Change(v, L!AppendHead(DataOf(v), e), <<>>)
          ELSE Fails
    BY <1>v, <1>10 DEF LSTADD, LSTADDH
  <2>2. CASE ~IsA(v, "list")
    BY <1>p, <2>1, <2>2
  <2>3. CASE IsA(v, "list")
    <3>1. ListSound(DataOf(v), Elements, careful)
      BY <2>3, HandlesAre
    <3>2. /\ DataSound("list", L!AppendTail(DataOf(v), e), Elements, careful)
          /\ DataSound("list", L!AppendHead(DataOf(v), e), Elements, careful)
      BY <2>1, <2>3, <3>1, ListAppends DEF DataSound
    <3> QED BY <1>m, <1>w, <2>1, <2>3, <3>2
  <2> QED BY <2>2, <2>3
<1>11. ASSUME ARRADD PROVE Sound'
  <2>1. PICK v \in Elements, e \in Elements :
          IF IsA(v, "array") THEN Change(v, A!AppendTail(DataOf(v), e), <<v>>) ELSE Fails
    BY <1>v, <1>11 DEF ARRADD
  <2>2. CASE ~IsA(v, "array")
    BY <1>p, <2>1, <2>2
  <2>3. CASE IsA(v, "array")
    <3>1. DataSound("array", A!AppendTail(DataOf(v), e), Elements, careful)
      BY <2>3, HandlesAre, ArrayAppends DEF DataSound
    <3> QED BY <1>m, <1>w, <2>1, <2>3, <3>1
  <2> QED BY <2>2, <2>3
<1>12. ASSUME PAIRCARSET \/ PAIRCDRSET PROVE Sound'
  <2>1. PICK v \in Elements, e \in Elements :
          IF IsA(v, "pair")
          THEN \/ Change(v, [DataOf(v) EXCEPT !.car = e], <<v>>)
               \/ Change(v, [DataOf(v) EXCEPT !.cdr = e], <<v>>)
          ELSE Fails
    BY <1>v, <1>12 DEF PAIRCARSET, PAIRCDRSET
  <2>2. CASE ~IsA(v, "pair")
    BY <1>p, <2>1, <2>2
  <2>3. CASE IsA(v, "pair")
    <3> DEFINE d == DataOf(v)
    <3>1. d \in [car : Elements, cdr : Elements]
      BY <2>3, HandlesAre
    <3> HIDE DEF d
    <3>2. /\ DataSound("pair", [d EXCEPT !.car = e], Elements, careful)
          /\ DataSound("pair", [d EXCEPT !.cdr = e], Elements, careful)
      BY <3>1 DEF DataSound
    <3> QED BY <1>m, <1>w, <2>1, <2>3, <3>2 DEF d
  <2> QED BY <2>2, <2>3
<1>13. ASSUME LSTCDRSET PROVE Sound'
  <2>1. PICK v \in Elements, e \in Elements :
          IF IsA(v, "list") /\ DataOf(v).size # 0
          THEN Create("pair", [car |-> L!RefGet(DataOf(v), 0), cdr |-> e])
          ELSE Fails
    BY <1>v, <1>13 DEF LSTCDRSET
  <2>2. CASE ~ (IsA(v, "list") /\ DataOf(v).size # 0)
    BY <1>p, <2>1, <2>2
  <2>3. CASE IsA(v, "list") /\ DataOf(v).size # 0
    <3> DEFINE x == L!RefGet(DataOf(v), 0)
    <3>1. x \in Elements
      BY <2>3, HandlesAre, ListReads, ValuesAre
    <3> HIDE DEF x
    <3>2. DataSound("pair", [car |-> x, cdr |-> e], Elements, careful)
      BY <3>1 DEF DataSound
    <3>3. Create("pair", [car |-> x, cdr |-> e])
      BY <2>1, <2>3 DEF x
    <3> QED BY <1>c, <1>w, <3>2, <3>3
  <2> QED BY <2>2, <2>3
<1> QED BY <1>1, <1>2, <1>3, <1>4, <1>5, <1>6, <1>7, <1>8, <1>9, <1>10, <1>11, <1>12, <1>13

(* The instructions that a careful program does without or has to rely on  *)
(* its care for: what they may cut or leave stale is cut or stale only     *)
(* after careful is given up.                                              *)
LEMMA DataSteps2 ==
    ASSUME HeapSound, program \in Programs, Weakens, careful' = (careful /\ ~Risky)
    PROVE  /\ LSTCDR \/ ARRCDR \/ HASHCAR \/ HASHCDR \/ PAIRCAR => Sound'
           /\ REFGET \/ REFSET \/ LSTUNPACK => Sound'
           /\ HASHADD \/ HASHDEL \/ HASHHASKEY => Sound'
<1>p. /\ \A pushed : Push(pushed) => Sound'
      /\ Fails => Sound'
      /\ Undefined /\ ~careful' => Sound'
  BY OutcomesKeep
<1>c. \A kind, data, whole : Create(kind, data) /\ DataSound(kind, data, Elements, whole)
                             /\ (careful' => whole) => Sound'
  BY OutcomesKeep
<1>m. \A v \in Elements \cup Tuples : \A kind, data, pushed, whole :
          IsA(v, kind) /\ Change(v, data, pushed) /\ DataSound(kind, data, Elements, whole)
          /\ (careful' => whole) => Sound'
  BY OutcomesKeep
<1>w. careful' => careful
  BY DEF Weakens
<1>v. Values \subseteq Elements
  BY ValuesAre
<1>u. ASSUME NEW v \in Elements \cup Tuples, IsA(v, "hash"), NEW k, H!Unsafe(DataOf(v), k), Undefined
      PROVE  Sound'
  <2>1. ~careful
    BY <1>u, HandlesAre, HashFinds
  <2> QED BY <1>p, <1>u, <1>w, <2>1
<1>1. ASSUME LSTCDR PROVE Sound'
  <2>1. PICK v \in Elements :
          /\ Instr("LSTCDR", <<v>>)
          /\ IF IsA(v, "list") /\ DataOf(v).size # 0 THEN Create("list", L!Cdr(DataOf(v)))
             ELSE IF IsA(v, "pair") THEN Push(<<PairCdr(v)>>)
             ELSE Fails
    BY <1>v, <1>1 DEF LSTCDR
  <2>2. ~careful'
    <3>1. instr'[1] = "LSTCDR"
      BY <2>1 DEF Instr
    <3> QED BY <3>1 DEF Risky
  <2>3. CASE IsA(v, "list") /\ DataOf(v).size # 0
    <3>1. DataSound("list", L!Cdr(DataOf(v)), Elements, FALSE)
      BY <2>3, HandlesAre, ListCdr DEF DataSound
    <3> QED BY <1>c, <2>1, <2>2, <2>3, <3>1
  <2>4. CASE ~ (IsA(v, "list") /\ DataOf(v).size # 0)
    BY <1>p, <2>1, <2>4
  <2> QED BY <2>3, <2>4
<1>2. ASSUME ARRCDR PROVE Sound'
  <2>1. PICK v \in Elements :
          /\ Instr("ARRCDR", <<v>>)
          /\ IF ~IsA(v, "array") THEN Undefined
             ELSE IF DataOf(v).size = 0 THEN Fails
             ELSE IF A!CloneFits(DataOf(v)) THEN Create("array", A!Cdr(DataOf(v)))
             ELSE Undefined
    BY <1>v, <1>2 DEF ARRCDR
  <2>2. ~careful'
    <3>1. instr'[1] = "ARRCDR"
      BY <2>1 DEF Instr
    <3> QED BY <3>1 DEF Risky
  <2>3. CASE IsA(v, "array") /\ DataOf(v).size # 0 /\ A!CloneFits(DataOf(v))
    <3>1. DataSound("array", A!Cdr(DataOf(v)), Elements, FALSE)
      BY <2>3, HandlesAre, ArrayCdr DEF DataSound
    <3> QED BY <1>c, <2>1, <2>2, <2>3, <3>1
  <2>4. CASE ~ (IsA(v, "array") /\ DataOf(v).size # 0 /\ A!CloneFits(DataOf(v)))
    BY <1>p, <2>1, <2>2, <2>4
  <2> QED BY <2>3, <2>4
<1>3. ASSUME PAIRCAR PROVE Sound'
  <2>1. PICK v \in Elements \cup Tuples : Instr("PAIRCAR", <<v>>) /\ Undefined
    BY <1>v, <1>3 DEF PAIRCAR
  <2>2. instr'[1] = "PAIRCAR"
    BY <2>1 DEF Instr
  <2>3. ~careful'
    BY <2>2 DEF Risky
  <2> QED BY <1>p, <2>1, <2>3
<1>4. ASSUME HASHCAR PROVE Sound'
  <2>1. PICK v \in Elements :
          /\ Instr("HASHCAR", <<v>>)
          /\ (\E pushed : Push(pushed)) \/ Undefined
    BY <1>v, <1>4 DEF HASHCAR
  <2>2. instr'[1] = "HASHCAR"
    BY <2>1 DEF Instr
  <2>3. ~careful'
    BY <2>2 DEF Risky
  <2> QED BY <1>p, <2>1, <2>3
<1>5. ASSUME HASHCDR PROVE Sound'
  <2>1. PICK v \in Elements :
          /\ Instr("HASHCDR", <<v>>)
          /\ IF ~IsA(v, "hash") THEN Undefined
             ELSE IF DataOf(v).nodes = <<>> THEN Fails
             ELSE IF H!Car(DataOf(v)) = Freed THEN Undefined
             ELSE Change(v, H!Cdr(DataOf(v)), <<v>>)
    BY <1>v, <1>5 DEF HASHCDR
  <2>2. instr'[1] = "HASHCDR"
    BY <2>1 DEF Instr
  <2>3. ~careful'
    BY <2>2 DEF Risky
  <2>4. CASE IsA(v, "hash") /\ DataOf(v).nodes # <<>>
    <3>1. DataSound("hash", H!Cdr(DataOf(v)), Elements, careful)
      BY <2>4, HandlesAre, HashCuts DEF DataSound
    <3> QED BY <1>m, <1>p, <1>w, <2>1, <2>3, <2>4, <3>1
  <2>5. CASE ~ (IsA(v, "hash") /\ DataOf(v).nodes # <<>>)
    BY <1>p, <2>1, <2>3, <2>5
  <2> QED BY <2>4, <2>5
<1>6. ASSUME REFGET PROVE Sound'
  <2>1. PICK v \in Elements \cup Tuples, i \in Elements :
          \/ \E pushed : Push(pushed)
          \/ Fails
          \/ IsA(v, "hash") /\ H!Unsafe(DataOf(v), i) /\ Undefined
    BY <1>v, <1>6 DEF REFGET
  <2> QED BY <1>p, <1>u, <2>1
<1>7. ASSUME REFSET PROVE Sound'
  <2>1. PICK v \in Elements \cup Tuples, i \in Elements, e \in Elements :
          /\ Instr("REFSET", <<v, i, e>>)
          /\ \/ /\ IsA(v, "list")
                /\ IF i \in Nums /\ L!InBounds(DataOf(v), i[2])
                   THEN Change(v, L!RefSet(DataOf(v), i[2], e), <<Freed>>)
                   ELSE Fails
             \/ /\ IsA(v, "array")
                /\ IF i \in Nums /\ A!InBounds(DataOf(v), i[2])
                   THEN Change(v, A!RefSet(DataOf(v), i[2], e), <<Freed>>)
                   ELSE Fails
             \/ /\ v \in Tuples
                /\ IF TupleHas(v, i) THEN Push(<<Freed>>) ELSE Fails
             \/ /\ IsA(v, "hash")
                /\ IF DataOf(v).size = 0 THEN Fails
                   ELSE IF H!Unsafe(DataOf(v), i) THEN Undefined
                   ELSE /\ DataOf(v).size < MaxLen \/ H!Exists(DataOf(v), i)
                        /\ Change(v, H!RefSet(DataOf(v), i, e), <<Freed>>)
             \/ (v \in Nums \/ IsA(v, "pair")) /\ Fails
    BY <1>v, <1>7, ZenonT(60) DEF REFSET
  <2>2. CASE Push(<<Freed>>) \/ Fails
    BY <1>p, <2>2
  <2>3. CASE IsA(v, "hash") /\ H!Unsafe(DataOf(v), i) /\ Undefined
    BY <1>u, <2>3
  <2>4. CASE /\ IsA(v, "list")
             /\ IF i \in Nums /\ L!InBounds(DataOf(v), i[2])
                THEN Change(v, L!RefSet(DataOf(v), i[2], e), <<Freed>>)
                ELSE Fails
    <3>1. CASE i \in Nums /\ L!InBounds(DataOf(v), i[2])
      <4>1. i[2] \in Int /\ ListSound(DataOf(v), Elements, careful)
        BY <2>4, <3>1, HandlesAre, ValuesAre
      <4>2. DataSound("list", L!RefSet(DataOf(v), i[2], e), Elements, careful)
        BY <3>1, <4>1, ListSet DEF DataSound
      <4> QED BY <1>m, <1>w, <2>4, <3>1, <4>2
    <3> QED BY <1>p, <2>4, <3>1
  <2>5. CASE /\ IsA(v, "array")
             /\ IF i \in Nums /\ A!InBounds(DataOf(v), i[2])
                THEN Change(v, A!RefSet(DataOf(v), i[2], e), <<Freed>>)
                ELSE Fails
    <3>1. CASE i \in Nums /\ A!InBounds(DataOf(v), i[2])
      <4>1. i[2] \in Int /\ ArraySound(DataOf(v), Elements)
        BY <2>5, <3>1, HandlesAre, ValuesAre
      <4>2. DataSound("array", A!RefSet(DataOf(v), i[2], e), Elements, careful)
        BY <3>1, <4>1, ArraySet DEF DataSound
      <4> QED BY <1>m, <1>w, <2>5, <3>1, <4>2
    <3> QED BY <1>p, <2>5, <3>1
  <2>6. CASE IsA(v, "hash") /\ Change(v, H!RefSet(DataOf(v), i, e), <<Freed>>)
    <3>1. HashSound(DataOf(v), Elements, careful)
      BY <2>6, HandlesAre
    <3>2. /\ H!Exists(DataOf(v), i) => DataSound("hash", H!RefSet(DataOf(v), i, e), Elements, careful)
          /\ DataSound("hash", H!RefSet(DataOf(v), i, e), Elements, FALSE)
      BY <3>1, HashAdds, ValuesAre DEF DataSound
    <3>3. CASE H!Exists(DataOf(v), i)
      BY <1>m, <1>w, <2>6, <3>2, <3>3
    <3>4. CASE ~H!Exists(DataOf(v), i)
      <4>1. instr'[1] = "REFSET" /\ instr'[2][1] = v /\ instr'[2][2] = i
        BY <2>1 DEF Instr
      <4>2. ~careful'
        BY <2>6, <3>4, <4>1 DEF Risky
      <4> QED BY <1>m, <2>6, <3>2, <4>2
    <3> QED BY <3>3, <3>4
  <2>7. CASE /\ v \in Tuples
             /\ IF TupleHas(v, i) THEN Push(<<Freed>>) ELSE Fails
    BY <2>2, <2>7
  <2>8. CASE /\ IsA(v, "hash")
             /\ IF DataOf(v).size = 0 THEN Fails
                ELSE IF H!Unsafe(DataOf(v), i) THEN Undefined
                ELSE /\ DataOf(v).size < MaxLen \/ H!Exists(DataOf(v), i)
                     /\ Change(v, H!RefSet(DataOf(v), i, e), <<Freed>>)
    BY <2>2, <2>3, <2>6, <2>8
  <2> QED BY <2>1, <2>2, <2>4, <2>5, <2>7, <2>8
<1>8. ASSUME LSTUNPACK PROVE Sound'
  <2>1. PICK v \in Elements :
          \/ \E pushed : Push(pushed)
          \/ Fails
          \/ IsA(v, "list") /\ L!Cut(DataOf(v)) /\ Undefined
    BY <1>v, <1>8 DEF LSTUNPACK
  <2>2. IsA(v, "list") /\ L!Cut(DataOf(v)) => ~careful
    BY HandlesAre, ListReads, ValuesAre
  <2> QED BY <1>p, <1>w, <2>1, <2>2
<1>9. ASSUME HASHADD PROVE Sound'
  <2>1. PICK v \in Elements, k \in Elements, e \in Elements :
          IF ~IsA(v, "hash") THEN Fails
          ELSE IF H!Unsafe(DataOf(v), k) THEN Undefined
          ELSE Change(v, H!AppendPair(DataOf(v), k, e), <<v>>)
    BY <1>v, <1>9 DEF HASHADD
  <2>2. CASE ~IsA(v, "hash")
    BY <1>p, <2>1, <2>2
  <2>3. CASE IsA(v, "hash")
    <3>1. DataSound("hash", H!AppendPair(DataOf(v), k, e), Elements, careful)
      BY <2>3, HandlesAre, HashAdds, ValuesAre DEF DataSound
    <3> QED BY <1>m, <1>u, <1>w, <2>1, <2>3, <3>1
  <2> QED BY <2>2, <2>3
<1>10. ASSUME HASHDEL PROVE Sound'
  <2>1. PICK v \in Elements, k \in Elements :
          IF ~IsA(v, "hash") THEN Fails
          ELSE IF H!Unsafe(DataOf(v), k) THEN Undefined
          ELSE Change(v, H!Delete(DataOf(v), k), <<v>>)
    BY <1>v, <1>10 DEF HASHDEL
  <2>2. CASE ~IsA(v, "hash")
    BY <1>p, <2>1, <2>2
  <2>3. CASE IsA(v, "hash")
    <3>1. DataSound("hash", H!Delete(DataOf(v), k), Elements, careful)
      BY <2>3, HandlesAre, HashDeletes DEF DataSound
    <3> QED BY <1>m, <1>u, <1>w, <2>1, <2>3, <3>1
  <2> QED BY <2>2, <2>3
<1>11. ASSUME HASHHASKEY PROVE Sound'
  <2>1. PICK v \in Elements, k \in Elements :
          \/ \E pushed : Push(pushed)
          \/ Fails
          \/ IsA(v, "hash") /\ H!Unsafe(DataOf(v), k) /\ Undefined
    BY <1>v, <1>11 DEF HASHHASKEY
  <2> QED BY <1>p, <1>u, <2>1
<1> QED BY <1>1, <1>2, <1>3, <1>4, <1>5, <1>6, <1>7, <1>8, <1>9, <1>10, <1>11

(* An instruction on composite data keeps structures and flags sound.      *)
LEMMA DataStepKeeps ==
    ASSUME HeapSound, StatusSound, program \in Programs, Next
    PROVE  Sound'
<1>1. careful' = (careful /\ ~Risky) /\ program' = program
  BY DEF Next
<1>2. Weakens
  BY <1>1 DEF Weakens
<1> QED BY <1>1, <1>2, DataSteps1, DataSteps2 DEF Next
-----------------------------------------------------------------------------
(* The inductive invariant: what structures, stack and flags are like      *)
(* between two instructions.                                               *)
MachineSound ==
    /\ program \in Programs
    /\ HeapSound
    /\ StatusSound
    /\ StackSound
    /\ FateSound

(* In the beginning there is nothing that could be unsound.                *)
LEMMA MachineStartsSound == MachineInit => MachineSound
<1> SUFFICES ASSUME MachineInit PROVE MachineSound
  OBVIOUS
<1>1. heap = <<>> /\ status = "running" /\ program \in Programs /\ careful = TRUE /\ stack = C!EmptyStack /\ fate = "running"
  BY DEF MachineInit, Init
<1>2. HeapSound
  <2>1. program.cells \in Nat
    BY <1>1, DataAssumption
  <2>2. heap \in Seq({}) /\ Len(heap) = 0 /\ \A r \in 1 .. 0 : FALSE
    BY <1>1
  <2> QED BY <2>1, <2>2 DEF HeapSound
<1>3. StackSound
  BY <1>1, EmptyIs DEF StackSound
<1> QED BY <1>1, <1>2, <1>3 DEF MachineSound, StatusSound, FateSound

(* Every instruction keeps the invariant.                                  *)
LEMMA MachineStaysSound == MachineSound /\ [MachineNext]_machine => MachineSound'
<1> SUFFICES ASSUME MachineSound, [MachineNext]_machine PROVE MachineSound'
  OBVIOUS
<1>1. CASE UNCHANGED machine
  BY <1>1, UnchangedKeeps DEF machine, vars, MachineSound, StatusSound, StackSound, FateSound
<1>2. CASE StackStep
  <2>1. /\ heap' = heap /\ status' = status /\ program' = program
        /\ careful' = (careful /\ ~Dangerous)
    BY <1>2 DEF StackStep
  <2>2. StackSound' /\ FateSound'
    BY <1>2, StackStepKeeps DEF MachineSound
  <2> QED BY <2>1, <2>2, UnchangedKeeps DEF MachineSound, StatusSound
<1>3. CASE DataStep
  <2>1. Next /\ stack' = stack /\ fate' = fate /\ program' = program /\ careful' = (careful /\ ~Risky)
    BY <1>3 DEF DataStep, Next
  <2>2. Sound'
    BY <2>1, DataStepKeeps DEF MachineSound
  <2>3. StackSound' /\ FateSound'
    BY <2>1, Weaker DEF MachineSound, StackSound, FateSound
  <2> QED BY <2>1, <2>2, <2>3 DEF MachineSound, Sound
<1> QED BY <1>1, <1>2, <1>3 DEF MachineNext

(* The invariant says what the properties say.                             *)
LEMMA SoundIsConsistent ==
    ASSUME MachineSound
    PROVE  Consistent /\ CarefulProgramsSafe
<1>0. DOMAIN heap = 1 .. Len(heap)
  BY LenProperties DEF MachineSound, HeapSound
<1>1. CarefulProgramsSafe
  BY DEF CarefulProgramsSafe, MachineSound, StatusSound, FateSound
<1>2. CollectorSeesStack
  BY WalksAgree DEF CollectorSeesStack, MachineSound, StackSound
<1>3. ASSUME NEW r \in DOMAIN heap PROVE IsData(heap[r])
  <2>1. DataSound(heap[r].kind, heap[r].data, Elements, careful)
    BY <1>0 DEF MachineSound, HeapSound
  <2> DEFINE kind == heap[r].kind
             data == heap[r].data
  <2>2. CASE kind = "list" /\ ListSound(data, Elements, careful)
    <3>1. data.size \in 0 .. MaxLen
      BY <2>2, DataAssumption, LenProperties DEF ListSound
    <3> QED BY <2>2, <3>1 DEF IsData, ListSound
  <2>3. CASE kind = "array" /\ ArraySound(data, Elements)
    BY <2>3 DEF IsData, ArraySound
  <2>4. CASE kind = "hash" /\ HashSound(data, Elements, careful)
    BY <2>4 DEF IsData, HashSound
  <2>5. CASE kind = "pair" /\ data \in [car : Elements, cdr : Elements]
    BY <2>5 DEF IsData
  <2> QED BY <2>1, <2>2, <2>3, <2>4, <2>5 DEF DataSound
<1>4. TypeOK
  BY <1>3 DEF TypeOK, MachineSound, HeapSound, StatusSound
<1>5. \A kind : \A v \in Of(kind) : v \in Elements /\ IsA(v, kind)
  BY DEF Of, Elements, Values
<1>6. ChainsAgree
  <2> SUFFICES ASSUME NEW v \in Of("list")
               PROVE  /\ DataOf(v).size = Len(DataOf(v).next)
                      /\ Reverse(DataOf(v).prev) = IF L!Cut(DataOf(v)) THEN <<Freed>> \o DataOf(v).next ELSE DataOf(v).next
    BY DEF ChainsAgree
  <2>1. ListSound(DataOf(v), Elements, careful)
    BY <1>5, HandlesAre DEF MachineSound
  <2>2. DataOf(v).size = Len(DataOf(v).next)
    BY <2>1 DEF ListSound
  <2> QED BY <2>1, <2>2, ListReads, ValuesAre
<1>7. ArrayFits
  <2> SUFFICES ASSUME NEW v \in Of("array")
               PROVE  /\ DataOf(v).pos + DataOf(v).size <= DataOf(v).capacity
                      /\ \A i \in A!Live(DataOf(v)) : DataOf(v).nodes[i] \in Elements
    BY DEF ArrayFits
  <2>1. ArraySound(DataOf(v), Elements)
    BY <1>5, HandlesAre DEF MachineSound
  <2> QED BY <2>1 DEF ArraySound
<1>8. KeysOnce
  <2> SUFFICES ASSUME NEW v \in Of("hash")
               PROVE  /\ DataOf(v).size >= Len(DataOf(v).nodes)
                      /\ \A i, j \in DOMAIN DataOf(v).nodes : i # j => ~ObjectsEq(DataOf(v).nodes[i].key, DataOf(v).nodes[j].key)
    BY DEF KeysOnce
  <2>1. HashSound(DataOf(v), Elements, careful)
    BY <1>5, HandlesAre DEF MachineSound
  <2> QED BY <2>1, HashHas
<1> QED BY <1>1, <1>2, <1>4, <1>6, <1>7, <1>8 DEF Consistent

(* The invariant holds of every behaviour.                                 *)
LEMMA MachineAlwaysSound == MachineSpec => []MachineSound
BY MachineStartsSound, MachineStaysSound, PTL DEF MachineSpec

(* Structures and stack stay consistent (Consistent), whatever a program   *)
(* does, careful or not, with any number of structures, literals and steps:*)
(* chains read the same both ways up to a freed node, arrays keep to their *)
(* blocks, keys occur once, and the collector reaches the whole stack of a *)
(* careful program (vm/vm_object_list.c:580, vm/vm_object_array.c:608,     *)
(* vm/vm_object_hash.c:288, gc/vm_gc.c:126).                               *)
THEOREM StaysConsistent == MachineSpec => []Consistent
BY MachineAlwaysSound, SoundIsConsistent, PTL

(* A careful program is never led into undefined behaviour by any sequence *)
(* of instructions (CarefulProgramsSafe, vm/vm_cpu_composite_ds.c:33,      *)
(* vm/vm_cpu_alu.c:157).                                                   *)
THEOREM CarefulStaysSafe == MachineSpec => []CarefulProgramsSafe
BY MachineAlwaysSound, SoundIsConsistent, PTL
=============================================================================
