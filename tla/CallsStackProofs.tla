-------------------------- MODULE CallsStackProofs --------------------------
(* Proofs about the running stack of Calls.tla, the lemmas that            *)
(* CallsProofs.tla rests on. The pointers of the frames are described by   *)
(* two functions: own gives the list each frame is in, pos its place       *)
(* there. Whole says that the pointers, ends and counters are what own and *)
(* pos make them; each operation of RunningStack.tla is shown to keep a    *)
(* stack whole, and to do to the list of running frames what its name says *)
(* (Runs). Fares sums up what an instruction does to a stack whose frames  *)
(* are fine.                                                               *)
EXTENDS Calls, FiniteSetTheorems, SequenceTheorems, TLAPS

(* A frame is the record that its fields make up.                          *)
IsFrame(f) ==
    f = [start |-> f.start, pc |-> f.pc, args |-> f.args, trapPc |-> f.trapPc, trapOn |-> f.trapOn,
         env |-> f.env, stack |-> f.stack, gBegin |-> f.gBegin, gEnd |-> f.gEnd, gSize |-> f.gSize,
         next |-> f.next, prev |-> f.prev]

(* What a frame has besides the pointers that link it.                     *)
Content(f) == [start |-> f.start, pc |-> f.pc, args |-> f.args, trapPc |-> f.trapPc, trapOn |-> f.trapOn,
            env |-> f.env, stack |-> f.stack]

(* A stack of finitely many frames, numbered from 1.                       *)
IsStack(s) == /\ s = [frame |-> s.frame, bottom |-> s.bottom, top |-> s.top, size |-> s.size]
              /\ s.frame = [i \in DOMAIN s.frame |-> s.frame[i]]
              /\ \A i \in DOMAIN s.frame : IsFrame(s.frame[i])
              /\ IsFiniteSet(DOMAIN s.frame) /\ DOMAIN s.frame \subseteq Nat \ {0}

(* A frame is on the running stack (owner Nil) or in the list of           *)
(* generators of another frame.                                            *)
Owners(s) == DOMAIN s.frame \cup {Nil}

(* The two ends of the list of an owner, and its counter.                  *)
First(s, o) == (IF o = Nil THEN s.bottom ELSE s.frame[o].gBegin)
Final(s, o) == (IF o = Nil THEN s.top ELSE s.frame[o].gEnd)
Count(s, o) == (IF o = Nil THEN s.size ELSE s.frame[o].gSize)

(* The list of o, of the frames in `in', has its ends where own and pos    *)
(* say: own[i] is the owner of frame i, pos[i] its place in the list, from *)
(* 1.                                                                      *)
ListPlaced(s, in, own, pos, o) ==
         /\ Count(s, o) \in Nat
         /\ Count(s, o) = 0 => First(s, o) = Nil /\ Final(s, o) = Nil
         /\ Count(s, o) # 0 => /\ First(s, o) \in in /\ own[First(s, o)] = o /\ pos[First(s, o)] = 1
                               /\ Final(s, o) \in in /\ own[Final(s, o)] = o /\ pos[Final(s, o)] = Count(s, o)

(* The next and prev of a frame lead to the places after and before its    *)
(* own.                                                                    *)
FramePlaced(s, in, own, pos, i) ==
         /\ pos[i] <= Count(s, own[i])
         /\ pos[i] = 1 => s.frame[i].prev = Nil
         /\ pos[i] # 1 => /\ s.frame[i].prev \in in /\ own[s.frame[i].prev] = own[i]
                          /\ pos[s.frame[i].prev] = pos[i] - 1
         /\ pos[i] = Count(s, own[i]) => s.frame[i].next = Nil
         /\ pos[i] # Count(s, own[i]) => /\ s.frame[i].next \in in /\ own[s.frame[i].next] = own[i]
                                         /\ pos[s.frame[i].next] = pos[i] + 1

(* The frames in `in' are in lists that are whole.                         *)
Placed(s, in, own, pos) ==
    /\ in \subseteq DOMAIN s.frame
    /\ own \in [in -> Owners(s)] /\ pos \in [in -> Nat \ {0}]
    /\ \A o \in Owners(s) : ListPlaced(s, in, own, pos, o)
    /\ \A i \in in : FramePlaced(s, in, own, pos, i)
    /\ \A i, j \in in : own[i] = own[j] /\ pos[i] = pos[j] => i = j

(* g is f after assignments to its pointers; all of them are given.        *)
Setter(g, f) == IsFrame(g) /\ Content(g) = Content(f)
Pointers(g, f, b, e, z, n, p) ==
    Setter(g, f) /\ g.gBegin = b /\ g.gEnd = e /\ g.gSize = z /\ g.next = n /\ g.prev = p

(* An assignment to one pointer of a frame leaves the others alone.        *)
LEMMA Setters ==
    ASSUME NEW f, IsFrame(f), NEW a
    PROVE /\ Pointers([f EXCEPT !.next = a], f, f.gBegin, f.gEnd, f.gSize, a, f.prev)
          /\ Pointers([f EXCEPT !.prev = a], f, f.gBegin, f.gEnd, f.gSize, f.next, a)
          /\ Pointers([f EXCEPT !.gBegin = a], f, a, f.gEnd, f.gSize, f.next, f.prev)
          /\ Pointers([f EXCEPT !.gEnd = a], f, f.gBegin, a, f.gSize, f.next, f.prev)
          /\ Pointers([f EXCEPT !.gSize = a], f, f.gBegin, f.gEnd, a, f.next, f.prev)
  BY DEF IsFrame, Content, Setter, Pointers

(* t has the frames of s, with the same content.                           *)
Alike(s, t) == /\ IsStack(t) /\ DOMAIN t.frame = DOMAIN s.frame
               /\ \A j \in DOMAIN s.frame : Content(t.frame[j]) = Content(s.frame[j])

(* t is s after frame i was linked in on top (the assignments of           *)
(* stack_push).                                                            *)
Pushed(s, i, t) ==
    /\ Alike(s, t)
    /\ t.top = i /\ t.size = s.size + 1
    /\ t.bottom = (IF s.bottom = Nil THEN i ELSE s.bottom)
    /\ \A j \in DOMAIN s.frame :
         /\ t.frame[j].next = (IF s.bottom # Nil /\ j = s.top THEN i ELSE s.frame[j].next)
         /\ t.frame[j].prev = (IF s.bottom # Nil /\ j = i THEN s.top ELSE s.frame[j].prev)
         /\ t.frame[j].gBegin = s.frame[j].gBegin
         /\ t.frame[j].gEnd = s.frame[j].gEnd
         /\ t.frame[j].gSize = s.frame[j].gSize
-----------------------------------------------------------------------------
(* Push does just that.                                                    *)
LEMMA PushFields ==
    ASSUME NEW s, IsStack(s), NEW i \in DOMAIN s.frame, s.bottom # Nil => s.top \in DOMAIN s.frame /\ i # s.top
    PROVE  Pushed(s, i, Push(s, i))
<1> DEFINE t == Push(s, i)
<1>1. CASE s.bottom = Nil
  <2>1. t = [frame |-> s.frame, bottom |-> i, top |-> i, size |-> s.size + 1]
    BY <1>1 DEF Push, IsStack
  <2> HIDE DEF t
  <2>2. Pushed(s, i, t)
    BY <2>1, <1>1 DEF IsStack, Alike, Pushed
  <2> QED BY <2>2 DEF t
<1>2. CASE s.bottom # Nil
  <2>1. /\ t = [frame |-> t.frame, bottom |-> s.bottom, top |-> i, size |-> s.size + 1]
        /\ t.frame = [j \in DOMAIN s.frame |-> IF j = i THEN [s.frame[i] EXCEPT !.prev = s.top]
                        ELSE IF j = s.top THEN [s.frame[j] EXCEPT !.next = i] ELSE s.frame[j]]
    BY <1>2 DEF Push, IsStack
  <2> HIDE DEF t
  <2>2. /\ t.bottom = s.bottom /\ t.top = i /\ t.size = s.size + 1 /\ DOMAIN t.frame = DOMAIN s.frame
        /\ t.frame = [j \in DOMAIN t.frame |-> t.frame[j]]
    BY <2>1
  <2>3. ASSUME NEW j \in DOMAIN s.frame
        PROVE /\ Setter(t.frame[j], s.frame[j])
              /\ t.frame[j].next = (IF j = s.top THEN i ELSE s.frame[j].next)
              /\ t.frame[j].prev = (IF j = i THEN s.top ELSE s.frame[j].prev)
              /\ t.frame[j].gBegin = s.frame[j].gBegin
              /\ t.frame[j].gEnd = s.frame[j].gEnd
              /\ t.frame[j].gSize = s.frame[j].gSize
    <3>1. IsFrame(s.frame[j])
      BY DEF IsStack
    <3>2. t.frame[j] = IF j = i THEN [s.frame[j] EXCEPT !.prev = s.top]
                        ELSE IF j = s.top THEN [s.frame[j] EXCEPT !.next = i] ELSE s.frame[j]
      BY <2>1
    <3>3. CASE j = i
      <4>1. j # s.top /\ t.frame[j] = [s.frame[j] EXCEPT !.prev = s.top]
        BY <3>2, <3>3, <1>2
      <4> DEFINE f == s.frame[j]
                 g == [f EXCEPT !.prev = s.top]
      <4>2. Pointers(g, f, f.gBegin, f.gEnd, f.gSize, f.next, s.top)
        BY <3>1, Setters
      <4>3. t.frame[j] = g
        BY <4>1
      <4> HIDE DEF g
      <4> QED BY <4>1, <4>2, <4>3, <3>3 DEF Pointers
    <3>4. CASE j # i /\ j = s.top
      <4>1. t.frame[j] = [s.frame[j] EXCEPT !.next = i]
        BY <3>2, <3>4
      <4> DEFINE f == s.frame[j]
                 g == [f EXCEPT !.next = i]
      <4>2. Pointers(g, f, f.gBegin, f.gEnd, f.gSize, i, f.prev)
        BY <3>1, Setters
      <4>3. t.frame[j] = g
        BY <4>1
      <4> HIDE DEF g
      <4> QED BY <4>1, <4>2, <4>3, <3>4 DEF Pointers
    <3>5. CASE j # i /\ j # s.top
      BY <3>1, <3>2, <3>5 DEF Setter
    <3> QED BY <3>3, <3>4, <3>5
  <2>4. IsStack(t)
    <3>1. DOMAIN t.frame = DOMAIN s.frame /\ IsFiniteSet(DOMAIN t.frame) /\ DOMAIN t.frame \subseteq Nat \ {0}
      BY <2>2 DEF IsStack
    <3>2. \A j \in DOMAIN t.frame : IsFrame(t.frame[j])
      BY <2>3, <3>1 DEF Setter
    <3>3. t = [frame |-> t.frame, bottom |-> t.bottom, top |-> t.top, size |-> t.size]
      BY <2>1
    <3> QED BY <2>2, <3>1, <3>2, <3>3 DEF IsStack
  <2>5. Pushed(s, i, t)
    BY <1>2, <2>2, <2>3, <2>4 DEF Alike, Setter, Pushed
  <2> QED BY <2>5 DEF t
<1> QED BY <1>1, <1>2

(* The same by owners and places.                                          *)
PushedPlaced(s, i, own, pos, t) ==
               /\ Alike(s, t) /\ t.size = s.size + 1 /\ t.top = i
               /\ Placed(t, DOMAIN s.frame,
                         [j \in DOMAIN s.frame |-> IF j = i THEN Nil ELSE own[j]],
                         [j \in DOMAIN s.frame |-> IF j = i THEN s.size + 1 ELSE pos[j]])

(* A frame that is in no list and has no neighbours is pushed: all lists   *)
(* are whole, and it is the highest of the running stack.                  *)
LEMMA PushPlaced ==
    ASSUME NEW s, IsStack(s), NEW i \in DOMAIN s.frame, NEW own, NEW pos,
           Placed(s, DOMAIN s.frame \ {i}, own, pos), s.frame[i].next = Nil, s.frame[i].prev = Nil
    PROVE  PushedPlaced(s, i, own, pos, Push(s, i))
<1> DEFINE t == Push(s, i)
           D == DOMAIN s.frame
           o2 == [j \in DOMAIN s.frame |-> IF j = i THEN Nil ELSE own[j]]
           p2 == [j \in DOMAIN s.frame |-> IF j = i THEN s.size + 1 ELSE pos[j]]
<1>0. ListPlaced(s, D \ {i}, own, pos, Nil) /\ Nil \notin D /\ D \subseteq Nat
  BY DEF Placed, Owners, IsStack, Nil
<1>1. /\ s.size \in Nat
      /\ s.bottom = Nil <=> s.size = 0
      /\ s.size # 0 => s.top \in D \ {i} /\ own[s.top] = Nil /\ pos[s.top] = s.size
      /\ s.size # 0 => s.bottom \in D \ {i} /\ own[s.bottom] = Nil /\ pos[s.bottom] = 1
  BY <1>0 DEF ListPlaced, Count, First, Final
<1>a. Pushed(s, i, t)
  BY <1>1, PushFields
<1> HIDE DEF t
<1>2. /\ Alike(s, t)
      /\ t.top = i /\ t.size = s.size + 1
      /\ t.bottom = (IF s.bottom = Nil THEN i ELSE s.bottom)
      /\ \A j \in DOMAIN s.frame :
                    /\ t.frame[j].next = (IF s.bottom # Nil /\ j = s.top THEN i ELSE s.frame[j].next)
                    /\ t.frame[j].prev = (IF s.bottom # Nil /\ j = i THEN s.top ELSE s.frame[j].prev)
                    /\ t.frame[j].gBegin = s.frame[j].gBegin
                    /\ t.frame[j].gEnd = s.frame[j].gEnd
                    /\ t.frame[j].gSize = s.frame[j].gSize
  BY <1>a DEF Pushed
<1>3. /\ o2 \in [D -> Owners(t)] /\ p2 \in [D -> Nat \ {0}]
      /\ D \subseteq DOMAIN t.frame /\ Owners(t) = Owners(s)
  BY <1>1, <1>2 DEF Placed, Owners, Alike
<1>b. \A j \in D : /\ o2[j] = (IF j = i THEN Nil ELSE own[j])
                    /\ p2[j] = (IF j = i THEN s.size + 1 ELSE pos[j])
  OBVIOUS
<1> HIDE DEF o2, p2
<1>4. ASSUME NEW o \in Owners(t) PROVE ListPlaced(t, D, o2, p2, o)
  <2>1. CASE o = Nil
    BY <2>1, <1>b, <1>0, <1>1, <1>2, <1>3 DEF ListPlaced, Count, First, Final
  <2>2. CASE o # Nil
    <3>1. o \in D /\ ListPlaced(s, D \ {i}, own, pos, o)
      BY <2>2, <1>3 DEF Placed, Owners
    <3> QED BY <3>1, <2>2, <1>b, <1>2 DEF ListPlaced, Count, First, Final
  <2> QED BY <2>1, <2>2
<1>5. ASSUME NEW j \in D PROVE FramePlaced(t, D, o2, p2, j)
  <2>1. CASE j = i
    <3>1. o2[i] = Nil /\ p2[i] = s.size + 1 /\ Count(t, Nil) = s.size + 1
      BY <1>b, <1>2 DEF Count
    <3>2. t.frame[i].next = Nil /\ (s.size = 0 => t.frame[i].prev = Nil) /\ (s.size # 0 => t.frame[i].prev = s.top)
      BY <1>1, <1>2
    <3>3. s.size # 0 => s.top \in D /\ o2[s.top] = Nil /\ p2[s.top] = s.size
      BY <1>1, <1>b
    <3> QED BY <3>1, <3>2, <3>3, <2>1, <1>1 DEF FramePlaced
  <2>2. CASE j # i
    <3>1. FramePlaced(s, D \ {i}, own, pos, j) /\ own[j] \in Owners(s) /\ pos[j] \in Nat \ {0} /\ o2[j] = own[j] /\ p2[j] = pos[j]
      BY <2>2, <1>b DEF Placed
    <3>a. \A k \in D \ {i} : o2[k] = own[k] /\ p2[k] = pos[k]
      BY <1>b
    <3>2. CASE own[j] = Nil
      <4>1. Count(s, own[j]) = s.size /\ Count(t, o2[j]) = s.size + 1
        BY <3>1, <3>2, <1>2 DEF Count
      <4>2. pos[j] = s.size <=> j = s.top
        BY <3>1, <3>2, <1>1, <2>2, <4>1 DEF Placed, FramePlaced
      <4>3. t.frame[j].prev = s.frame[j].prev /\ t.frame[j].next = (IF j = s.top THEN i ELSE s.frame[j].next)
        BY <1>1, <1>2, <2>2, <4>2, <3>1
      <4>4. o2[i] = Nil /\ p2[i] = s.size + 1
        BY <1>b
      <4>5. CASE j = s.top
        BY <4>1, <4>2, <4>3, <4>4, <4>5, <3>1, <3>a, <3>2, <2>2, <1>1 DEF FramePlaced
      <4>6. CASE j # s.top
        BY <4>1, <4>2, <4>3, <4>6, <3>1, <3>a, <3>2, <2>2, <1>1 DEF FramePlaced
      <4> QED BY <4>5, <4>6
    <3>3. CASE own[j] # Nil
      <4>1. Count(t, o2[j]) = Count(s, own[j]) /\ ~ (s.bottom # Nil /\ j = s.top)
        BY <3>1, <3>3, <1>1, <1>2 DEF Count, Owners
      <4> QED BY <4>1, <3>1, <3>a, <3>3, <2>2, <1>1, <1>2 DEF FramePlaced
    <3> QED BY <3>2, <3>3
  <2> QED BY <2>1, <2>2
<1>6. \A j, k \in D : o2[j] = o2[k] /\ p2[j] = p2[k] => j = k
  <2> SUFFICES ASSUME NEW j \in D, NEW k \in D, o2[j] = o2[k], p2[j] = p2[k] PROVE j = k
    OBVIOUS
  <2>1. CASE j # i /\ k # i
    BY <2>1, <1>b DEF Placed
  <2>2. CASE j = i /\ k # i
    <3>1. FramePlaced(s, D \ {i}, own, pos, k) /\ pos[k] \in Nat
      BY <2>2 DEF Placed
    <3> QED BY <3>1, <2>2, <1>b, <1>1 DEF FramePlaced, Count
  <2>3. CASE k = i /\ j # i
    <3>1. FramePlaced(s, D \ {i}, own, pos, j) /\ pos[j] \in Nat
      BY <2>3 DEF Placed
    <3> QED BY <3>1, <2>3, <1>b, <1>1 DEF FramePlaced, Count
  <2> QED BY <2>1, <2>2, <2>3
<1>7. Placed(t, D, o2, p2)
  BY <1>3, <1>4, <1>5, <1>6 DEF Placed
<1>8. PushedPlaced(s, i, own, pos, t)
  BY <1>2, <1>7 DEF PushedPlaced, o2, p2
<1> QED BY <1>8 DEF t
-----------------------------------------------------------------------------
(* A set of numbers that is not empty has a least element.                 *)
LEMMA Least ==
    ASSUME NEW S \in SUBSET Nat, S # {}
    PROVE  \E m \in S : \A n \in S : m <= n
<1> DEFINE R == {p \in Nat \X Nat : p[1] < p[2]}
<1>1. IsWellFoundedOn(R, Nat)
  BY NatLessThanWellFounded DEF OpToRel, IsWellFoundedOn
<1>2. PICK m \in S : \A n \in S : ~ (<<n, m>> \in R)
  BY <1>1, WFMin
<1>3. ASSUME NEW n \in S PROVE m <= n
  <2>1. m \in Nat /\ n \in Nat
    OBVIOUS
  <2>2. ~ (n < m)
    BY <1>2, <2>1
  <2> QED BY <2>1, <2>2
<1> QED BY <1>3

(* As many values as places, when no two places have the same.             *)
LEMMA Different ==
    ASSUME NEW m \in Nat, NEW f, \A i, j \in 1 .. m : f[i] = f[j] => i = j
    PROVE  LET met == {f[i] : i \in 1 .. m}
           IN  IsFiniteSet(met) /\ Cardinality(met) = m
<1> DEFINE met == {f[i] : i \in 1 .. m}
           g == [i \in 1 .. m |-> f[i]]
<1>1. g \in Bijection(1 .. m, met)
  <2>1. g \in [1 .. m -> met]
    OBVIOUS
  <2>2. \A v \in met : \E i \in 1 .. m : g[i] = v
    OBVIOUS
  <2>3. \A i, j \in 1 .. m : g[i] = g[j] => i = j
    OBVIOUS
  <2> QED BY <2>1, <2>2, <2>3 DEF Bijection, Injection, Surjection, IsInjective
<1>2. IsFiniteSet(1 .. m) /\ Cardinality(1 .. m) = m
  <2>1. \A a, b \in Int : IsFiniteSet(a .. b) /\ Cardinality(a .. b) = IF a > b THEN 0 ELSE b - a + 1
    BY FS_Interval
  <2> QED BY <2>1
<1> QED BY <1>1, <1>2, FS_Bijection DEF ExistsBijection

(* All the frames of a stack are in whole lists.                           *)
Whole(s, own, pos) == IsStack(s) /\ Placed(s, DOMAIN s.frame, own, pos)

(* The frames of a list, in their order.                                   *)
Ordered(s, own, pos, o, q) ==
    /\ q \in Seq(DOMAIN s.frame) /\ Len(q) = Count(s, o)
    /\ \A k \in 1 .. Len(q) : own[q[k]] = o /\ pos[q[k]] = k

(* Each list can be written down, and is no longer than there are frames.  *)
LEMMA AnOrder ==
    ASSUME NEW s, NEW own, NEW pos, Whole(s, own, pos), NEW o \in Owners(s)
    PROVE  /\ \E q : Ordered(s, own, pos, o, q)
           /\ Count(s, o) \in Nat /\ Count(s, o) <= Cardinality(DOMAIN s.frame)
<1> DEFINE D == DOMAIN s.frame
           C == Count(s, o)
           At(k) == \E i \in D : own[i] = o /\ pos[i] = k
<1>1. C \in Nat /\ ListPlaced(s, D, own, pos, o) /\ \A i \in D : FramePlaced(s, D, own, pos, i)
  BY DEF Whole, Placed, ListPlaced
<1>2. C # 0 => At(1)
  BY <1>1 DEF ListPlaced
<1>3. ASSUME NEW k \in 1 .. C, k # C, At(k) PROVE At(k + 1)
  <2>1. PICK i \in D : own[i] = o /\ pos[i] = k
    BY <1>3
  <2>2. s.frame[i].next \in D /\ own[s.frame[i].next] = o /\ pos[s.frame[i].next] = k + 1
    BY <1>1, <1>3, <2>1 DEF FramePlaced
  <2> QED BY <2>2
<1>4. ASSUME NEW b \in 1 .. C, ~ At(b) PROVE FALSE
  <2> DEFINE bad == {k \in 1 .. C : ~ At(k)}
  <2> HIDE DEF At, C
  <2>1. bad \in SUBSET Nat /\ b \in bad
    BY <1>1, <1>4
  <2>2. PICK m \in bad : \A n \in bad : m <= n
    BY <2>1, Least
  <2>3. m # 1
    BY <1>2, <2>2, <1>1
  <2>4. m - 1 \in 1 .. C /\ m - 1 # C /\ (m - 1) + 1 = m /\ ~ (m <= m - 1)
    BY <1>1, <2>2, <2>3
  <2>5. At(m - 1)
    BY <2>2, <2>4
  <2> QED BY <1>3, <2>2, <2>4, <2>5
<1> DEFINE q == [k \in 1 .. C |-> CHOOSE i \in D : own[i] = o /\ pos[i] = k]
<1>5. \A k \in 1 .. C : q[k] \in D /\ own[q[k]] = o /\ pos[q[k]] = k
  BY <1>4
<1>6. q \in [1 .. C -> D]
  <2>1. q = [k \in 1 .. C |-> q[k]]
    OBVIOUS
  <2> HIDE DEF q
  <2> QED BY <1>5, <2>1
<1>7. q \in Seq(D) /\ Len(q) = C
  <2>1. DOMAIN q = 1 .. C
    OBVIOUS
  <2> HIDE DEF q
  <2>2. q \in Seq(D)
    BY <1>1, <1>6 DEF Seq
  <2> QED BY <1>1, <2>1, <2>2, LenProperties
<1> HIDE DEF q
<1>8. Ordered(s, own, pos, o, q)
  BY <1>5, <1>7 DEF Ordered
<1>9. C <= Cardinality(D)
  <2> DEFINE met == {q[k] : k \in 1 .. C}
  <2>1. \A i, j \in 1 .. C : q[i] = q[j] => i = j
    BY <1>5
  <2>2. Cardinality(met) = C /\ met \subseteq D
    <3>1. met \subseteq D
      BY <1>5
    <3>2. C \in Nat
      BY <1>1
    <3> HIDE DEF C
    <3>3. Cardinality(met) = C
      BY <2>1, <3>2, Different
    <3> QED BY <3>1, <3>3
  <2> QED BY <2>2, FS_Subset DEF Whole, IsStack
<1> QED BY <1>1, <1>8, <1>9

(* The pointers of a frame lead to its neighbours in the list as written.  *)
LEMMA Neighbours ==
    ASSUME NEW s, NEW own, NEW pos, Whole(s, own, pos), NEW o \in Owners(s),
           NEW q, Ordered(s, own, pos, o, q)
    PROVE  /\ Len(q) \in Nat /\ Len(q) = Count(s, o)
           /\ First(s, o) = (IF Len(q) = 0 THEN Nil ELSE q[1])
           /\ Final(s, o) = (IF Len(q) = 0 THEN Nil ELSE q[Len(q)])
           /\ \A k \in 1 .. Len(q) : /\ q[k] \in DOMAIN s.frame
                                     /\ s.frame[q[k]].next = (IF k = Len(q) THEN Nil ELSE q[k + 1])
                                     /\ s.frame[q[k]].prev = (IF k = 1 THEN Nil ELSE q[k - 1])
           /\ \A i \in DOMAIN s.frame : own[i] = o => pos[i] \in 1 .. Len(q) /\ q[pos[i]] = i
<1> DEFINE D == DOMAIN s.frame
<1>1. Len(q) \in Nat /\ Len(q) = Count(s, o) /\ \A k \in 1 .. Len(q) : q[k] \in D /\ own[q[k]] = o /\ pos[q[k]] = k
  BY LenProperties DEF Ordered
<1>2. ListPlaced(s, D, own, pos, o) /\ \A i \in D : FramePlaced(s, D, own, pos, i)
  BY DEF Whole, Placed
<1>3. \A i, j \in D : own[i] = own[j] /\ pos[i] = pos[j] => i = j
  BY DEF Whole, Placed
<1>4. First(s, o) = (IF Len(q) = 0 THEN Nil ELSE q[1])
  BY <1>1, <1>2, <1>3 DEF ListPlaced
<1>5. Final(s, o) = (IF Len(q) = 0 THEN Nil ELSE q[Len(q)])
  BY <1>1, <1>2, <1>3 DEF ListPlaced
<1>6. ASSUME NEW k \in 1 .. Len(q)
      PROVE  /\ s.frame[q[k]].next = (IF k = Len(q) THEN Nil ELSE q[k + 1])
             /\ s.frame[q[k]].prev = (IF k = 1 THEN Nil ELSE q[k - 1])
  <2>1. FramePlaced(s, D, own, pos, q[k]) /\ own[q[k]] = o /\ pos[q[k]] = k
    BY <1>1, <1>2
  <2>2. k # Len(q) => k + 1 \in 1 .. Len(q)
    BY <1>1
  <2>3. k # 1 => k - 1 \in 1 .. Len(q)
    BY <1>1
  <2>4. s.frame[q[k]].next = (IF k = Len(q) THEN Nil ELSE q[k + 1])
    BY <2>1, <2>2, <1>1, <1>3 DEF FramePlaced
  <2>5. s.frame[q[k]].prev = (IF k = 1 THEN Nil ELSE q[k - 1])
    BY <2>1, <2>3, <1>1, <1>3 DEF FramePlaced
  <2> QED BY <2>4, <2>5
<1>7. ASSUME NEW i \in D, own[i] = o PROVE pos[i] \in 1 .. Len(q) /\ q[pos[i]] = i
  <2>1. pos[i] \in Nat \ {0} /\ pos[i] <= Len(q)
    BY <1>1, <1>2, <1>7 DEF Whole, Placed, FramePlaced
  <2> QED BY <2>1, <1>1, <1>3, <1>7
<1> QED BY <1>1, <1>4, <1>5, <1>6, <1>7

(* Walking along next from the first frame of a list meets the list as     *)
(* written. This is where the counted walk of RunningStack is unrolled:    *)
(* after k steps it has met the first k frames and stands before the next. *)
LEMMA WalkIs ==
    ASSUME NEW s, NEW own, NEW pos, Whole(s, own, pos), NEW o \in Owners(s),
           NEW q, Ordered(s, own, pos, o, q)
    PROVE  Walk(s, First(s, o)) = q
<1> DEFINE D == DOMAIN s.frame
           N == Cardinality(DOMAIN s.frame)
           C == Len(q)
           b == First(s, o)
           Onwards(f) == IF Last(f) \in D THEN Append(f, s.frame[Last(f)].next) ELSE f
           Nth(f, n) == IF n = 0 THEN <<b>> ELSE Onwards(f[n - 1])
           F == CHOOSE f : f = [n \in 0 .. Cardinality(DOMAIN s.frame) |->
                                  IF n = 0 THEN <<First(s, o)>>
                                  ELSE LET p == Last(f[n - 1])
                                       IN IF p \in DOMAIN s.frame THEN Append(f[n - 1], s.frame[p].next)
                                          ELSE f[n - 1]]
           Part(m) == [j \in 1 .. m + 1 |-> IF j <= C THEN q[j] ELSE Nil]
           g == [n \in 0 .. N |-> Part(IF n < C THEN n ELSE C)]
<1>1. /\ C \in Nat /\ N \in Nat /\ C <= N /\ Nil \notin D
      /\ b = (IF C = 0 THEN Nil ELSE q[1])
      /\ \A k \in 1 .. C : q[k] \in D /\ s.frame[q[k]].next = (IF k = C THEN Nil ELSE q[k + 1])
  <2>1. C \in Nat /\ C <= N
    BY AnOrder DEF Ordered
  <2>2. N \in Nat /\ Nil \notin D
    BY FS_CardinalityType DEF Whole, IsStack, Nil
  <2>3. b = (IF C = 0 THEN Nil ELSE q[1]) /\ \A k \in 1 .. C : q[k] \in D /\ s.frame[q[k]].next = (IF k = C THEN Nil ELSE q[k + 1])
    BY Neighbours
  <2> QED BY <2>1, <2>2, <2>3
<1> HIDE DEF D, N, C, b
<1>2. ASSUME NEW m \in 0 .. C
      PROVE  /\ Part(m) \in Seq(D \cup {Nil}) /\ Len(Part(m)) = m + 1
             /\ Last(Part(m)) = (IF m < C THEN q[m + 1] ELSE Nil)
  <2>1. Part(m) \in [1 .. m + 1 -> D \cup {Nil}]
    BY <1>1
  <2>2. m + 1 \in Nat /\ DOMAIN Part(m) = 1 .. m + 1 /\ m + 1 \in 1 .. m + 1
    BY <1>1
  <2>3. Part(m)[m + 1] = (IF m < C THEN q[m + 1] ELSE Nil)
    BY <1>1, <2>2
  <2> HIDE DEF Part
  <2>4. Part(m) \in Seq(D \cup {Nil})
    BY <2>1, <2>2 DEF Seq
  <2>5. Len(Part(m)) = m + 1
    BY <2>2, <2>4, LenProperties
  <2> QED BY <2>3, <2>4, <2>5 DEF Last
<1>3. ASSUME NEW m \in 0 .. C PROVE Onwards(Part(m)) = Part(IF m < C THEN m + 1 ELSE C)
  <2>1. CASE m < C
    <3>1. m + 1 \in 0 .. C /\ m + 1 \in 1 .. C
      BY <1>1, <2>1
    <3> DEFINE e == IF m + 1 = C THEN Nil ELSE q[m + 2]
    <3>2. Onwards(Part(m)) = Append(Part(m), e)
      <4>1. Last(Part(m)) = q[m + 1] /\ q[m + 1] \in D /\ s.frame[q[m + 1]].next = e
        BY <1>1, <1>2, <2>1, <3>1
      <4> HIDE DEF Part, e
      <4> QED BY <4>1 DEF D
    <3>3. e = (IF m + 2 <= C THEN q[m + 2] ELSE Nil)
      BY <1>1, <2>1
    <3> HIDE DEF e
    <3>4. Len(Append(Part(m), e)) = m + 2 /\ Append(Part(m), e) \in Seq(D \cup {Nil})
      <4>1. e \in D \cup {Nil}
        BY <3>3, <1>1, <2>1
      <4> HIDE DEF Part
      <4> QED BY <1>2, <4>1
    <3>5. Len(Part(m + 1)) = m + 2 /\ Part(m + 1) \in Seq(D \cup {Nil})
      <4>1. (m + 1) + 1 = m + 2 /\ m + 1 \in 0 .. C
        BY <1>1, <3>1
      <4> HIDE DEF Part
      <4> QED BY <1>2, <4>1
    <3>6. ASSUME NEW j \in 1 .. m + 2 PROVE Append(Part(m), e)[j] = Part(m + 1)[j]
      <4>1. CASE j = m + 2
        <5>1. Part(m + 1)[j] = e
          BY <4>1, <3>3, <3>1
        <5>2. Append(Part(m), e)[j] = e
          <6> HIDE DEF Part
          <6> QED BY <1>2, <4>1
        <5> QED BY <5>1, <5>2
      <4>2. CASE j # m + 2
        <5>1. j \in 1 .. m + 1
          BY <4>2
        <5>2. Part(m + 1)[j] = Part(m)[j]
          BY <5>1
        <5>3. Append(Part(m), e)[j] = Part(m)[j]
          <6> HIDE DEF Part
          <6> QED BY <1>2, <5>1
        <5> QED BY <5>2, <5>3
      <4> QED BY <4>1, <4>2
    <3>7. Append(Part(m), e) = Part(m + 1)
      <4> HIDE DEF Part
      <4> QED BY <3>4, <3>5, <3>6, SeqEqual
    <3> HIDE DEF Part, Onwards
    <3> QED BY <2>1, <3>2, <3>7
  <2>2. CASE ~ (m < C)
    <3>1. m = C /\ Last(Part(m)) = Nil
      BY <1>1, <1>2, <2>2
    <3> HIDE DEF Part
    <3> QED BY <1>1, <2>2, <3>1 DEF D
  <2> QED BY <2>1, <2>2
<1>4. g[0] = <<b>>
  <2>1. Part(0) = <<b>>
    <3>1. Part(0) = [j \in 1 .. 1 |-> b]
      BY <1>1
    <3> HIDE DEF Part
    <3> QED BY <3>1
  <2>2. g[0] = Part(0)
    <3> HIDE DEF Part
    <3> QED BY <1>1
  <2> HIDE DEF g, Part
  <2> QED BY <2>1, <2>2
<1>5. ASSUME NEW n \in 0 .. N PROVE g[n] = Nth(g, n)
  <2>1. CASE n = 0
    <3> HIDE DEF g, Onwards
    <3> QED BY <1>4, <2>1
  <2>2. CASE n # 0
    <3> DEFINE m == IF n - 1 < C THEN n - 1 ELSE C
    <3>1. n - 1 \in 0 .. N /\ m \in 0 .. C
      BY <1>1, <2>2
    <3>2. (IF n < C THEN n ELSE C) = (IF m < C THEN m + 1 ELSE C)
      BY <1>1, <2>2, <3>1
    <3>3. g[n] = Part(IF n < C THEN n ELSE C) /\ g[n - 1] = Part(m)
      <4> HIDE DEF Part
      <4> QED BY <3>1
    <3> HIDE DEF g, Part, m, Onwards
    <3>4. Onwards(Part(m)) = Part(IF m < C THEN m + 1 ELSE C)
      BY <1>3, <3>1
    <3> QED BY <2>2, <3>2, <3>3, <3>4
  <2> QED BY <2>1, <2>2
<1>6. g = [n \in 0 .. N |-> Nth(g, n)]
  <2>1. g = [n \in 0 .. N |-> g[n]]
    <3> HIDE DEF Part
    <3> QED OBVIOUS
  <2> HIDE DEF g, Nth
  <2> QED BY <1>5, <2>1
<1>7. F = [n \in 0 .. N |-> Nth(F, n)]
  <2> HIDE DEF g
  <2>1. \E f : f = [n \in 0 .. N |-> Nth(f, n)]
    BY <1>6
  <2> QED BY <2>1, Zenon DEF N, D, b
<1>8. Walk(s, First(s, o)) = Front(F[N])
  BY DEF Walk, N
<1>9. DOMAIN F = 0 .. N /\ \A n \in 0 .. N : F[n] = Nth(F, n)
  <2> HIDE DEF F, Nth
  <2> QED BY <1>7
<1> HIDE DEF F
<1>10. ASSUME NEW x \in 0 .. N, F[x] # g[x] PROVE FALSE
  <2> DEFINE bad == {k \in 0 .. N : F[k] # g[k]}
  <2> HIDE DEF g
  <2>0. x \in bad /\ bad \in SUBSET Nat
    BY <1>1, <1>10
  <2>1. PICK m \in bad : \A k \in bad : m <= k
    BY <2>0, Least
  <2>2. m \in 0 .. N /\ F[m] = Nth(F, m) /\ g[m] = Nth(g, m) /\ F[m] # g[m]
    BY <1>5, <1>9, <2>1
  <2> HIDE DEF Onwards
  <2>3. m # 0
    BY <2>2
  <2>4. m - 1 \in 0 .. N /\ ~ (m <= m - 1)
    BY <1>1, <2>2, <2>3
  <2>5. F[m - 1] = g[m - 1]
    BY <2>1, <2>4
  <2> QED BY <2>2, <2>3, <2>5
<1>11. F[N] = Part(C)
  <2>1. N \in 0 .. N /\ (IF N < C THEN N ELSE C) = C
    BY <1>1
  <2>2. g[N] = Part(C)
    <3> HIDE DEF Part
    <3> QED BY <2>1
  <2> HIDE DEF g, Part
  <2> QED BY <1>10, <2>1, <2>2
<1>12. Front(Part(C)) = q
  <2>1. C \in 0 .. C
    BY <1>1
  <2>2. Part(C) \in Seq(D \cup {Nil}) /\ Len(Part(C)) = C + 1
    BY <1>2, <2>1
  <2>3. \A j \in 1 .. C : Part(C)[j] = q[j]
    BY <1>1
  <2> HIDE DEF Part
  <2>4. Front(Part(C)) \in Seq(D \cup {Nil}) /\ Len(Front(Part(C))) = C
    BY <1>1, <2>2 DEF Front
  <2>5. \A j \in 1 .. C : Front(Part(C))[j] = q[j]
    BY <1>1, <2>2, <2>3 DEF Front
  <2>6. q \in Seq(D \cup {Nil}) /\ Len(q) = C
    BY DEF Ordered, D, C
  <2> QED BY <2>4, <2>5, <2>6, SeqEqual
<1> HIDE DEF Part
<1> QED BY <1>8, <1>11, <1>12

(* The lowest free number of a finite set is there to be chosen.           *)
LEMMA FirstFree ==
    ASSUME NEW S, IsFiniteSet(S)
    PROVE  \E i \in 1 .. Cardinality(S) + 1 : i \notin S /\ 1 .. i - 1 \subseteq S
<1> DEFINE C == Cardinality(S)
           free == {i \in 1 .. C + 1 : i \notin S}
<1>1. C \in Nat
  BY FS_CardinalityType
<1>2. free # {}
  <2> SUFFICES ASSUME 1 .. C + 1 \subseteq S PROVE FALSE
    OBVIOUS
  <2>1. Cardinality(1 .. C + 1) <= C
    BY FS_Subset
  <2>2. Cardinality(1 .. C + 1) = C + 1
    <3>1. \A a, b \in Int : IsFiniteSet(a .. b) /\ Cardinality(a .. b) = IF a > b THEN 0 ELSE b - a + 1
      BY FS_Interval
    <3>2. 1 \in Int /\ C + 1 \in Int /\ ~ (1 > C + 1)
      BY <1>1
    <3>3. Cardinality(1 .. C + 1) = (C + 1) - 1 + 1
      BY ONLY <3>1, <3>2
    <3> QED BY <1>1, <3>3
  <2> HIDE DEF C
  <2> QED BY <1>1, <2>1, <2>2
<1> HIDE DEF C
<1>3. free \in SUBSET Nat
  BY <1>1
<1>4. PICK i \in free : \A n \in free : i <= n
  BY <1>2, <1>3, Least
<1>5. 1 .. i - 1 \subseteq S
  BY <1>1, <1>4
<1> QED BY <1>4, <1>5 DEF C

(* There is a frame that is not allocated.                                 *)
LEMMA UnusedIs ==
    ASSUME NEW s, IsStack(s)
    PROVE  Unused(s) \in Nat \ {0} /\ Unused(s) \notin DOMAIN s.frame
<1>1. \E i \in 1 .. Cardinality(DOMAIN s.frame) + 1 :
         i \notin DOMAIN s.frame /\ 1 .. i - 1 \subseteq DOMAIN s.frame
  BY FirstFree DEF IsStack
<1>2. Unused(s) \in 1 .. Cardinality(DOMAIN s.frame) + 1 /\ Unused(s) \notin DOMAIN s.frame
  BY <1>1 DEF Unused
<1> QED BY <1>2

(* A frame just allocated: no generators, no neighbours.                   *)
Fresh(f) == /\ IsFrame(f) /\ f.gBegin = Nil /\ f.gEnd = Nil /\ f.gSize = 0
            /\ f.next = Nil /\ f.prev = Nil

(* New makes a fresh frame, of the content it is given.                    *)
LEMMA NewIsFresh ==
    ASSUME NEW a, NEW n, NEW p, NEW o, NEW e
    PROVE  /\ Fresh(New(a, n, p, o, e))
           /\ Content(New(a, n, p, o, e)) = [start |-> a, pc |-> a, args |-> n, trapPc |-> p, trapOn |-> o,
                                             env |-> e, stack |-> <<>>]
  BY DEF Fresh, New, IsFrame, Content

(* t is s with a new frame i on top, of the content of f.                  *)
PushedNew(s, f, own, pos, i, t) ==
    /\ i \notin DOMAIN s.frame /\ i \in Nat \ {0}
    /\ DOMAIN t.frame = DOMAIN s.frame \cup {i}
    /\ Content(t.frame[i]) = Content(f)
    /\ \A j \in DOMAIN s.frame : Content(t.frame[j]) = Content(s.frame[j])
    /\ t.size = s.size + 1 /\ t.top = i
    /\ Whole(t, [j \in DOMAIN t.frame |-> IF j = i THEN Nil ELSE own[j]],
                [j \in DOMAIN t.frame |-> IF j = i THEN s.size + 1 ELSE pos[j]])

(* PushNew keeps all lists whole.                                          *)
LEMMA PushNewWhole ==
    ASSUME NEW s, NEW own, NEW pos, Whole(s, own, pos), NEW f, Fresh(f)
    PROVE  PushedNew(s, f, own, pos, Unused(s), PushNew(s, f))
<1> DEFINE i == Unused(s)
           D == DOMAIN s.frame
           E == D \cup {i}
           r == [s EXCEPT !.frame = [j \in DOMAIN @ \cup {i} |-> IF j = i THEN f ELSE @[j]]]
           t == Push(r, i)
<1>0. PushNew(s, f) = t
  BY DEF PushNew
<1>1. i \in Nat \ {0} /\ i \notin D
  BY UnusedIs DEF Whole
<1> HIDE DEF i
<1>2. /\ r = [frame |-> r.frame, bottom |-> s.bottom, top |-> s.top, size |-> s.size]
      /\ r.frame = [j \in E |-> IF j = i THEN f ELSE s.frame[j]]
  BY DEF Whole, IsStack
<1> HIDE DEF r
<1>3. /\ DOMAIN r.frame = E /\ r.frame = [j \in E |-> r.frame[j]]
      /\ r.frame[i] = f /\ \A j \in D : r.frame[j] = s.frame[j]
      /\ r.bottom = s.bottom /\ r.top = s.top /\ r.size = s.size
      /\ r = [frame |-> r.frame, bottom |-> r.bottom, top |-> r.top, size |-> r.size]
  BY <1>1, <1>2
<1>4. IsStack(r)
  <2>1. IsFiniteSet(E)
    BY FS_AddElement DEF Whole, IsStack
  <2>2. \A j \in E : IsFrame(r.frame[j])
    BY <1>3 DEF Whole, IsStack, Fresh
  <2>3. E \subseteq Nat \ {0}
    BY <1>1 DEF Whole, IsStack
  <2> QED BY <1>3, <2>1, <2>2, <2>3 DEF IsStack
<1>5. Placed(r, E \ {i}, own, pos)
  <2>1. E \ {i} = D
    BY <1>1
  <2>2. Owners(r) = Owners(s) \cup {i} /\ i # Nil
    BY <1>1, <1>3 DEF Owners, Nil
  <2>3. own \in [D -> Owners(s)] /\ pos \in [D -> Nat \ {0}] /\ (\A o \in Owners(s) : ListPlaced(s, D, own, pos, o))
        /\ (\A j \in D : FramePlaced(s, D, own, pos, j))
        /\ (\A j, k \in D : own[j] = own[k] /\ pos[j] = pos[k] => j = k)
    BY DEF Whole, Placed
  <2>4. \A o \in Owners(s) : Count(r, o) = Count(s, o) /\ First(r, o) = First(s, o) /\ Final(r, o) = Final(s, o)
    BY <1>3 DEF Count, First, Final, Owners
  <2>5. Count(r, i) = 0 /\ First(r, i) = Nil /\ Final(r, i) = Nil
    BY <1>3, <2>2 DEF Count, First, Final, Fresh
  <2>6. ASSUME NEW o \in Owners(r) PROVE ListPlaced(r, D, own, pos, o)
    <3>1. CASE o \in Owners(s)
      BY <2>3, <2>4, <3>1 DEF ListPlaced
    <3>2. CASE o = i
      BY <2>5, <3>2 DEF ListPlaced
    <3> QED BY <2>2, <3>1, <3>2
  <2>7. ASSUME NEW j \in D PROVE FramePlaced(r, D, own, pos, j)
    <3>1. own[j] \in Owners(s) /\ r.frame[j] = s.frame[j]
      BY <2>3, <1>3
    <3>2. FramePlaced(s, D, own, pos, j)
      BY <2>3
    <3> QED BY <3>1, <3>2, <2>4 DEF FramePlaced
  <2>8. own \in [D -> Owners(r)]
    BY <2>2, <2>3
  <2> HIDE DEF D, E
  <2> QED BY <1>3, <2>1, <2>3, <2>6, <2>7, <2>8 DEF Placed, E
<1>6. PushedPlaced(r, i, own, pos, t)
  <2>1. i \in DOMAIN r.frame /\ r.frame[i].next = Nil /\ r.frame[i].prev = Nil /\ Placed(r, DOMAIN r.frame \ {i}, own, pos)
    BY <1>3, <1>5 DEF Fresh
  <2> QED BY <1>4, <2>1, PushPlaced
<1> HIDE DEF t
<1>7. PushedNew(s, f, own, pos, i, t)
  <2>1. DOMAIN t.frame = E /\ IsStack(t)
    BY <1>3, <1>6 DEF PushedPlaced, Alike
  <2>2. \A j \in E : Content(t.frame[j]) = Content(r.frame[j])
    BY <1>3, <1>6 DEF PushedPlaced, Alike
  <2>3. Placed(t, E, [j \in E |-> IF j = i THEN Nil ELSE own[j]], [j \in E |-> IF j = i THEN s.size + 1 ELSE pos[j]])
    BY <1>3, <1>6 DEF PushedPlaced
  <2>4. t.size = s.size + 1 /\ t.top = i
    BY <1>3, <1>6 DEF PushedPlaced
  <2>5. Content(t.frame[i]) = Content(f) /\ \A j \in D : Content(t.frame[j]) = Content(s.frame[j])
    BY <1>3, <2>2
  <2>6. Whole(t, [j \in DOMAIN t.frame |-> IF j = i THEN Nil ELSE own[j]],
                [j \in DOMAIN t.frame |-> IF j = i THEN s.size + 1 ELSE pos[j]])
    BY <2>1, <2>3 DEF Whole
  <2> QED BY <1>1, <2>1, <2>4, <2>5, <2>6 DEF PushedNew
<1> QED BY <1>0, <1>7 DEF i
-----------------------------------------------------------------------------
(* What is reached from a set along R in n rounds.                         *)
Further(R, S) == S \cup UNION {R[j] : j \in S}
Rounds(f, N, base, R) == /\ f = [n \in 0 .. N |-> f[n]] /\ f[0] = base
                         /\ \A n \in 1 .. N : f[n] = Further(R, f[n - 1])

(* There is such a function: the recursive definitions of the model that   *)
(* go by rounds are functions of this kind. It is built from the sequences *)
(* that are right up to their length.                                      *)
LEMMA RoundsExist ==
    ASSUME NEW N \in Nat, NEW D, NEW base \in SUBSET D, NEW R \in [D -> SUBSET D]
    PROVE  \E f : Rounds(f, N, base, R) /\ \A n \in 0 .. N : f[n] \in SUBSET D
<1> DEFINE Good(n) == \E f : Rounds(f, n, base, R) /\ \A k \in 0 .. n : f[k] \in SUBSET D
<1>1. Good(0)
  <2> DEFINE f == [k \in 0 .. 0 |-> base]
  <2>1. f = [k \in 0 .. 0 |-> f[k]] /\ f[0] = base /\ \A k \in 0 .. 0 : f[k] \in SUBSET D
    OBVIOUS
  <2> HIDE DEF f
  <2>2. Rounds(f, 0, base, R)
    BY <2>1 DEF Rounds
  <2> QED BY <2>1, <2>2
<1>2. ASSUME NEW n \in Nat, Good(n) PROVE Good(n + 1)
  <2>1. PICK f : Rounds(f, n, base, R) /\ \A k \in 0 .. n : f[k] \in SUBSET D
    BY <1>2
  <2> DEFINE g == [k \in 0 .. n + 1 |-> IF k = n + 1 THEN Further(R, f[n]) ELSE f[k]]
  <2>2. Further(R, f[n]) \in SUBSET D
    BY <2>1 DEF Further
  <2>3. \A k \in 0 .. n : g[k] = f[k]
    OBVIOUS
  <2>4. g[n + 1] = Further(R, f[n]) /\ g = [k \in 0 .. n + 1 |-> g[k]]
    OBVIOUS
  <2> HIDE DEF g
  <2>5. g[0] = base
    BY <2>1, <2>3 DEF Rounds
  <2>6. ASSUME NEW k \in 1 .. n + 1 PROVE g[k] = Further(R, g[k - 1])
    <3>1. k - 1 \in 0 .. n /\ (k # n + 1 => k \in 1 .. n /\ k \in 0 .. n) /\ (k = n + 1 => k - 1 = n)
      OBVIOUS
    <3>2. k \in 1 .. n => f[k] = Further(R, f[k - 1])
      BY <2>1 DEF Rounds
    <3> QED BY <2>3, <2>4, <3>1, <3>2
  <2>7. \A k \in 0 .. n + 1 : g[k] \in SUBSET D
    <3>1. \A k \in 0 .. n + 1 : k = n + 1 \/ k \in 0 .. n
      OBVIOUS
    <3> QED BY <2>1, <2>2, <2>3, <2>4, <3>1
  <2>8. Rounds(g, n + 1, base, R)
    BY <2>4, <2>5, <2>6 DEF Rounds
  <2> QED BY <2>7, <2>8
<1> HIDE DEF Good
<1>3. ASSUME ~ Good(N) PROVE FALSE
  <2> DEFINE bad == {n \in Nat : ~ Good(n)}
  <2>1. N \in bad /\ bad \in SUBSET Nat
    BY <1>3
  <2>2. PICK m \in bad : \A k \in bad : m <= k
    BY <2>1, Least
  <2>3. m # 0 /\ m \in Nat /\ ~ Good(m)
    BY <1>1, <2>2
  <2>4. m - 1 \in Nat /\ (m - 1) + 1 = m /\ ~ (m <= m - 1)
    BY <2>3
  <2>5. Good(m - 1)
    BY <2>2, <2>4
  <2>6. Good((m - 1) + 1)
    BY <1>2, <2>4, <2>5
  <2> QED BY <2>3, <2>4, <2>6
<1> QED BY <1>3 DEF Good

(* After as many rounds as there are elements there is nothing more to     *)
(* reach, and nothing has been reached that need not be.                   *)
LEMMA RoundsStay ==
    ASSUME NEW N \in Nat, NEW base, NEW R, NEW f, Rounds(f, N, base, R), NEW S, base \subseteq S,
           \A j \in S : R[j] \subseteq S
    PROVE  \A n \in 0 .. N : f[n] \subseteq S
<1> SUFFICES ASSUME NEW b \in 0 .. N, ~ (f[b] \subseteq S) PROVE FALSE
  OBVIOUS
<1> DEFINE bad == {n \in 0 .. N : ~ (f[n] \subseteq S)}
<1>1. b \in bad /\ bad \in SUBSET Nat
  OBVIOUS
<1>2. PICK m \in bad : \A k \in bad : m <= k
  BY <1>1, Least
<1>3. m # 0 /\ m \in 1 .. N
  BY <1>2 DEF Rounds
<1>4. m - 1 \in 0 .. N /\ ~ (m <= m - 1)
  BY <1>3
<1>5. f[m - 1] \subseteq S /\ f[m] = Further(R, f[m - 1])
  BY <1>2, <1>3, <1>4 DEF Rounds
<1>6. f[m] \subseteq S
  BY <1>5 DEF Further
<1> QED BY <1>2, <1>6

(* S is the least set that holds the base and is closed under R.           *)
Reaches(base, R, S) ==
    /\ base \subseteq S
    /\ \A j \in S : R[j] \subseteq S
    /\ \A U : base \subseteq U /\ (\A j \in U : R[j] \subseteq U) => S \subseteq U

(* With as many rounds as there are elements the closure is reached: a     *)
(* round that adds nothing is the last, and one that adds something adds   *)
(* an element.                                                             *)
LEMMA RoundsClose ==
    ASSUME NEW D, IsFiniteSet(D), NEW N \in Nat, N >= Cardinality(D), NEW base \in SUBSET D,
           NEW R \in [D -> SUBSET D], NEW f, Rounds(f, N, base, R)
    PROVE  f[N] \in SUBSET D /\ Reaches(base, R, f[N])
<1>1. \A n \in 0 .. N : f[n] \subseteq D
  <2>1. \A j \in D : R[j] \subseteq D
    OBVIOUS
  <2> QED BY <2>1, RoundsStay
<1> DEFINE Shut(n) == \A j \in f[n] : R[j] \subseteq f[n]
           Good(n) == base \subseteq f[n] /\ (Shut(n) \/ Cardinality(f[n]) >= n + 1)
<1>2. \A n \in 0 .. N : IsFiniteSet(f[n]) /\ Cardinality(f[n]) \in Nat
  BY <1>1, FS_Subset, FS_CardinalityType
<1>3. Good(0)
  <2>1. f[0] = base /\ 0 \in 0 .. N
    BY DEF Rounds
  <2>2. CASE base = {}
    BY <2>1, <2>2
  <2>3. CASE base # {}
    <3>1. Cardinality(f[0]) # 0
      BY <1>2, <2>1, <2>3, FS_EmptySet
    <3> QED BY <1>2, <2>1, <3>1
  <2> QED BY <2>2, <2>3
<1>4. ASSUME NEW n \in 0 .. N, n # N, Good(n) PROVE Good(n + 1)
  <2>1. n + 1 \in 1 .. N /\ (n + 1) - 1 = n /\ n + 1 \in 0 .. N
    BY <1>4
  <2>2. f[n + 1] = Further(R, f[n])
    BY <2>1 DEF Rounds
  <2>3. f[n] \subseteq f[n + 1]
    BY <2>2 DEF Further
  <2>4. CASE Shut(n)
    <3>1. f[n + 1] = f[n]
      BY <2>2, <2>4 DEF Further
    <3> QED BY <1>4, <2>4, <3>1
  <2>5. CASE ~ Shut(n)
    <3>1. PICK x : x \in f[n + 1] /\ x \notin f[n]
      BY <2>2, <2>5 DEF Further
    <3>2. IsFiniteSet(f[n]) /\ IsFiniteSet(f[n + 1]) /\ Cardinality(f[n]) \in Nat /\ Cardinality(f[n + 1]) \in Nat
      BY <1>2, <2>1
    <3>3. Cardinality(f[n]) < Cardinality(f[n + 1])
      <4>1. Cardinality(f[n]) <= Cardinality(f[n + 1]) /\ (Cardinality(f[n]) = Cardinality(f[n + 1]) => f[n] = f[n + 1])
        BY <2>3, <3>2, FS_Subset
      <4> QED BY <3>1, <3>2, <4>1
    <3>4. Cardinality(f[n]) >= n + 1
      BY <1>4, <2>5
    <3>5. Cardinality(f[n + 1]) >= (n + 1) + 1
      BY <3>2, <3>3, <3>4
    <3> QED BY <1>4, <2>3, <3>5
  <2> QED BY <2>4, <2>5
<1> HIDE DEF Good
<1>5. ASSUME NEW b \in 0 .. N, ~ Good(b) PROVE FALSE
  <2> DEFINE bad == {n \in 0 .. N : ~ Good(n)}
  <2>1. b \in bad /\ bad \in SUBSET Nat
    BY <1>5
  <2>2. PICK m \in bad : \A k \in bad : m <= k
    BY <2>1, Least
  <2>3. m # 0 /\ m \in 0 .. N /\ ~ Good(m)
    BY <1>3, <2>2
  <2>4. m - 1 \in 0 .. N /\ m - 1 # N /\ (m - 1) + 1 = m /\ ~ (m <= m - 1)
    BY <2>3
  <2>5. Good(m - 1)
    BY <2>2, <2>4
  <2>6. Good((m - 1) + 1)
    BY <1>4, <2>4, <2>5
  <2> QED BY <2>3, <2>4, <2>6
<1>6. N \in 0 .. N
  OBVIOUS
<1>7. Good(N)
  BY <1>5, <1>6
<1>8. Shut(N)
  <2>1. Cardinality(f[N]) <= Cardinality(D) /\ Cardinality(D) \in Nat /\ Cardinality(f[N]) \in Nat
    BY <1>1, <1>2, <1>6, FS_Subset, FS_CardinalityType
  <2>2. ~ (Cardinality(f[N]) >= N + 1)
    BY <2>1
  <2> QED BY <1>7, <2>2 DEF Good
<1>9. ASSUME NEW S, base \subseteq S, \A j \in S : R[j] \subseteq S PROVE f[N] \subseteq S
  BY <1>6, <1>9, RoundsStay
<1> QED BY <1>1, <1>6, <1>7, <1>8, <1>9 DEF Good, Reaches
-----------------------------------------------------------------------------
(* t is s after frame i was unlinked from its list; what else is in gone   *)
(* has no owner left.                                                      *)
Closer(own, pos, i, j) == IF own[j] = own[i] /\ pos[j] > pos[i] THEN pos[j] - 1 ELSE pos[j]
Unlinks(s, own, pos, i, gone, t) ==
    /\ i \in gone /\ gone \subseteq DOMAIN s.frame
    /\ DOMAIN t.frame \subseteq DOMAIN s.frame /\ DOMAIN s.frame \ gone \subseteq DOMAIN t.frame
    /\ own[i] \in Owners(t)
    /\ \A j \in DOMAIN s.frame \ gone : own[j] \in Owners(t)
    /\ \A j \in gone \ {i} : own[j] \notin Owners(t)
    /\ \A o \in Owners(t) \ {own[i]} : /\ Count(t, o) = Count(s, o) /\ First(t, o) = First(s, o)
                                       /\ Final(t, o) = Final(s, o)
    /\ Count(t, own[i]) = Count(s, own[i]) - 1
    /\ First(t, own[i]) = (IF pos[i] = 1 THEN s.frame[i].next ELSE First(s, own[i]))
    /\ Final(t, own[i]) = (IF pos[i] = Count(s, own[i]) THEN s.frame[i].prev ELSE Final(s, own[i]))
    /\ \A j \in DOMAIN s.frame \ gone :
         /\ t.frame[j].next = (IF own[j] = own[i] /\ pos[j] + 1 = pos[i] THEN s.frame[i].next
                               ELSE s.frame[j].next)
         /\ t.frame[j].prev = (IF own[j] = own[i] /\ pos[j] = pos[i] + 1 THEN s.frame[i].prev
                               ELSE s.frame[j].prev)

(* The places left in it: the frames behind i move up by one.              *)
Remaining(s, own, pos, i, gone, t) ==
    Placed(t, DOMAIN s.frame \ gone, [j \in DOMAIN s.frame \ gone |-> own[j]],
           [j \in DOMAIN s.frame \ gone |-> Closer(own, pos, i, j)])

(* Unlinking a frame and dropping all it owns leaves whole lists.          *)
LEMMA UnlinkPlaced ==
    ASSUME NEW s, NEW own, NEW pos, Whole(s, own, pos), NEW t, NEW gone, NEW i,
           Unlinks(s, own, pos, i, gone, t)
    PROVE  Remaining(s, own, pos, i, gone, t)
<1> DEFINE D == DOMAIN s.frame
           E == D \ gone
           o2 == [j \in D \ gone |-> own[j]]
           p2 == [j \in D \ gone |-> Closer(own, pos, i, j)]
           o == own[i]
           p == pos[i]
           C == Count(s, own[i])
<1>1. /\ i \in D /\ i \in gone /\ gone \subseteq D /\ E \subseteq DOMAIN t.frame
      /\ o \in Owners(t) /\ Owners(t) \subseteq Owners(s) /\ o \in Owners(s)
  BY DEF Unlinks, Owners
<1>2. /\ \A j \in D : own[j] \in Owners(s) /\ pos[j] \in Nat \ {0} /\ FramePlaced(s, D, own, pos, j)
      /\ \A x \in Owners(s) : ListPlaced(s, D, own, pos, x)
      /\ \A j, k \in D : own[j] = own[k] /\ pos[j] = pos[k] => j = k
  BY DEF Whole, Placed
<1>3. /\ p \in Nat \ {0} /\ C \in Nat /\ p <= C
  BY <1>1, <1>2 DEF FramePlaced, ListPlaced
<1>4. /\ \A j \in E : own[j] \in Owners(t)
      /\ \A j \in gone \ {i} : own[j] \notin Owners(t)
      /\ \A x \in Owners(t) \ {o} : /\ Count(t, x) = Count(s, x) /\ First(t, x) = First(s, x)
                                    /\ Final(t, x) = Final(s, x)
      /\ Count(t, o) = C - 1
      /\ First(t, o) = (IF p = 1 THEN s.frame[i].next ELSE First(s, o))
      /\ Final(t, o) = (IF p = C THEN s.frame[i].prev ELSE Final(s, o))
      /\ \A j \in E :
         /\ t.frame[j].next = (IF own[j] = o /\ pos[j] + 1 = p THEN s.frame[i].next
                               ELSE s.frame[j].next)
         /\ t.frame[j].prev = (IF own[j] = o /\ pos[j] = p + 1 THEN s.frame[i].prev
                               ELSE s.frame[j].prev)
  BY DEF Unlinks
<1>5. \A j \in D : own[j] \in Owners(t) /\ j # i => j \in E
  BY <1>4
<1>6. \A j \in E : /\ o2[j] = own[j]
                   /\ p2[j] = (IF own[j] = o /\ pos[j] > p THEN pos[j] - 1 ELSE pos[j])
                   /\ j \in D /\ (own[j] = o => pos[j] # p)
  <2>1. \A j \in E : j \in D /\ j # i
    BY <1>1
  <2> QED BY <1>1, <1>2, <2>1 DEF Closer
<1>7. /\ p = 1 => s.frame[i].prev = Nil
      /\ p # 1 => /\ s.frame[i].prev \in E /\ own[s.frame[i].prev] = o /\ pos[s.frame[i].prev] = p - 1
      /\ p = C => s.frame[i].next = Nil
      /\ p # C => /\ s.frame[i].next \in E /\ own[s.frame[i].next] = o /\ pos[s.frame[i].next] = p + 1
  <2>1. FramePlaced(s, D, own, pos, i)
    BY <1>1, <1>2
  <2>2. p # 1 => /\ s.frame[i].prev \in D /\ own[s.frame[i].prev] = o /\ pos[s.frame[i].prev] = p - 1
                 /\ s.frame[i].prev # i
    BY <2>1, <1>3 DEF FramePlaced
  <2>3. p # C => /\ s.frame[i].next \in D /\ own[s.frame[i].next] = o /\ pos[s.frame[i].next] = p + 1
                 /\ s.frame[i].next # i
    BY <2>1, <1>3 DEF FramePlaced
  <2>4. (p = 1 => s.frame[i].prev = Nil) /\ (p = C => s.frame[i].next = Nil)
    BY <2>1 DEF FramePlaced
  <2> QED BY <2>2, <2>3, <2>4, <1>1, <1>5
<1>8. o2 \in [E -> Owners(t)] /\ p2 \in [E -> Nat \ {0}]
  <2>1. \A j \in E : o2[j] \in Owners(t) /\ p2[j] \in Nat \ {0}
    <3> SUFFICES ASSUME NEW j \in E PROVE o2[j] \in Owners(t) /\ p2[j] \in Nat \ {0}
      OBVIOUS
    <3>1. /\ o2[j] = own[j] /\ j \in D
          /\ p2[j] = (IF own[j] = o /\ pos[j] > p THEN pos[j] - 1 ELSE pos[j])
      BY <1>6
    <3>2. own[j] \in Owners(t) /\ pos[j] \in Nat \ {0}
      BY <1>2, <1>4, <3>1
    <3> HIDE DEF o2, p2, E, D, o, p
    <3> QED BY <1>3, <3>1, <3>2
  <2>2. o2 = [j \in E |-> o2[j]] /\ p2 = [j \in E |-> p2[j]]
    OBVIOUS
  <2> HIDE DEF o2, p2, E
  <2> QED BY <2>1, <2>2
<1> HIDE DEF o2, p2, E, D, o, p, C
<1>9. ASSUME NEW x \in Owners(t) PROVE ListPlaced(t, E, o2, p2, x)
  <2>1. ListPlaced(s, D, own, pos, x)
    BY <1>1, <1>2
  <2>2. CASE x # o
    <3>1. Count(t, x) = Count(s, x) /\ First(t, x) = First(s, x) /\ Final(t, x) = Final(s, x)
      BY <1>4, <2>2
    <3>2. Count(s, x) # 0 => First(s, x) \in E /\ Final(s, x) \in E
      BY <1>5, <2>1, <2>2 DEF ListPlaced, o
    <3> QED BY <2>1, <2>2, <3>1, <3>2, <1>6 DEF ListPlaced
  <2>3. CASE x = o
    <3>1. CASE C = 1
      BY <3>1, <2>3, <1>3, <1>4, <1>7 DEF ListPlaced
    <3>2. CASE C # 1
      <4>0. C - 1 \in Nat /\ C - 1 # 0 /\ C # 0 /\ Count(t, o) = C - 1 /\ Count(s, o) = C
        BY <3>2, <1>3, <1>4 DEF C, o
      <4>1. First(t, o) \in E /\ o2[First(t, o)] = o /\ p2[First(t, o)] = 1
        <5>1. CASE p = 1
          BY <5>1, <3>2, <1>3, <1>4, <1>6, <1>7
        <5>2. CASE p # 1
          <6>1. First(s, o) \in D /\ own[First(s, o)] = o /\ pos[First(s, o)] = 1 /\ First(s, o) # i
            BY <2>1, <2>3, <4>0, <5>2 DEF ListPlaced, p
          <6>2. First(s, o) \in E /\ First(t, o) = First(s, o)
            BY <6>1, <1>1, <1>4, <1>5, <5>2
          <6> QED BY <6>1, <6>2, <1>3, <1>6, <5>2
        <5> QED BY <5>1, <5>2
      <4>2. Final(t, o) \in E /\ o2[Final(t, o)] = o /\ p2[Final(t, o)] = C - 1
        <5>1. CASE p = C
          BY <5>1, <3>2, <1>3, <1>4, <1>6, <1>7
        <5>2. CASE p # C
          <6>1. Final(s, o) \in D /\ own[Final(s, o)] = o /\ pos[Final(s, o)] = C /\ Final(s, o) # i
            BY <2>1, <2>3, <4>0, <5>2 DEF ListPlaced, p
          <6>2. Final(s, o) \in E /\ Final(t, o) = Final(s, o)
            BY <6>1, <1>1, <1>4, <1>5, <5>2
          <6> QED BY <6>1, <6>2, <1>3, <1>6, <5>2
        <5> QED BY <5>1, <5>2
      <4> QED BY <4>0, <4>1, <4>2, <2>3 DEF ListPlaced
    <3> QED BY <3>1, <3>2
  <2> QED BY <2>2, <2>3
<1>10. ASSUME NEW j \in E PROVE FramePlaced(t, E, o2, p2, j)
  <2>1. /\ j \in D /\ FramePlaced(s, D, own, pos, j) /\ own[j] \in Owners(t) /\ own[j] \in Owners(s)
        /\ pos[j] \in Nat \ {0} /\ j # i
    BY <1>1, <1>2, <1>4, <1>6 DEF E
  <2>2. Count(s, own[j]) \in Nat
    BY <1>2, <2>1 DEF ListPlaced
  <2>3. /\ o2[j] = own[j] /\ p2[j] = (IF own[j] = o /\ pos[j] > p THEN pos[j] - 1 ELSE pos[j])
        /\ (own[j] = o => pos[j] # p)
        /\ t.frame[j].next = (IF own[j] = o /\ pos[j] + 1 = p THEN s.frame[i].next ELSE s.frame[j].next)
        /\ t.frame[j].prev = (IF own[j] = o /\ pos[j] = p + 1 THEN s.frame[i].prev ELSE s.frame[j].prev)
    BY <1>4, <1>6
  <2>4. \A k \in D : own[k] = own[j] /\ k # i => k \in E
    BY <1>5, <2>1
  <2>5. pos[j] # 1 => /\ s.frame[j].prev \in D /\ own[s.frame[j].prev] = own[j]
                      /\ pos[s.frame[j].prev] = pos[j] - 1
    BY <2>1 DEF FramePlaced
  <2>6. pos[j] # Count(s, own[j]) => /\ s.frame[j].next \in D /\ own[s.frame[j].next] = own[j]
                                     /\ pos[s.frame[j].next] = pos[j] + 1
    BY <2>1 DEF FramePlaced
  <2>7. (pos[j] = 1 => s.frame[j].prev = Nil) /\ (pos[j] = Count(s, own[j]) => s.frame[j].next = Nil)
        /\ pos[j] <= Count(s, own[j])
    BY <2>1 DEF FramePlaced
  <2>8. CASE own[j] # o
    <3>1. Count(t, own[j]) = Count(s, own[j])
      BY <1>4, <2>1, <2>8
    <3>2. pos[j] # 1 => s.frame[j].prev \in E
      BY <2>4, <2>5, <2>8 DEF o
    <3>3. pos[j] # Count(s, own[j]) => s.frame[j].next \in E
      BY <2>4, <2>6, <2>8 DEF o
    <3> QED BY <2>3, <2>5, <2>6, <2>7, <2>8, <3>1, <3>2, <3>3, <1>6 DEF FramePlaced
  <2>9. CASE own[j] = o
    <3>1. Count(t, o2[j]) = C - 1 /\ Count(s, own[j]) = C /\ o2[j] = o
      BY <1>4, <2>3, <2>9 DEF C, o
    <3>2. pos[j] # 1 /\ pos[j] # p + 1 => s.frame[j].prev \in E
      <4>1. SUFFICES ASSUME pos[j] # 1, pos[j] # p + 1 PROVE s.frame[j].prev \in E
        OBVIOUS
      <4>2. s.frame[j].prev # i
        BY <2>5, <4>1, <2>1, <1>3 DEF p
      <4> QED BY <2>4, <2>5, <4>1, <4>2
    <3>3. pos[j] # C /\ pos[j] + 1 # p => s.frame[j].next \in E
      <4>1. SUFFICES ASSUME pos[j] # C, pos[j] + 1 # p PROVE s.frame[j].next \in E
        OBVIOUS
      <4>2. s.frame[j].next # i
        BY <2>6, <3>1, <4>1, <2>1, <1>3 DEF p
      <4> QED BY <2>4, <2>6, <3>1, <4>1, <4>2
    <3>4. /\ p2[j] <= C - 1
          /\ p2[j] = 1 => t.frame[j].prev = Nil
          /\ p2[j] # 1 => t.frame[j].prev \in E /\ o2[t.frame[j].prev] = o /\ p2[t.frame[j].prev] = p2[j] - 1
      <4>1. CASE pos[j] = p + 1
        <5>1. p2[j] = p /\ t.frame[j].prev = s.frame[i].prev
          BY <4>1, <2>3, <2>9, <1>3
        <5> QED BY <5>1, <4>1, <1>3, <1>6, <1>7, <2>7, <3>1
      <4>2. CASE pos[j] # p + 1
        <5>1. t.frame[j].prev = s.frame[j].prev
          BY <4>2, <2>3, <2>9
        <5>2. CASE pos[j] > p
          BY <5>1, <5>2, <4>2, <3>1, <3>2, <2>1, <2>3, <2>5, <2>7, <2>9, <1>3, <1>6
        <5>3. CASE ~ (pos[j] > p)
          BY <5>1, <5>3, <4>2, <3>1, <3>2, <2>1, <2>3, <2>5, <2>7, <2>9, <1>3, <1>6
        <5> QED BY <5>2, <5>3
      <4> QED BY <4>1, <4>2
    <3>5. /\ p2[j] = C - 1 => t.frame[j].next = Nil
          /\ p2[j] # C - 1 => t.frame[j].next \in E /\ o2[t.frame[j].next] = o /\ p2[t.frame[j].next] = p2[j] + 1
      <4>1. CASE pos[j] + 1 = p
        <5>1. p2[j] = p - 1 /\ t.frame[j].next = s.frame[i].next
          BY <4>1, <2>1, <2>3, <2>9, <1>3
        <5> QED BY <5>1, <4>1, <1>3, <1>6, <1>7, <2>7, <3>1
      <4>2. CASE pos[j] + 1 # p
        <5>1. t.frame[j].next = s.frame[j].next
          BY <4>2, <2>3, <2>9
        <5>2. CASE pos[j] > p
          BY <5>1, <5>2, <4>2, <3>1, <3>3, <2>1, <2>3, <2>6, <2>7, <2>9, <1>3, <1>6
        <5>3. CASE ~ (pos[j] > p)
          BY <5>1, <5>3, <4>2, <3>1, <3>3, <2>1, <2>3, <2>6, <2>7, <2>9, <1>3, <1>6
        <5> QED BY <5>2, <5>3
      <4> QED BY <4>1, <4>2
    <3> QED BY <3>1, <3>4, <3>5 DEF FramePlaced
  <2> QED BY <2>8, <2>9
<1>11. \A j, k \in E : o2[j] = o2[k] /\ p2[j] = p2[k] => j = k
  <2> SUFFICES ASSUME NEW j \in E, NEW k \in E, o2[j] = o2[k], p2[j] = p2[k] PROVE j = k
    OBVIOUS
  <2>1. j \in D /\ k \in D /\ own[j] = own[k] /\ pos[j] \in Nat /\ pos[k] \in Nat
    BY <1>2, <1>6
  <2>2. pos[j] = pos[k]
    BY <2>1, <1>3, <1>6
  <2> QED BY <1>2, <2>1, <2>2
<1>12. Placed(t, E, o2, p2)
  BY <1>1, <1>8, <1>9, <1>10, <1>11 DEF Placed
<1> QED BY <1>12 DEF E, o2, p2, D, Remaining

(* The generators met are the frames owned.                                *)
LEMMA GeneratorsAre ==
    ASSUME NEW s, NEW own, NEW pos, Whole(s, own, pos), NEW o \in DOMAIN s.frame
    PROVE  ToSet(Generators(s, o)) = {j \in DOMAIN s.frame : own[j] = o}
<1>1. o \in Owners(s) /\ o # Nil
  BY DEF Owners, Whole, IsStack, Nil
<1>2. PICK q : Ordered(s, own, pos, o, q)
  BY <1>1, AnOrder
<1>3. Generators(s, o) = q
  BY <1>1, <1>2, WalkIs DEF Generators, First
<1>4. /\ Len(q) \in Nat
      /\ \A j \in DOMAIN s.frame : own[j] = o => pos[j] \in 1 .. Len(q) /\ q[pos[j]] = j
  BY <1>1, <1>2, Neighbours
<1>5. DOMAIN q = 1 .. Len(q) /\ \A k \in 1 .. Len(q) : own[q[k]] = o /\ q[k] \in DOMAIN s.frame
  BY <1>2, LenProperties DEF Ordered
<1>6. ToSet(q) = {q[k] : k \in 1 .. Len(q)}
  BY <1>5 DEF ToSet
<1> QED BY <1>3, <1>4, <1>5, <1>6

(* Owned is the frame with all that it owns, directly or through others:   *)
(* what Destroy frees.                                                     *)
LEMMA OwnedIs ==
    ASSUME NEW s, NEW own, NEW pos, Whole(s, own, pos), NEW i \in DOMAIN s.frame
    PROVE  /\ i \in Owned(s, i) /\ Owned(s, i) \subseteq DOMAIN s.frame
           /\ \A j \in DOMAIN s.frame : own[j] \in Owned(s, i) => j \in Owned(s, i)
           /\ \A j \in Owned(s, i) \ {i} : own[j] \in Owned(s, i)
<1> DEFINE D == DOMAIN s.frame
           N == Cardinality(DOMAIN s.frame)
           R == [o \in D |-> {j \in D : own[j] = o}]
           Nth(f, n) == IF n = 0 THEN {i} ELSE f[n - 1] \cup UNION {ToSet(Generators(s, j)) : j \in f[n - 1]}
           F == CHOOSE f : f = [n \in 0 .. Cardinality(DOMAIN s.frame) |->
                  IF n = 0 THEN {i}
                  ELSE f[n - 1] \cup UNION {ToSet(Generators(s, j)) : j \in f[n - 1]}]
<1>1. IsFiniteSet(D) /\ N \in Nat /\ R \in [D -> SUBSET D] /\ {i} \in SUBSET D
  BY FS_CardinalityType DEF Whole, IsStack
<1>2. \A o \in D : R[o] = ToSet(Generators(s, o))
  BY GeneratorsAre
<1>3. Owned(s, i) = F[N]
  BY DEF Owned
<1> HIDE DEF D, R, N
<1>4. ASSUME NEW S \in SUBSET D PROVE Further(R, S) = S \cup UNION {ToSet(Generators(s, j)) : j \in S}
  BY <1>2 DEF Further
<1>5. PICK f : Rounds(f, N, {i}, R) /\ \A n \in 0 .. N : f[n] \in SUBSET D
  BY <1>1, RoundsExist
<1>6. \A n \in 0 .. N : f[n] = Nth(f, n)
  <2> SUFFICES ASSUME NEW n \in 0 .. N PROVE f[n] = Nth(f, n)
    OBVIOUS
  <2>1. CASE n = 0
    BY <1>5, <2>1 DEF Rounds
  <2>2. CASE n # 0
    <3>1. n \in 1 .. N /\ n - 1 \in 0 .. N
      BY <1>1, <2>2
    <3>2. f[n] = Further(R, f[n - 1]) /\ f[n - 1] \in SUBSET D
      BY <1>5, <3>1 DEF Rounds
    <3> QED BY <1>4, <2>2, <3>2
  <2> QED BY <2>1, <2>2
<1>7. f = [n \in 0 .. N |-> Nth(f, n)]
  <2>1. f = [n \in 0 .. N |-> f[n]]
    BY <1>5 DEF Rounds
  <2> HIDE DEF Nth
  <2> QED BY <1>6, <2>1
<1>8. F = [n \in 0 .. N |-> Nth(F, n)]
  BY <1>7 DEF N
<1> HIDE DEF F
<1>9. F[N] \in SUBSET D /\ Rounds(F, N, {i}, R)
  <2>1. \A n \in 0 .. N : F[n] = Nth(F, n)
    <3> HIDE DEF Nth
    <3> QED BY <1>8
  <2>2. F = [n \in 0 .. N |-> F[n]]
    <3> HIDE DEF Nth
    <3> QED BY <1>8
  <2>3. ASSUME NEW b \in 0 .. N, F[b] # f[b] PROVE FALSE
    <3> DEFINE bad == {n \in 0 .. N : F[n] # f[n]}
    <3>1. b \in bad /\ bad \in SUBSET Nat
      BY <2>3
    <3>2. PICK m \in bad : \A k \in bad : m <= k
      BY <3>1, Least
    <3>3. F[m] = Nth(F, m) /\ f[m] = Nth(f, m) /\ F[m] # f[m]
      BY <1>6, <2>1, <3>2
    <3>4. m # 0
      BY <3>3
    <3>5. m - 1 \in 0 .. N /\ ~ (m <= m - 1)
      BY <1>1, <3>2, <3>4
    <3>6. F[m - 1] = f[m - 1]
      BY <3>2, <3>5
    <3> QED BY <3>3, <3>4, <3>6
  <2>4. F = f
    <3>1. f = [n \in 0 .. N |-> f[n]]
      BY <1>5 DEF Rounds
    <3>2. \A n \in 0 .. N : F[n] = f[n]
      BY <2>3
    <3> QED BY <2>2, <3>1, <3>2
  <2>5. N \in 0 .. N
    BY <1>1
  <2> QED BY <1>5, <2>4, <2>5
<1>a. F[N] \in SUBSET D /\ Reaches({i}, R, F[N])
  <2>1. N >= Cardinality(D)
    BY <1>1 DEF N, D
  <2> QED BY <1>1, <1>9, <2>1, RoundsClose
<1> DEFINE G == F[N]
<1>10. /\ G \in SUBSET D /\ {i} \subseteq G
       /\ \A j \in G : R[j] \subseteq G
       /\ \A S : {i} \subseteq S /\ (\A j \in S : R[j] \subseteq S) => G \subseteq S
  BY <1>a DEF Reaches
<1>11. \A j \in D : own[j] \in G => j \in G
  <2>1. \A j \in D, o \in G : own[j] = o => j \in R[o]
    BY <1>10 DEF R
  <2> QED BY <1>10, <2>1
<1>12. \A j \in G \ {i} : own[j] \in G
  <2> DEFINE S == {j \in G : j = i \/ own[j] \in G}
  <2>1. {i} \subseteq S
    BY <1>10
  <2>2. ASSUME NEW j \in S PROVE R[j] \subseteq S
    <3>1. j \in G /\ j \in D /\ R[j] \subseteq G
      BY <1>10
    <3>2. \A x \in R[j] : own[x] = j
      BY <3>1 DEF R
    <3> QED BY <3>1, <3>2
  <2>3. G \subseteq S
    <3> HIDE DEF S
    <3> QED BY <1>10, <2>1, <2>2
  <2> QED BY <2>3
<1> QED BY <1>3, <1>10, <1>11, <1>12 DEF D

(* t is what is left of s when frame i and all it owns are gone.           *)
Lost(s, own, pos, i, t) ==
    LET gone == Owned(s, i)
    IN /\ i \in gone /\ gone \subseteq DOMAIN s.frame /\ DOMAIN t.frame = DOMAIN s.frame \ gone
       /\ \A j \in DOMAIN s.frame : own[j] \in gone => j \in gone
       /\ \A j \in gone \ {i} : own[j] \in gone /\ own[j] # Nil
       /\ \A j \in DOMAIN t.frame : Content(t.frame[j]) = Content(s.frame[j])
       /\ t.size = s.size - 1
       /\ Whole(t, [j \in DOMAIN t.frame |-> own[j]], [j \in DOMAIN t.frame |-> Closer(own, pos, i, j)])

(* Destroy frees these frames and leaves every pointer as it was.          *)
LEMMA DestroyIs ==
    ASSUME NEW s, IsStack(s), NEW i
    PROVE  LET d == Destroy(s, i)
           IN /\ d.frame = [j \in DOMAIN s.frame \ Owned(s, i) |-> s.frame[j]]
              /\ DOMAIN d.frame = DOMAIN s.frame \ Owned(s, i)
              /\ d = [frame |-> d.frame, bottom |-> s.bottom, top |-> s.top, size |-> s.size]
  BY DEF Destroy, IsStack

(* The top frame, and the one under it.                                    *)
LEMMA TopIs ==
    ASSUME NEW s, NEW own, NEW pos, Whole(s, own, pos), s.size # 0
    PROVE  /\ s.size \in Nat /\ Nil \notin DOMAIN s.frame
           /\ s.top \in DOMAIN s.frame /\ own[s.top] = Nil /\ pos[s.top] = s.size
           /\ s.bottom \in DOMAIN s.frame /\ own[s.bottom] = Nil /\ pos[s.bottom] = 1
           /\ s.frame[s.top].next = Nil
           /\ Caller(s) = s.frame[s.top].prev
           /\ s.size = 1 => Caller(s) = Nil
           /\ s.size # 1 => /\ Caller(s) \in DOMAIN s.frame /\ own[Caller(s)] = Nil
                            /\ pos[Caller(s)] = s.size - 1 /\ Caller(s) # s.top /\ Caller(s) # Nil
           /\ \A j \in DOMAIN s.frame : own[j] = Nil => pos[j] \in 1 .. s.size
           /\ \A j \in DOMAIN s.frame : own[j] = Nil /\ pos[j] = s.size => j = s.top
           /\ \A j \in DOMAIN s.frame : own[j] = Nil /\ pos[j] = s.size - 1 => j = Caller(s)
<1>1. /\ ListPlaced(s, DOMAIN s.frame, own, pos, Nil) /\ Nil \notin DOMAIN s.frame
      /\ \A j \in DOMAIN s.frame : FramePlaced(s, DOMAIN s.frame, own, pos, j) /\ pos[j] \in Nat \ {0}
      /\ \A j, k \in DOMAIN s.frame : own[j] = own[k] /\ pos[j] = pos[k] => j = k
  BY DEF Whole, Placed, IsStack, Owners, Nil
<1>2. /\ s.size \in Nat
      /\ s.top \in DOMAIN s.frame /\ own[s.top] = Nil /\ pos[s.top] = s.size
      /\ s.bottom \in DOMAIN s.frame /\ own[s.bottom] = Nil /\ pos[s.bottom] = 1
  BY <1>1 DEF ListPlaced, Count, First, Final
<1>3. Caller(s) = s.frame[s.top].prev
  BY DEF Caller, Top
<1>4. FramePlaced(s, DOMAIN s.frame, own, pos, s.top) /\ Count(s, own[s.top]) = s.size
  BY <1>1, <1>2 DEF Count
<1>5. /\ s.frame[s.top].next = Nil
      /\ s.size = 1 => Caller(s) = Nil
      /\ s.size # 1 => /\ Caller(s) \in DOMAIN s.frame /\ own[Caller(s)] = Nil
                       /\ pos[Caller(s)] = s.size - 1
  BY <1>2, <1>3, <1>4 DEF FramePlaced
<1>6. s.size # 1 => Caller(s) # s.top /\ Caller(s) # Nil
  BY <1>1, <1>2, <1>5
<1>7. ASSUME NEW j \in DOMAIN s.frame, own[j] = Nil PROVE pos[j] \in 1 .. s.size
  BY <1>1, <1>2, <1>7 DEF FramePlaced, Count
<1>8. \A j \in DOMAIN s.frame : own[j] = Nil /\ pos[j] = s.size => j = s.top
  BY <1>1, <1>2
<1>9. ASSUME NEW j \in DOMAIN s.frame, own[j] = Nil, pos[j] = s.size - 1 PROVE j = Caller(s)
  <2>1. s.size # 1
    BY <1>1, <1>9
  <2> QED BY <1>1, <1>5, <1>9, <2>1
<1> QED BY <1>1, <1>2, <1>3, <1>5, <1>6, <1>7, <1>8, <1>9

(* Pop frees the top with all it owns, and only that (stack_pop,           *)
(* stack_frame_destroy): all lists remain whole.                           *)
LEMMA PopWhole ==
    ASSUME NEW s, NEW own, NEW pos, Whole(s, own, pos), s.size # 0
    PROVE  Lost(s, own, pos, s.top, Pop(s)) /\ Pop(s).top = Caller(s)
<1> DEFINE i == s.top
           below == Caller(s)
           D == DOMAIN s.frame
           gone == Owned(s, i)
           d == Destroy(s, i)
           e == [d EXCEPT !.top = below, !.size = @ - 1, !.bottom = IF s.size = 1 THEN Nil ELSE @]
           t == IF below = Nil THEN e ELSE [e EXCEPT !.frame[below].next = Nil]
<1>0. Pop(s) = t
  BY DEF Pop
<1>1. /\ s.size \in Nat /\ Nil \notin D
      /\ i \in D /\ own[i] = Nil /\ pos[i] = s.size
      /\ s.bottom \in D /\ own[s.bottom] = Nil /\ pos[s.bottom] = 1
      /\ s.frame[i].next = Nil
      /\ below = s.frame[i].prev
      /\ s.size = 1 => below = Nil
      /\ s.size # 1 => below \in D /\ own[below] = Nil /\ pos[below] = s.size - 1 /\ below # i /\ below # Nil
      /\ \A j \in D : own[j] = Nil => pos[j] \in 1 .. s.size
      /\ \A j \in D : own[j] = Nil /\ pos[j] = s.size => j = i
      /\ \A j \in D : own[j] = Nil /\ pos[j] = s.size - 1 => j = below
  BY TopIs
<1>2. /\ i \in gone /\ gone \subseteq D
      /\ \A j \in D : own[j] \in gone => j \in gone
      /\ \A j \in gone \ {i} : own[j] \in gone
  BY <1>1, OwnedIs
<1> HIDE DEF gone, i, below
<1>3. /\ d.frame = [j \in D \ gone |-> s.frame[j]] /\ DOMAIN d.frame = D \ gone
      /\ d = [frame |-> d.frame, bottom |-> s.bottom, top |-> s.top, size |-> s.size]
  BY DestroyIs DEF Whole, gone, i
<1>4. below # Nil => below \in D \ gone
  <2>1. below # Nil => below \in D /\ own[below] = Nil /\ below # i
    BY <1>1
  <2> QED BY <2>1, <1>1, <1>2
<1> HIDE DEF d
<1>5. /\ t = [frame |-> t.frame, bottom |-> t.bottom, top |-> t.top, size |-> t.size]
      /\ t.frame = [j \in D \ gone |-> IF j = below THEN [s.frame[j] EXCEPT !.next = Nil] ELSE s.frame[j]]
      /\ t.top = below /\ t.size = s.size - 1 /\ t.bottom = (IF s.size = 1 THEN Nil ELSE s.bottom)
  <2>1. /\ e = [frame |-> d.frame, bottom |-> IF s.size = 1 THEN Nil ELSE s.bottom, top |-> below, size |-> s.size - 1]
    <3>1. d.bottom = s.bottom /\ d.size = s.size
      BY <1>3
    <3>2. d = [frame |-> d.frame, bottom |-> d.bottom, top |-> d.top, size |-> d.size]
      BY <1>3
    <3> DEFINE b == IF s.size = 1 THEN Nil ELSE d.bottom
               z == d.size - 1
    <3>3. e = [d EXCEPT !.top = below, !.size = z, !.bottom = b]
      OBVIOUS
    <3> HIDE DEF e, b, z, t
    <3>4. e = [frame |-> d.frame, bottom |-> b, top |-> below, size |-> z]
      BY <3>2, <3>3
    <3> QED BY <3>1, <3>4 DEF b, z
  <2> HIDE DEF e
  <2>2. CASE below = Nil
    <3>1. Nil \notin D
      BY <1>1
    <3>2. t.frame = [j \in D \ gone |-> s.frame[j]]
      BY <2>1, <2>2, <1>3
    <3>3. \A j \in D \ gone : j # below
      BY <2>2, <3>1
    <3>4. t.frame = [j \in D \ gone |-> IF j = below THEN [s.frame[j] EXCEPT !.next = Nil] ELSE s.frame[j]]
      BY <3>2, <3>3
    <3> QED BY <2>1, <2>2, <3>4
  <2>3. CASE below # Nil
    BY <2>1, <2>3, <1>3, <1>4, ZenonT(40)
  <2> QED BY <2>2, <2>3
<1> HIDE DEF t
<1>6. DOMAIN t.frame = D \ gone /\ t.frame = [j \in DOMAIN t.frame |-> t.frame[j]]
  BY <1>5
<1>7. ASSUME NEW j \in D \ gone
      PROVE  Pointers(t.frame[j], s.frame[j], s.frame[j].gBegin, s.frame[j].gEnd, s.frame[j].gSize,
                      IF j = below THEN Nil ELSE s.frame[j].next, s.frame[j].prev)
  <2> DEFINE f == s.frame[j]
  <2>1. IsFrame(f)
    BY DEF Whole, IsStack
  <2>2. CASE j = below
    <3>1. Pointers([f EXCEPT !.next = Nil], f, f.gBegin, f.gEnd, f.gSize, Nil, f.prev)
      BY <2>1, Setters
    <3>2. t.frame[j] = [f EXCEPT !.next = Nil]
      BY <1>5, <2>2
    <3> QED BY <3>1, <3>2, <2>2
  <2>3. CASE j # below
    <3>1. t.frame[j] = f
      BY <1>5, <2>3
    <3> QED BY <2>1, <2>3, <3>1 DEF Pointers, Setter
  <2> QED BY <2>2, <2>3
<1>8. IsStack(t)
  <2>1. IsFiniteSet(D \ gone) /\ D \ gone \subseteq Nat \ {0}
    BY FS_Subset DEF Whole, IsStack
  <2>2. \A j \in DOMAIN t.frame : IsFrame(t.frame[j])
    BY <1>6, <1>7 DEF Pointers, Setter
  <2> QED BY <1>5, <1>6, <2>1, <2>2 DEF IsStack
<1>9. Unlinks(s, own, pos, i, gone, t)
  <2>1. Owners(t) = (D \ gone) \cup {Nil} /\ Nil \notin gone
    BY <1>1, <1>2, <1>6 DEF Owners
  <2>2. \A j \in D \ gone : own[j] \in Owners(t)
    <3>1. \A j \in D \ gone : own[j] \in D \cup {Nil} /\ own[j] \notin gone
      BY <1>2 DEF Whole, Placed, Owners
    <3> QED BY <2>1, <3>1
  <2>3. \A j \in gone \ {i} : own[j] \notin Owners(t)
    BY <1>2, <2>1
  <2>4. ASSUME NEW o \in Owners(t) \ {own[i]}
        PROVE  Count(t, o) = Count(s, o) /\ First(t, o) = First(s, o) /\ Final(t, o) = Final(s, o)
    <3>1. o \in D \ gone /\ o # Nil
      BY <1>1, <2>1
    <3> QED BY <3>1, <1>7 DEF Count, First, Final, Pointers
  <2>5. /\ Count(t, own[i]) = Count(s, own[i]) - 1
        /\ First(t, own[i]) = (IF pos[i] = 1 THEN s.frame[i].next ELSE First(s, own[i]))
        /\ Final(t, own[i]) = (IF pos[i] = Count(s, own[i]) THEN s.frame[i].prev ELSE Final(s, own[i]))
    BY <1>1, <1>5 DEF Count, First, Final
  <2>6. ASSUME NEW j \in D \ gone
        PROVE  /\ t.frame[j].next = (IF own[j] = own[i] /\ pos[j] + 1 = pos[i] THEN s.frame[i].next
                               ELSE s.frame[j].next)
               /\ t.frame[j].prev = (IF own[j] = own[i] /\ pos[j] = pos[i] + 1 THEN s.frame[i].prev
                               ELSE s.frame[j].prev)
    <3>1. t.frame[j].next = (IF j = below THEN Nil ELSE s.frame[j].next) /\ t.frame[j].prev = s.frame[j].prev
      BY <1>7 DEF Pointers
    <3>2. ~ (own[j] = own[i] /\ pos[j] = pos[i] + 1)
      BY <1>1
    <3>3. own[j] = own[i] /\ pos[j] + 1 = pos[i] <=> j = below
      <4>1. pos[j] \in Nat
        BY DEF Whole, Placed
      <4>2. j = below => s.size # 1
        BY <1>1
      <4> QED BY <1>1, <4>1, <4>2
    <3> QED BY <3>1, <3>2, <3>3, <1>1
  <2> QED BY <1>1, <1>2, <1>6, <2>1, <2>2, <2>3, <2>4, <2>5, <2>6 DEF Unlinks
<1>10. Placed(t, D \ gone, [j \in D \ gone |-> own[j]], [j \in D \ gone |-> Closer(own, pos, i, j)])
  <2>1. Remaining(s, own, pos, i, gone, t)
    BY <1>9, UnlinkPlaced
  <2> QED BY <2>1 DEF Remaining
<1>11. Whole(t, [j \in DOMAIN t.frame |-> own[j]], [j \in DOMAIN t.frame |-> Closer(own, pos, i, j)])
  BY <1>6, <1>8, <1>10 DEF Whole
<1>12. \A j \in gone \ {i} : own[j] \in gone /\ own[j] # Nil
  BY <1>1, <1>2
<1>13. \A j \in DOMAIN t.frame : Content(t.frame[j]) = Content(s.frame[j])
  BY <1>6, <1>7 DEF Pointers, Setter
<1>14. Lost(s, own, pos, i, t) /\ t.top = below
  BY <1>2, <1>5, <1>6, <1>11, <1>12, <1>13 DEF Lost, gone
<1> QED BY <1>0, <1>14 DEF i, below

(* The merge of a tail call frees the caller with all it owns, and the top *)
(* stays the top (stack_lift_merge).                                       *)
LEMMA MergeWhole ==
    ASSUME NEW s, NEW own, NEW pos, Whole(s, own, pos), s.size >= 2
    PROVE  Lost(s, own, pos, Caller(s), LiftMerge(s)) /\ LiftMerge(s).top = s.top
<1> DEFINE top == s.top
           i == Caller(s)
           D == DOMAIN s.frame
           gone == Owned(s, i)
           below == s.frame[i].prev
           d == Destroy(s, i)
           e == [d EXCEPT !.frame[top].prev = below, !.size = @ - 1]
           t == IF s.size = 2 THEN [e EXCEPT !.bottom = top] ELSE [e EXCEPT !.frame[below].next = top]
<1>0. LiftMerge(s) = t
  BY DEF LiftMerge
<1>1. /\ s.size \in Nat /\ Nil \notin D
      /\ top \in D /\ own[top] = Nil /\ pos[top] = s.size
      /\ s.bottom \in D /\ own[s.bottom] = Nil /\ pos[s.bottom] = 1
      /\ s.frame[top].next = Nil /\ s.frame[top].prev = i
      /\ i \in D /\ own[i] = Nil /\ pos[i] = s.size - 1 /\ i # top /\ i # Nil
      /\ \A j \in D : own[j] = Nil => pos[j] \in 1 .. s.size
      /\ \A j \in D : own[j] = Nil /\ pos[j] = s.size => j = top
      /\ \A j \in D : own[j] = Nil /\ pos[j] = s.size - 1 => j = i
  <2>1. s.size # 0 /\ s.size # 1
    BY DEF Whole, Placed, ListPlaced, Count, Owners
  <2> QED BY <2>1, TopIs
<1>2. /\ i \in gone /\ gone \subseteq D
      /\ \A j \in D : own[j] \in gone => j \in gone
      /\ \A j \in gone \ {i} : own[j] \in gone
  BY <1>1, OwnedIs
<1>3. /\ s.frame[i].next = top
      /\ s.size = 2 => below = Nil
      /\ s.size # 2 => /\ below \in D /\ own[below] = Nil /\ pos[below] = s.size - 2
                       /\ below # i /\ below # Nil /\ below # top
  <2>1. FramePlaced(s, D, own, pos, i) /\ Count(s, own[i]) = s.size
    BY <1>1 DEF Whole, Placed, Count
  <2>2. s.frame[i].next \in D /\ own[s.frame[i].next] = Nil /\ pos[s.frame[i].next] = s.size
    BY <2>1, <1>1 DEF FramePlaced
  <2>3. s.size = 2 => below = Nil
    BY <2>1, <1>1 DEF FramePlaced
  <2>4. s.size # 2 => below \in D /\ own[below] = Nil /\ pos[below] = s.size - 2
    BY <2>1, <1>1 DEF FramePlaced
  <2> HIDE DEF below, i, top
  <2> QED BY <2>2, <2>3, <2>4, <1>1
<1> HIDE DEF gone, i, below, top
<1>4. /\ d.frame = [j \in D \ gone |-> s.frame[j]] /\ DOMAIN d.frame = D \ gone
      /\ d = [frame |-> d.frame, bottom |-> s.bottom, top |-> s.top, size |-> s.size]
  BY DestroyIs DEF Whole, gone
<1>5. top \in D \ gone /\ (s.size # 2 => below \in D \ gone)
  <2>1. \A j \in gone \ {i} : own[j] # Nil
    BY <1>1, <1>2
  <2> QED BY <1>1, <1>3, <2>1
<1> HIDE DEF d
<1>6. /\ t = [frame |-> t.frame, bottom |-> t.bottom, top |-> t.top, size |-> t.size]
      /\ t.frame = [j \in D \ gone |-> IF j = top THEN [s.frame[j] EXCEPT !.prev = below]
                                      ELSE IF s.size # 2 /\ j = below THEN [s.frame[j] EXCEPT !.next = top]
                                      ELSE s.frame[j]]
      /\ t.top = top /\ t.size = s.size - 1 /\ t.bottom = (IF s.size = 2 THEN top ELSE s.bottom)
  <2>1. /\ e = [frame |-> e.frame, bottom |-> s.bottom, top |-> top, size |-> s.size - 1]
        /\ e.frame = [j \in D \ gone |-> IF j = top THEN [s.frame[j] EXCEPT !.prev = below] ELSE s.frame[j]]
    <3>1. d.bottom = s.bottom /\ d.size = s.size /\ d.top = top
      BY <1>4 DEF top
    <3>2. d = [frame |-> d.frame, bottom |-> d.bottom, top |-> d.top, size |-> d.size]
      BY <1>4
    <3> DEFINE z == d.size - 1
    <3>3. e = [d EXCEPT !.frame[top].prev = below, !.size = z]
      OBVIOUS
    <3> HIDE DEF e, z, t
    <3>4. e = [frame |-> [d.frame EXCEPT ![top].prev = below], bottom |-> d.bottom, top |-> d.top, size |-> z]
      BY <3>2, <3>3
    <3>5. e.frame = [d.frame EXCEPT ![top].prev = below]
      BY <3>4
    <3>6. e.frame = [j \in D \ gone |-> IF j = top THEN [s.frame[j] EXCEPT !.prev = below] ELSE s.frame[j]]
      BY <3>5, <1>4, <1>5
    <3> QED BY <3>1, <3>4, <3>5, <3>6 DEF z
  <2> HIDE DEF e
  <2>2. CASE s.size = 2
    <3>1. t = [e EXCEPT !.bottom = top]
      BY <2>2
    <3> HIDE DEF t
    <3>2. t.frame = e.frame /\ t.bottom = top /\ t.top = e.top /\ t.size = e.size
          /\ t = [frame |-> t.frame, bottom |-> t.bottom, top |-> t.top, size |-> t.size]
      BY <3>1, <2>1
    <3>3. \A j \in D \ gone : ~ (s.size # 2 /\ j = below)
      BY <2>2
    <3> QED BY <2>1, <2>2, <3>2, <3>3
  <2>3. CASE s.size # 2
    <3>1. t = [e EXCEPT !.frame[below].next = top]
      BY <2>3
    <3> HIDE DEF t
    <3>a. e = [frame |-> e.frame, bottom |-> e.bottom, top |-> e.top, size |-> e.size]
      BY <2>1
    <3>b. t = [frame |-> [e.frame EXCEPT ![below].next = top], bottom |-> e.bottom, top |-> e.top, size |-> e.size]
      BY <3>1, <3>a
    <3>2. t.frame = [e.frame EXCEPT ![below].next = top] /\ t.bottom = s.bottom /\ t.top = e.top /\ t.size = e.size
          /\ t = [frame |-> t.frame, bottom |-> t.bottom, top |-> t.top, size |-> t.size]
      BY <3>b, <2>1
    <3>3. below \in D \ gone /\ below # top
      BY <1>3, <1>5, <2>3
    <3>4. t.frame = [j \in D \ gone |-> IF j = top THEN [s.frame[j] EXCEPT !.prev = below]
                                      ELSE IF s.size # 2 /\ j = below THEN [s.frame[j] EXCEPT !.next = top]
                                      ELSE s.frame[j]]
      <4> DEFINE old == e.frame
                 new == [old EXCEPT ![below].next = top]
      <4>1. old = [j \in D \ gone |-> IF j = top THEN [s.frame[j] EXCEPT !.prev = below] ELSE s.frame[j]]
        BY <2>1
      <4>2. new = [j \in D \ gone |-> IF j = below THEN [old[j] EXCEPT !.next = top] ELSE old[j]]
        BY <4>1, <3>3
      <4>3. old[below] = s.frame[below]
        BY <4>1, <3>3
      <4>4. t.frame = new
        BY <3>2
      <4> HIDE DEF old, new
      <4> QED BY <4>1, <4>2, <4>3, <4>4, <3>3, <2>3, ZenonT(40)
    <3>5. t.top = top /\ t.size = s.size - 1 /\ t.bottom = (IF s.size = 2 THEN top ELSE s.bottom)
      BY <2>1, <2>3, <3>2
    <3> QED BY <3>2, <3>4, <3>5
  <2> QED BY <2>2, <2>3
<1> HIDE DEF t
<1>7. DOMAIN t.frame = D \ gone /\ t.frame = [j \in DOMAIN t.frame |-> t.frame[j]]
  BY <1>6
<1>8. ASSUME NEW j \in D \ gone
      PROVE  Pointers(t.frame[j], s.frame[j], s.frame[j].gBegin, s.frame[j].gEnd, s.frame[j].gSize,
                      IF s.size # 2 /\ j = below THEN top ELSE s.frame[j].next,
                      IF j = top THEN below ELSE s.frame[j].prev)
  <2> DEFINE f == s.frame[j]
  <2>1. IsFrame(f)
    BY DEF Whole, IsStack
  <2>2. CASE j = top
    <3>1. Pointers([f EXCEPT !.prev = below], f, f.gBegin, f.gEnd, f.gSize, f.next, below)
      BY <2>1, Setters
    <3>2. t.frame[j] = [f EXCEPT !.prev = below]
      BY <1>6, <2>2
    <3>3. ~ (s.size # 2 /\ j = below)
      BY <2>2, <1>3
    <3> HIDE DEF f
    <3> QED BY <3>1, <3>2, <3>3, <2>2 DEF f
  <2>3. CASE j # top /\ s.size # 2 /\ j = below
    <3>1. Pointers([f EXCEPT !.next = top], f, f.gBegin, f.gEnd, f.gSize, top, f.prev)
      BY <2>1, Setters
    <3>2. t.frame[j] = [f EXCEPT !.next = top]
      BY <1>6, <2>3
    <3> QED BY <3>1, <3>2, <2>3
  <2>4. CASE j # top /\ ~ (s.size # 2 /\ j = below)
    <3>1. t.frame[j] = f
      BY <1>6, <2>4
    <3> QED BY <2>1, <2>4, <3>1 DEF Pointers, Setter
  <2> QED BY <2>2, <2>3, <2>4
<1>9. IsStack(t)
  <2>1. IsFiniteSet(D \ gone) /\ D \ gone \subseteq Nat \ {0}
    BY FS_Subset DEF Whole, IsStack
  <2>2. \A j \in DOMAIN t.frame : IsFrame(t.frame[j])
    BY <1>7, <1>8 DEF Pointers, Setter
  <2> QED BY <1>6, <1>7, <2>1, <2>2 DEF IsStack
<1>10. Unlinks(s, own, pos, i, gone, t)
  <2>1. Owners(t) = (D \ gone) \cup {Nil} /\ Nil \notin gone
    BY <1>1, <1>2, <1>7 DEF Owners
  <2>2. \A j \in D \ gone : own[j] \in Owners(t)
    <3>1. \A j \in D \ gone : own[j] \in D \cup {Nil} /\ own[j] \notin gone
      BY <1>2 DEF Whole, Placed, Owners
    <3> QED BY <2>1, <3>1
  <2>3. \A j \in gone \ {i} : own[j] \notin Owners(t)
    BY <1>2, <2>1
  <2>4. ASSUME NEW o \in Owners(t) \ {own[i]}
        PROVE  Count(t, o) = Count(s, o) /\ First(t, o) = First(s, o) /\ Final(t, o) = Final(s, o)
    <3>1. o \in D \ gone /\ o # Nil
      BY <1>1, <2>1
    <3> QED BY <3>1, <1>8 DEF Count, First, Final, Pointers
  <2>5. /\ Count(t, own[i]) = Count(s, own[i]) - 1
        /\ First(t, own[i]) = (IF pos[i] = 1 THEN s.frame[i].next ELSE First(s, own[i]))
        /\ Final(t, own[i]) = (IF pos[i] = Count(s, own[i]) THEN s.frame[i].prev ELSE Final(s, own[i]))
    BY <1>1, <1>3, <1>6 DEF Count, First, Final, top
  <2>6. ASSUME NEW j \in D \ gone
        PROVE  /\ t.frame[j].next = (IF own[j] = own[i] /\ pos[j] + 1 = pos[i] THEN s.frame[i].next
                               ELSE s.frame[j].next)
               /\ t.frame[j].prev = (IF own[j] = own[i] /\ pos[j] = pos[i] + 1 THEN s.frame[i].prev
                               ELSE s.frame[j].prev)
    <3>1. /\ t.frame[j].next = (IF s.size # 2 /\ j = below THEN top ELSE s.frame[j].next)
          /\ t.frame[j].prev = (IF j = top THEN below ELSE s.frame[j].prev)
      BY <1>8 DEF Pointers
    <3>2. pos[j] \in Nat \ {0}
      BY DEF Whole, Placed
    <3>3. own[j] = own[i] /\ pos[j] = pos[i] + 1 <=> j = top
      BY <1>1, <3>2
    <3>4. own[j] = own[i] /\ pos[j] + 1 = pos[i] <=> s.size # 2 /\ j = below
      <4>1. ASSUME own[j] = own[i], pos[j] + 1 = pos[i] PROVE s.size # 2 /\ j = below
        <5>1. s.size # 2
          BY <4>1, <1>1, <3>2
        <5>2. pos[below] = pos[j] /\ own[below] = own[j] /\ below \in D
          BY <5>1, <1>1, <1>3, <4>1, <3>2
        <5> QED BY <5>1, <5>2 DEF Whole, Placed
      <4>2. ASSUME s.size # 2, j = below PROVE own[j] = own[i] /\ pos[j] + 1 = pos[i]
        BY <4>2, <1>1, <1>3
      <4> QED BY <4>1, <4>2
    <3> QED BY <3>1, <3>3, <3>4, <1>3 DEF below
  <2> QED BY <1>1, <1>2, <1>7, <2>1, <2>2, <2>3, <2>4, <2>5, <2>6 DEF Unlinks
<1>11. Placed(t, D \ gone, [j \in D \ gone |-> own[j]], [j \in D \ gone |-> Closer(own, pos, i, j)])
  <2>1. Remaining(s, own, pos, i, gone, t)
    BY <1>10, UnlinkPlaced
  <2> QED BY <2>1 DEF Remaining
<1>12. Whole(t, [j \in DOMAIN t.frame |-> own[j]], [j \in DOMAIN t.frame |-> Closer(own, pos, i, j)])
  BY <1>7, <1>9, <1>11 DEF Whole
<1>13. \A j \in gone \ {i} : own[j] \in gone /\ own[j] # Nil
  BY <1>1, <1>2
<1>14. \A j \in DOMAIN t.frame : Content(t.frame[j]) = Content(s.frame[j])
  BY <1>7, <1>8 DEF Pointers, Setter
<1>15. Lost(s, own, pos, i, t) /\ t.top = top
  BY <1>2, <1>6, <1>7, <1>12, <1>13, <1>14 DEF Lost, gone
<1> QED BY <1>0, <1>15 DEF i, top
-----------------------------------------------------------------------------
(* t is s with another frame at i.                                         *)
Replaced(s, i, g, t) ==
    /\ IsStack(t) /\ DOMAIN t.frame = DOMAIN s.frame
    /\ t.bottom = s.bottom /\ t.top = s.top /\ t.size = s.size
    /\ t.frame[i] = g /\ \A j \in DOMAIN s.frame \ {i} : t.frame[j] = s.frame[j]

(* An assignment to a frame replaces it.                                   *)
LEMMA ReplacedIs ==
    ASSUME NEW s, IsStack(s), NEW i \in DOMAIN s.frame, NEW g, IsFrame(g)
    PROVE  Replaced(s, i, g, [s EXCEPT !.frame[i] = g])
<1> DEFINE t == [s EXCEPT !.frame[i] = g]
           old == s.frame
           D == DOMAIN s.frame
<1>1. s = [frame |-> old, bottom |-> s.bottom, top |-> s.top, size |-> s.size]
  BY DEF IsStack
<1>2. t = [frame |-> [old EXCEPT ![i] = g], bottom |-> s.bottom, top |-> s.top, size |-> s.size]
  BY <1>1
<1>3. old = [j \in D |-> old[j]] /\ \A j \in D : IsFrame(old[j])
  BY DEF IsStack
<1> HIDE DEF t
<1>4. t.frame = [old EXCEPT ![i] = g] /\ t.bottom = s.bottom /\ t.top = s.top /\ t.size = s.size
  BY <1>2
<1>5. t.frame = [j \in D |-> IF j = i THEN g ELSE old[j]]
  BY <1>3, <1>4
<1>6. DOMAIN t.frame = D /\ t.frame[i] = g /\ (\A j \in D \ {i} : t.frame[j] = old[j])
      /\ t.frame = [j \in DOMAIN t.frame |-> t.frame[j]]
  BY <1>5
<1>7. t = [frame |-> t.frame, bottom |-> t.bottom, top |-> t.top, size |-> t.size]
  BY <1>2, <1>4
<1>8. \A j \in D : IsFrame(t.frame[j])
  BY <1>3, <1>6
<1>9. IsFiniteSet(D) /\ D \subseteq Nat \ {0}
  BY DEF IsStack
<1> HIDE DEF D, old
<1>10. IsStack(t)
  BY <1>6, <1>7, <1>8, <1>9 DEF IsStack
<1> QED BY <1>4, <1>6, <1>10 DEF Replaced, t, D, old

(* t has frame i at the end of the list of o.                              *)
Appends(s, own, pos, o, i, t) ==
    /\ o \in Owners(s) /\ DOMAIN t.frame = DOMAIN s.frame
    /\ \A x \in Owners(s) \ {o} : /\ Count(t, x) = Count(s, x) /\ First(t, x) = First(s, x)
                                  /\ Final(t, x) = Final(s, x)
    /\ Count(t, o) = Count(s, o) + 1
    /\ First(t, o) = (IF Count(s, o) = 0 THEN i ELSE First(s, o))
    /\ Final(t, o) = i
    /\ \A j \in DOMAIN s.frame \ {i} :
         /\ t.frame[j].next = (IF own[j] = o /\ pos[j] = Count(s, o) THEN i ELSE s.frame[j].next)
         /\ t.frame[j].prev = s.frame[j].prev
    /\ t.frame[i].next = Nil
    /\ t.frame[i].prev = (IF Count(s, o) = 0 THEN Nil ELSE Final(s, o))

(* By owners and places: frame i is the last of the list of o.             *)
Appended(s, own, pos, o, i, t) ==
    Placed(t, DOMAIN s.frame, [j \in DOMAIN s.frame |-> IF j = i THEN o ELSE own[j]],
                              [j \in DOMAIN s.frame |-> IF j = i THEN Count(s, o) + 1 ELSE pos[j]])

(* A frame that is in no list is appended to one: all lists are whole.     *)
LEMMA AppendPlaced ==
    ASSUME NEW s, NEW i \in DOMAIN s.frame, NEW own, NEW pos, Nil \notin DOMAIN s.frame,
           Placed(s, DOMAIN s.frame \ {i}, own, pos), NEW o, NEW t, Appends(s, own, pos, o, i, t)
    PROVE  Appended(s, own, pos, o, i, t)
<1> DEFINE D == DOMAIN s.frame
           E == D \ {i}
           C == Count(s, o)
           o2 == [j \in D |-> IF j = i THEN o ELSE own[j]]
           p2 == [j \in D |-> IF j = i THEN C + 1 ELSE pos[j]]
<1>1. /\ \A j \in E : own[j] \in Owners(s) /\ pos[j] \in Nat \ {0} /\ FramePlaced(s, E, own, pos, j)
      /\ \A x \in Owners(s) : ListPlaced(s, E, own, pos, x)
      /\ \A j, k \in E : own[j] = own[k] /\ pos[j] = pos[k] => j = k
  BY DEF Placed
<1>2. /\ o \in Owners(s) /\ DOMAIN t.frame = D /\ Owners(t) = Owners(s)
      /\ \A x \in Owners(s) \ {o} : /\ Count(t, x) = Count(s, x) /\ First(t, x) = First(s, x)
                                    /\ Final(t, x) = Final(s, x)
      /\ Count(t, o) = C + 1
      /\ First(t, o) = (IF C = 0 THEN i ELSE First(s, o))
      /\ Final(t, o) = i
      /\ \A j \in E : /\ t.frame[j].next = (IF own[j] = o /\ pos[j] = C THEN i ELSE s.frame[j].next)
                      /\ t.frame[j].prev = s.frame[j].prev
      /\ t.frame[i].next = Nil
      /\ t.frame[i].prev = (IF C = 0 THEN Nil ELSE Final(s, o))
  BY DEF Appends, Owners
<1>3. C \in Nat /\ ListPlaced(s, E, own, pos, o)
  BY <1>1, <1>2 DEF ListPlaced
<1>4. /\ o2[i] = o /\ p2[i] = C + 1
      /\ \A j \in E : o2[j] = own[j] /\ p2[j] = pos[j] /\ j # i /\ j \in D
      /\ D = E \cup {i}
  OBVIOUS
<1>5. o2 \in [D -> Owners(t)] /\ p2 \in [D -> Nat \ {0}]
  BY <1>1, <1>2, <1>3
<1> HIDE DEF o2, p2, E, D, C
<1>6. \A j \in E : own[j] = o => pos[j] <= C
  BY <1>1 DEF FramePlaced, C
<1>7. ASSUME NEW x \in Owners(t) PROVE ListPlaced(t, D, o2, p2, x)
  <2>1. CASE x # o
    <3>1. ListPlaced(s, E, own, pos, x) /\ Count(t, x) = Count(s, x) /\ First(t, x) = First(s, x) /\ Final(t, x) = Final(s, x)
      BY <1>1, <1>2, <2>1
    <3> QED BY <3>1, <1>4 DEF ListPlaced
  <2>2. CASE x = o
    <3>1. Final(t, o) = i /\ o2[i] = o /\ p2[i] = Count(t, o) /\ i \in D /\ Count(t, o) \in Nat /\ Count(t, o) # 0
      BY <1>2, <1>3, <1>4
    <3>2. First(t, o) \in D /\ o2[First(t, o)] = o /\ p2[First(t, o)] = 1
      <4>1. CASE C = 0
        BY <4>1, <1>2, <1>4
      <4>2. CASE C # 0
        <5>1. First(s, o) \in E /\ own[First(s, o)] = o /\ pos[First(s, o)] = 1
          BY <4>2, <1>3 DEF ListPlaced, C
        <5> QED BY <4>2, <5>1, <1>2, <1>4
      <4> QED BY <4>1, <4>2
    <3> QED BY <2>2, <3>1, <3>2 DEF ListPlaced
  <2> QED BY <2>1, <2>2
<1>8. ASSUME NEW j \in D PROVE FramePlaced(t, D, o2, p2, j)
  <2>1. CASE j = i
    <3>1. p2[i] = Count(t, o2[i]) /\ o2[i] = o /\ t.frame[i].next = Nil
      BY <1>2, <1>4
    <3>2. CASE C = 0
      BY <2>1, <3>1, <3>2, <1>2, <1>3, <1>4 DEF FramePlaced
    <3>3. CASE C # 0
      <4>1. Final(s, o) \in E /\ own[Final(s, o)] = o /\ pos[Final(s, o)] = C
        BY <3>3, <1>3 DEF ListPlaced, C
      <4>2. t.frame[i].prev \in D /\ o2[t.frame[i].prev] = o2[i] /\ p2[t.frame[i].prev] = p2[i] - 1
        BY <3>3, <4>1, <1>2, <1>3, <1>4
      <4>3. p2[i] # 1 /\ p2[i] <= Count(t, o2[i])
        BY <3>1, <3>3, <1>2, <1>3, <1>4
      <4> QED BY <2>1, <3>1, <4>2, <4>3 DEF FramePlaced
    <3> QED BY <3>2, <3>3
  <2>2. CASE j # i
    <3>1. j \in E /\ FramePlaced(s, E, own, pos, j) /\ o2[j] = own[j] /\ p2[j] = pos[j] /\ pos[j] \in Nat \ {0}
          /\ own[j] \in Owners(s)
      BY <2>2, <1>1, <1>4
    <3>2. t.frame[j].prev = s.frame[j].prev
      BY <3>1, <1>2
    <3>3. CASE own[j] = o
      <4>1. Count(t, own[j]) = C + 1 /\ Count(s, own[j]) = C /\ pos[j] <= C
        BY <3>1, <3>3, <1>2, <1>6 DEF C
      <4>2. CASE pos[j] = C
        <5>1. t.frame[j].next = i
          BY <4>2, <3>1, <3>3, <1>2
        <5> QED BY <3>1, <3>2, <3>3, <4>1, <4>2, <5>1, <1>3, <1>4 DEF FramePlaced
      <4>3. CASE pos[j] # C
        <5>1. t.frame[j].next = s.frame[j].next
          BY <4>3, <3>1, <3>3, <1>2
        <5> QED BY <3>1, <3>2, <3>3, <4>1, <4>3, <5>1, <1>3, <1>4 DEF FramePlaced
      <4> QED BY <4>2, <4>3
    <3>4. CASE own[j] # o
      <4>1. Count(t, own[j]) = Count(s, own[j]) /\ t.frame[j].next = s.frame[j].next
        BY <3>1, <3>4, <1>2
      <4> QED BY <3>1, <3>2, <3>4, <4>1, <1>4 DEF FramePlaced
    <3> QED BY <3>3, <3>4
  <2> QED BY <2>1, <2>2
<1>9. \A j, k \in D : o2[j] = o2[k] /\ p2[j] = p2[k] => j = k
  <2> SUFFICES ASSUME NEW j \in D, NEW k \in D, o2[j] = o2[k], p2[j] = p2[k] PROVE j = k
    OBVIOUS
  <2>1. ASSUME NEW x \in E, NEW y, y = i, o2[x] = o2[y], p2[x] = p2[y] PROVE FALSE
    <3>1. own[x] = o /\ pos[x] = C + 1 /\ pos[x] <= C
      BY <2>1, <1>4, <1>6
    <3> QED BY <3>1, <1>3
  <2> QED BY <2>1, <1>1, <1>4
<1>10. Placed(t, D, o2, p2)
  BY <1>2, <1>5, <1>7, <1>8, <1>9 DEF Placed
<1> QED BY <1>10 DEF D, o2, p2, C, Appended

(* One more assignment to a pointer.                                       *)
LEMMA SetAgain ==
    ASSUME NEW f, NEW g, NEW b, NEW e, NEW z, NEW n, NEW p, Pointers(g, f, b, e, z, n, p), NEW a
    PROVE  /\ Pointers([g EXCEPT !.next = a], f, b, e, z, a, p)
           /\ Pointers([g EXCEPT !.prev = a], f, b, e, z, n, a)
           /\ Pointers([g EXCEPT !.gBegin = a], f, a, e, z, n, p)
           /\ Pointers([g EXCEPT !.gEnd = a], f, b, a, z, n, p)
           /\ Pointers([g EXCEPT !.gSize = a], f, b, e, a, n, p)
<1>1. IsFrame(g) /\ Content(g) = Content(f) /\ g.gBegin = b /\ g.gEnd = e /\ g.gSize = z /\ g.next = n /\ g.prev = p
  BY DEF Pointers, Setter
<1>2. /\ Pointers([g EXCEPT !.next = a], g, g.gBegin, g.gEnd, g.gSize, a, g.prev)
      /\ Pointers([g EXCEPT !.prev = a], g, g.gBegin, g.gEnd, g.gSize, g.next, a)
      /\ Pointers([g EXCEPT !.gBegin = a], g, a, g.gEnd, g.gSize, g.next, g.prev)
      /\ Pointers([g EXCEPT !.gEnd = a], g, g.gBegin, a, g.gSize, g.next, g.prev)
      /\ Pointers([g EXCEPT !.gSize = a], g, g.gBegin, g.gEnd, a, g.next, g.prev)
  BY <1>1, Setters
<1>3. ASSUME NEW h, NEW b1, NEW e1, NEW z1, NEW n1, NEW p1, Pointers(h, g, b1, e1, z1, n1, p1)
      PROVE  Pointers(h, f, b1, e1, z1, n1, p1)
  BY <1>1, <1>3 DEF Pointers, Setter
<1> QED BY <1>1, <1>2, <1>3

(* An assignment to a pointer of a frame replaces that frame.              *)
LEMMA ReplacedBy ==
    ASSUME NEW s, IsStack(s), NEW i \in DOMAIN s.frame, NEW a
    PROVE  /\ Replaced(s, i, [s.frame[i] EXCEPT !.next = a], [s EXCEPT !.frame[i].next = a])
           /\ Replaced(s, i, [s.frame[i] EXCEPT !.prev = a], [s EXCEPT !.frame[i].prev = a])
           /\ Replaced(s, i, [s.frame[i] EXCEPT !.gBegin = a], [s EXCEPT !.frame[i].gBegin = a])
           /\ Replaced(s, i, [s.frame[i] EXCEPT !.gEnd = a], [s EXCEPT !.frame[i].gEnd = a])
           /\ Replaced(s, i, [s.frame[i] EXCEPT !.gSize = a], [s EXCEPT !.frame[i].gSize = a])
<1> DEFINE f == s.frame[i]
<1>1. IsFrame(f)
  BY DEF IsStack
<1>2. /\ IsFrame([f EXCEPT !.next = a]) /\ IsFrame([f EXCEPT !.prev = a])
      /\ IsFrame([f EXCEPT !.gBegin = a]) /\ IsFrame([f EXCEPT !.gEnd = a])
      /\ IsFrame([f EXCEPT !.gSize = a])
  <2> HIDE DEF f
  <2> QED BY <1>1, Setters DEF Pointers, Setter
<1>3. /\ [s EXCEPT !.frame[i].next = a] = [s EXCEPT !.frame[i] = [s.frame[i] EXCEPT !.next = a]]
      /\ [s EXCEPT !.frame[i].prev = a] = [s EXCEPT !.frame[i] = [s.frame[i] EXCEPT !.prev = a]]
      /\ [s EXCEPT !.frame[i].gBegin = a] = [s EXCEPT !.frame[i] = [s.frame[i] EXCEPT !.gBegin = a]]
      /\ [s EXCEPT !.frame[i].gEnd = a] = [s EXCEPT !.frame[i] = [s.frame[i] EXCEPT !.gEnd = a]]
      /\ [s EXCEPT !.frame[i].gSize = a] = [s EXCEPT !.frame[i] = [s.frame[i] EXCEPT !.gSize = a]]
  OBVIOUS
<1> QED BY <1>2, <1>3, ReplacedIs

(* A frame has the pointers it has.                                        *)
LEMMA Untouched ==
    ASSUME NEW f, IsFrame(f)
    PROVE  Pointers(f, f, f.gBegin, f.gEnd, f.gSize, f.next, f.prev)
  BY DEF Pointers, Setter

(* t is s with other ends or another counter of the running stack.         *)
Measured(s, b, p, z, t) ==
    IsStack(t) /\ t.frame = s.frame /\ t.bottom = b /\ t.top = p /\ t.size = z

(* Assignments to the ends and the counter.                                *)
LEMMA MeasuredIs ==
    ASSUME NEW s, IsStack(s), NEW b, NEW p, NEW z
    PROVE  /\ Measured(s, s.bottom, p, s.size, [s EXCEPT !.top = p])
           /\ Measured(s, s.bottom, s.top, z, [s EXCEPT !.size = z])
           /\ Measured(s, b, s.top, s.size, [s EXCEPT !.bottom = b])
<1>1. s = [frame |-> s.frame, bottom |-> s.bottom, top |-> s.top, size |-> s.size]
  BY DEF IsStack
<1>2. /\ [s EXCEPT !.top = p] = [frame |-> s.frame, bottom |-> s.bottom, top |-> p, size |-> s.size]
      /\ [s EXCEPT !.size = z] = [frame |-> s.frame, bottom |-> s.bottom, top |-> s.top, size |-> z]
      /\ [s EXCEPT !.bottom = b] = [frame |-> s.frame, bottom |-> b, top |-> s.top, size |-> s.size]
  BY <1>1
<1>3. ASSUME NEW x, NEW y, NEW w, NEW t, t = [frame |-> s.frame, bottom |-> x, top |-> y, size |-> w]
      PROVE  Measured(s, x, y, w, t)
  <2>1. t.frame = s.frame /\ t.bottom = x /\ t.top = y /\ t.size = w
        /\ t = [frame |-> t.frame, bottom |-> t.bottom, top |-> t.top, size |-> t.size]
    BY <1>3
  <2>2. /\ s.frame = [j \in DOMAIN s.frame |-> s.frame[j]]
        /\ \A j \in DOMAIN s.frame : IsFrame(s.frame[j])
        /\ IsFiniteSet(DOMAIN s.frame) /\ DOMAIN s.frame \subseteq Nat \ {0}
    BY DEF IsStack
  <2>3. IsStack(t)
    BY <2>1, <2>2 DEF IsStack
  <2> QED BY <2>1, <2>3 DEF Measured
<1> QED BY <1>2, <1>3

(* What AppendGenerator does to the pointers.                              *)
Listed(s, w, i, t) ==
    /\ IsStack(t) /\ DOMAIN t.frame = DOMAIN s.frame
    /\ t.bottom = s.bottom /\ t.top = s.top /\ t.size = s.size
    /\ \A j \in DOMAIN s.frame :
         Pointers(t.frame[j], s.frame[j],
                  IF j = w /\ s.frame[w].gBegin = Nil THEN i ELSE s.frame[j].gBegin,
                  IF j = w THEN i ELSE s.frame[j].gEnd,
                  IF j = w THEN s.frame[w].gSize + 1 ELSE s.frame[j].gSize,
                  IF s.frame[w].gBegin # Nil /\ j = s.frame[w].gEnd THEN i ELSE s.frame[j].next,
                  IF s.frame[w].gBegin # Nil /\ j = i THEN s.frame[w].gEnd ELSE s.frame[j].prev)

(* AppendGenerator sets the pointers as OP_YIELD does.                     *)
LEMMA ListedIs ==
    ASSUME NEW s, IsStack(s), NEW w \in DOMAIN s.frame, NEW i \in DOMAIN s.frame, i # w,
           s.frame[w].gBegin # Nil => /\ s.frame[w].gEnd \in DOMAIN s.frame
                                      /\ s.frame[w].gEnd # w /\ s.frame[w].gEnd # i
    PROVE  Listed(s, w, i, AppendGenerator(s, w, i))
<1> DEFINE f == s.frame[w]
           D == DOMAIN s.frame
           z == s.frame[w].gSize + 1
           x == s.frame[w].gEnd
<1>0. \A j \in D : IsFrame(s.frame[j])
  BY DEF IsStack
<1>1. CASE f.gBegin = Nil
  <2> DEFINE g == [[[f EXCEPT !.gBegin = i] EXCEPT !.gEnd = i] EXCEPT !.gSize = z]
             t == [s EXCEPT !.frame[w] = g]
             t0 == [s EXCEPT !.frame[w].gBegin = i, !.frame[w].gEnd = i, !.frame[w].gSize = @ + 1]
  <2>1. AppendGenerator(s, w, i) = t0
    BY <1>1 DEF AppendGenerator
  <2>2. Pointers(f, f, f.gBegin, f.gEnd, f.gSize, f.next, f.prev)
    BY <1>0, Untouched
  <2>3. Pointers([f EXCEPT !.gBegin = i], f, i, f.gEnd, f.gSize, f.next, f.prev)
    BY <2>2, SetAgain
  <2>4. Pointers([[f EXCEPT !.gBegin = i] EXCEPT !.gEnd = i], f, i, i, f.gSize, f.next, f.prev)
    BY <2>3, SetAgain
  <2>5. Pointers(g, f, i, i, z, f.next, f.prev)
    BY <2>4, SetAgain, ZenonT(40)
  <2>6. t0 = t
    <3> DEFINE old == s.frame
    <3>1. s = [frame |-> old, bottom |-> s.bottom, top |-> s.top, size |-> s.size] /\ old = [j \in D |-> old[j]]
      BY DEF IsStack
    <3>2. IsFrame(f)
      BY <1>0
    <3>3. f.gSize + 1 = z
      OBVIOUS
    <3> QED BY <3>1, <3>2, <3>3, ZenonT(90) DEF IsFrame
  <2>7. IsFrame(g)
    BY <2>5 DEF Pointers, Setter
  <2> HIDE DEF g
  <2>8. Replaced(s, w, g, t)
    BY <2>7, ReplacedIs
  <2> HIDE DEF t, t0
  <2>9. ASSUME NEW j \in D
        PROVE  Pointers(t.frame[j], s.frame[j],
                  IF j = w /\ f.gBegin = Nil THEN i ELSE s.frame[j].gBegin,
                  IF j = w THEN i ELSE s.frame[j].gEnd,
                  IF j = w THEN z ELSE s.frame[j].gSize,
                  IF f.gBegin # Nil /\ j = x THEN i ELSE s.frame[j].next,
                  IF f.gBegin # Nil /\ j = i THEN x ELSE s.frame[j].prev)
    <3>1. CASE j = w
      <4>1. t.frame[j] = g
        BY <2>8, <3>1 DEF Replaced
      <4> HIDE DEF z
      <4> QED BY <3>1, <4>1, <2>5, <1>1
    <3>2. CASE j # w
      <4>1. t.frame[j] = s.frame[j]
        BY <2>8, <3>2 DEF Replaced
      <4>2. Pointers(s.frame[j], s.frame[j], s.frame[j].gBegin, s.frame[j].gEnd, s.frame[j].gSize,
                     s.frame[j].next, s.frame[j].prev)
        BY <1>0, Untouched
      <4> QED BY <3>2, <4>1, <4>2, <1>1
    <3> QED BY <3>1, <3>2
  <2>10. Listed(s, w, i, t)
    BY <2>8, <2>9 DEF Replaced, Listed
  <2> QED BY <2>1, <2>6, <2>10
<1>2. CASE f.gBegin # Nil
  <2> DEFINE g1 == [s.frame[x] EXCEPT !.next = i]
             t1 == [s EXCEPT !.frame[x].next = i]
             g2 == [t1.frame[i] EXCEPT !.prev = x]
             t2 == [t1 EXCEPT !.frame[i].prev = x]
             g3 == [t2.frame[w] EXCEPT !.gEnd = i]
             t3 == [t2 EXCEPT !.frame[w].gEnd = i]
             g4 == [t3.frame[w] EXCEPT !.gSize = z]
             t == [t3 EXCEPT !.frame[w].gSize = z]
  <2>1. AppendGenerator(s, w, i) = t
    BY <1>2 DEF AppendGenerator
  <2>2. x \in D /\ x # w /\ x # i
    BY <1>2
  <2>3. Replaced(s, x, g1, t1)
    BY <2>2, ReplacedBy
  <2>4. Pointers(g1, s.frame[x], s.frame[x].gBegin, s.frame[x].gEnd, s.frame[x].gSize, i, s.frame[x].prev)
    BY <1>0, <2>2, Setters
  <2>5. t1.frame[i] = s.frame[i] /\ t1.frame[w] = f /\ t1.frame[x] = g1 /\ IsStack(t1) /\ DOMAIN t1.frame = D
    BY <2>2, <2>3 DEF Replaced
  <2> HIDE DEF t1, g1
  <2>6. Replaced(t1, i, g2, t2)
    BY <2>5, ReplacedBy
  <2>7. Pointers(g2, s.frame[i], s.frame[i].gBegin, s.frame[i].gEnd, s.frame[i].gSize, s.frame[i].next, x)
    BY <1>0, <2>5, Setters
  <2>8. t2.frame[w] = f /\ IsStack(t2) /\ DOMAIN t2.frame = D
    BY <2>2, <2>5, <2>6 DEF Replaced
  <2> HIDE DEF t2, g2
  <2>9. Replaced(t2, w, g3, t3)
    BY <2>8, ReplacedBy
  <2>a. Pointers(g3, f, f.gBegin, i, f.gSize, f.next, f.prev)
    BY <1>0, <2>8, Setters
  <2>b. t3.frame[w] = g3 /\ IsStack(t3) /\ DOMAIN t3.frame = D
    BY <2>8, <2>9 DEF Replaced
  <2> HIDE DEF t3, g3
  <2>c. Replaced(t3, w, g4, t)
    BY <2>b, ReplacedBy
  <2>d. Pointers(g4, f, f.gBegin, i, z, f.next, f.prev)
    BY <2>a, <2>b, SetAgain
  <2> HIDE DEF t, g4
  <2>10. /\ IsStack(t) /\ DOMAIN t.frame = D /\ t.bottom = s.bottom /\ t.top = s.top /\ t.size = s.size
         /\ t.frame[w] = g4 /\ t.frame[i] = g2 /\ t.frame[x] = g1
         /\ \A j \in D \ {w, i, x} : t.frame[j] = s.frame[j]
    BY <2>2, <2>3, <2>6, <2>9, <2>c DEF Replaced
  <2>11. ASSUME NEW j \in D
         PROVE  Pointers(t.frame[j], s.frame[j],
                  IF j = w /\ f.gBegin = Nil THEN i ELSE s.frame[j].gBegin,
                  IF j = w THEN i ELSE s.frame[j].gEnd,
                  IF j = w THEN z ELSE s.frame[j].gSize,
                  IF f.gBegin # Nil /\ j = x THEN i ELSE s.frame[j].next,
                  IF f.gBegin # Nil /\ j = i THEN x ELSE s.frame[j].prev)
    <3> HIDE DEF z, x
    <3>1. CASE j = w
      BY <3>1, <2>2, <2>d, <2>10, <1>2
    <3>2. CASE j = i
      BY <3>2, <2>2, <2>7, <2>10, <1>2
    <3>3. CASE j = x
      BY <3>3, <2>2, <2>4, <2>10, <1>2
    <3>4. CASE j \notin {w, i, x}
      <4>1. Pointers(s.frame[j], s.frame[j], s.frame[j].gBegin, s.frame[j].gEnd, s.frame[j].gSize,
                     s.frame[j].next, s.frame[j].prev)
        BY <1>0, Untouched
      <4> QED BY <3>4, <4>1, <2>10, <1>2
    <3> QED BY <3>1, <3>2, <3>3, <3>4
  <2>12. Listed(s, w, i, t)
    BY <2>10, <2>11 DEF Listed
  <2> QED BY <2>1, <2>12
<1> QED BY <1>1, <1>2

(* The top of s is the last generator of its caller in t, and the caller   *)
(* the top.                                                                *)
Suspended(s, own, pos, t) ==
    LET i == s.top
        w == Caller(s)
    IN /\ Alike(s, t) /\ t.size = s.size - 1 /\ t.top = w
       /\ Whole(t, [j \in DOMAIN s.frame |-> IF j = i THEN w ELSE own[j]],
                   [j \in DOMAIN s.frame |-> IF j = i THEN s.frame[w].gSize + 1 ELSE Closer(own, pos, i, j)])

(* YIELD moves the top into the list of its caller: all lists are whole.   *)
LEMMA SuspendWhole ==
    ASSUME NEW s, NEW own, NEW pos, Whole(s, own, pos), s.size >= 2
    PROVE  Suspended(s, own, pos, Suspend(s))
<1> DEFINE D == DOMAIN s.frame
           i == s.top
           w == Caller(s)
           f == s.frame[w]
           r1 == [s EXCEPT !.top = w]
           r2 == [r1 EXCEPT !.frame[i].next = Nil]
           r == [r2 EXCEPT !.frame[i].prev = Nil]
           m == AppendGenerator(r, w, i)
           m2 == [m EXCEPT !.size = m.size - 1]
           t == [m2 EXCEPT !.frame[w].next = Nil]
           u2 == [r EXCEPT !.size = r.size - 1]
           u == [u2 EXCEPT !.frame[w].next = Nil]
<1>0. Suspend(s) = t
  BY DEF Suspend
<1>1. /\ s.size \in Nat /\ Nil \notin D
      /\ i \in D /\ own[i] = Nil /\ pos[i] = s.size
      /\ s.bottom \in D /\ own[s.bottom] = Nil /\ pos[s.bottom] = 1
      /\ s.frame[i].next = Nil /\ s.frame[i].prev = w
      /\ w \in D /\ own[w] = Nil /\ pos[w] = s.size - 1 /\ w # i /\ w # Nil
      /\ \A j \in D : own[j] = Nil => pos[j] \in 1 .. s.size
      /\ \A j \in D : own[j] = Nil /\ pos[j] = s.size => j = i
      /\ \A j \in D : own[j] = Nil /\ pos[j] = s.size - 1 => j = w
  <2>1. s.size # 0 /\ s.size # 1
    BY DEF Whole, Placed, ListPlaced, Count, Owners
  <2> QED BY <2>1, TopIs
<1>2. IsStack(s) /\ \A j \in D : IsFrame(s.frame[j])
  BY DEF Whole, IsStack
<1>3. /\ ListPlaced(s, D, own, pos, w) /\ Count(s, w) = f.gSize /\ First(s, w) = f.gBegin /\ Final(s, w) = f.gEnd
      /\ f.gSize \in Nat
      /\ f.gBegin = Nil <=> f.gSize = 0
      /\ f.gSize = 0 => f.gEnd = Nil
      /\ f.gSize # 0 => f.gEnd \in D /\ own[f.gEnd] = w /\ pos[f.gEnd] = f.gSize /\ f.gEnd # i /\ f.gEnd # w
  <2>1. Count(s, w) = f.gSize /\ First(s, w) = f.gBegin /\ Final(s, w) = f.gEnd
    BY <1>1 DEF Count, First, Final
  <2>2. ListPlaced(s, D, own, pos, w)
    BY <1>1 DEF Whole, Placed, Owners
  <2> HIDE DEF f, w, i
  <2> QED BY <2>1, <2>2, <1>1 DEF ListPlaced
<1> HIDE DEF i, w
<1>4. Measured(s, s.bottom, w, s.size, r1)
  BY <1>2, MeasuredIs
<1>5. IsStack(r1) /\ r1.frame = s.frame /\ r1.bottom = s.bottom /\ r1.top = w /\ r1.size = s.size
  BY <1>4 DEF Measured
<1> DEFINE a1 == [r1.frame[i] EXCEPT !.next = Nil]
<1>6. Replaced(r1, i, a1, r2)
  BY <1>1, <1>5, ReplacedBy
<1>7. Pointers(a1, s.frame[i], s.frame[i].gBegin, s.frame[i].gEnd, s.frame[i].gSize, Nil, s.frame[i].prev)
  BY <1>1, <1>2, <1>5, Setters
<1> HIDE DEF r1, a1
<1>8. IsStack(r2) /\ DOMAIN r2.frame = D /\ r2.frame[i] = a1
  BY <1>5, <1>6 DEF Replaced
<1> DEFINE a2 == [r2.frame[i] EXCEPT !.prev = Nil]
<1>9. Replaced(r2, i, a2, r)
  BY <1>1, <1>8, ReplacedBy
<1>10. Pointers(a2, s.frame[i], s.frame[i].gBegin, s.frame[i].gEnd, s.frame[i].gSize, Nil, Nil)
  BY <1>7, <1>8, SetAgain
<1> HIDE DEF r2, a2
<1>11. /\ IsStack(r) /\ DOMAIN r.frame = D /\ r.frame[i] = a2 /\ r.bottom = s.bottom /\ r.top = w /\ r.size = s.size
       /\ \A j \in D \ {i} : r.frame[j] = s.frame[j]
  BY <1>1, <1>5, <1>6, <1>8, <1>9 DEF Replaced
<1> HIDE DEF r
<1>12. r.frame[w] = f
  BY <1>1, <1>11
<1>13. Listed(r, w, i, m)
  BY <1>1, <1>3, <1>11, <1>12, ListedIs
<1> HIDE DEF m, f
<1>14. IsStack(m) /\ DOMAIN m.frame = D /\ m.bottom = s.bottom /\ m.top = w /\ m.size = s.size
  BY <1>11, <1>13 DEF Listed
<1>15. Measured(m, s.bottom, w, s.size - 1, m2)
  BY <1>14, MeasuredIs
<1>16. IsStack(m2) /\ m2.frame = m.frame /\ m2.bottom = s.bottom /\ m2.top = w /\ m2.size = s.size - 1
  BY <1>15 DEF Measured
<1> HIDE DEF m2
<1> DEFINE a3 == [m2.frame[w] EXCEPT !.next = Nil]
<1>17. Replaced(m2, w, a3, t)
  BY <1>1, <1>14, <1>16, ReplacedBy
<1> HIDE DEF t
<1>18. ASSUME NEW j \in D
       PROVE Pointers(m.frame[j], s.frame[j],
                  IF j = w /\ f.gBegin = Nil THEN i ELSE s.frame[j].gBegin,
                  IF j = w THEN i ELSE s.frame[j].gEnd,
                  IF j = w THEN f.gSize + 1 ELSE s.frame[j].gSize,
                  IF j = i THEN Nil ELSE IF f.gBegin # Nil /\ j = f.gEnd THEN i ELSE s.frame[j].next,
                  IF j = i THEN (IF f.gBegin # Nil THEN f.gEnd ELSE Nil) ELSE s.frame[j].prev)
  <2>1. Pointers(m.frame[j], r.frame[j],
                  IF j = w /\ f.gBegin = Nil THEN i ELSE r.frame[j].gBegin,
                  IF j = w THEN i ELSE r.frame[j].gEnd,
                  IF j = w THEN f.gSize + 1 ELSE r.frame[j].gSize,
                  IF f.gBegin # Nil /\ j = f.gEnd THEN i ELSE r.frame[j].next,
                  IF f.gBegin # Nil /\ j = i THEN f.gEnd ELSE r.frame[j].prev)
    BY <1>11, <1>12, <1>13 DEF Listed
  <2>2. CASE j = i
    <3>1. r.frame[j] = a2 /\ Content(a2) = Content(s.frame[i]) /\ a2.gBegin = s.frame[i].gBegin
          /\ a2.gEnd = s.frame[i].gEnd /\ a2.gSize = s.frame[i].gSize /\ a2.next = Nil /\ a2.prev = Nil
      BY <2>2, <1>10, <1>11 DEF Pointers, Setter
    <3>2. j # w /\ ~ (f.gBegin # Nil /\ j = f.gEnd)
      BY <2>2, <1>1, <1>3
    <3> QED BY <2>1, <2>2, <3>1, <3>2 DEF Pointers, Setter
  <2>3. CASE j # i
    BY <2>1, <2>3, <1>11
  <2> QED BY <2>2, <2>3
<1>19. /\ IsStack(t) /\ DOMAIN t.frame = D /\ t.bottom = s.bottom /\ t.top = w /\ t.size = s.size - 1
       /\ \A j \in D : Pointers(t.frame[j], s.frame[j],
                  IF j = w /\ f.gBegin = Nil THEN i ELSE s.frame[j].gBegin,
                  IF j = w THEN i ELSE s.frame[j].gEnd,
                  IF j = w THEN f.gSize + 1 ELSE s.frame[j].gSize,
                  IF j = i \/ j = w THEN Nil ELSE IF f.gBegin # Nil /\ j = f.gEnd THEN i ELSE s.frame[j].next,
                  IF j = i THEN (IF f.gBegin # Nil THEN f.gEnd ELSE Nil) ELSE s.frame[j].prev)
  <2>1. IsStack(t) /\ DOMAIN t.frame = D /\ t.bottom = s.bottom /\ t.top = w /\ t.size = s.size - 1
        /\ t.frame[w] = a3 /\ \A j \in D \ {w} : t.frame[j] = m.frame[j]
    BY <1>14, <1>16, <1>17 DEF Replaced
  <2>2. ASSUME NEW j \in D
        PROVE Pointers(t.frame[j], s.frame[j],
                  IF j = w /\ f.gBegin = Nil THEN i ELSE s.frame[j].gBegin,
                  IF j = w THEN i ELSE s.frame[j].gEnd,
                  IF j = w THEN f.gSize + 1 ELSE s.frame[j].gSize,
                  IF j = i \/ j = w THEN Nil ELSE IF f.gBegin # Nil /\ j = f.gEnd THEN i ELSE s.frame[j].next,
                  IF j = i THEN (IF f.gBegin # Nil THEN f.gEnd ELSE Nil) ELSE s.frame[j].prev)
    <3>1. CASE j # w
      BY <3>1, <2>1, <1>18
    <3>2. CASE j = w
      <4>1. t.frame[j] = [m.frame[w] EXCEPT !.next = Nil]
        BY <2>1, <1>16, <3>2 DEF a3
      <4>2. Pointers(m.frame[w], s.frame[w], IF f.gBegin = Nil THEN i ELSE s.frame[w].gBegin, i, f.gSize + 1,
                  IF w = i THEN Nil ELSE IF f.gBegin # Nil /\ w = f.gEnd THEN i ELSE s.frame[w].next,
                  s.frame[w].prev)
        BY <1>1, <1>18
      <4>3. Pointers(t.frame[j], s.frame[w], IF f.gBegin = Nil THEN i ELSE s.frame[w].gBegin, i, f.gSize + 1,
                  Nil, s.frame[w].prev)
        <5> DEFINE b0 == IF f.gBegin = Nil THEN i ELSE s.frame[w].gBegin
                   z0 == f.gSize + 1
                   n0 == IF w = i THEN Nil ELSE IF f.gBegin # Nil /\ w = f.gEnd THEN i ELSE s.frame[w].next
                   p0 == s.frame[w].prev
                   f0 == s.frame[w]
                   g0 == m.frame[w]
                   h0 == t.frame[j]
        <5>1. Pointers(g0, f0, b0, i, z0, n0, p0)
          BY <4>2
        <5>2. h0 = [g0 EXCEPT !.next = Nil]
          BY <4>1
        <5> HIDE DEF b0, z0, n0, p0, f0, g0, h0
        <5>3. Pointers(h0, f0, b0, i, z0, Nil, p0)
          BY ONLY <5>1, <5>2, SetAgain
        <5> QED BY <5>3 DEF b0, z0, p0, f0, h0
      <4> QED BY <3>2, <4>3, <1>1
    <3> QED BY <3>1, <3>2
  <2> QED BY <2>1, <2>2
<1>20. /\ IsStack(u) /\ DOMAIN u.frame = D /\ u.bottom = s.bottom /\ u.top = w /\ u.size = s.size - 1
       /\ \A j \in D : /\ u.frame[j].gBegin = s.frame[j].gBegin /\ u.frame[j].gEnd = s.frame[j].gEnd
                       /\ u.frame[j].gSize = s.frame[j].gSize
                       /\ u.frame[j].next = (IF j = i \/ j = w THEN Nil ELSE s.frame[j].next)
                       /\ u.frame[j].prev = (IF j = i THEN Nil ELSE s.frame[j].prev)
  <2>1. Measured(r, s.bottom, w, s.size - 1, u2)
    BY <1>11, MeasuredIs
  <2> HIDE DEF u2
  <2>2. IsStack(u2) /\ u2.frame = r.frame /\ u2.bottom = s.bottom /\ u2.top = w /\ u2.size = s.size - 1
    BY <2>1 DEF Measured
  <2> DEFINE a4 == [u2.frame[w] EXCEPT !.next = Nil]
  <2>3. Replaced(u2, w, a4, u)
    BY <1>1, <1>11, <2>2, ReplacedBy
  <2>4. Pointers(a4, s.frame[w], s.frame[w].gBegin, s.frame[w].gEnd, s.frame[w].gSize, Nil, s.frame[w].prev)
    BY <1>1, <1>2, <1>11, <2>2, Setters
  <2> HIDE DEF u, a4
  <2>5. IsStack(u) /\ DOMAIN u.frame = D /\ u.bottom = s.bottom /\ u.top = w /\ u.size = s.size - 1
        /\ u.frame[w] = a4 /\ u.frame[i] = a2 /\ \A j \in D \ {w, i} : u.frame[j] = s.frame[j]
    BY <1>1, <1>11, <2>2, <2>3 DEF Replaced
  <2>6. /\ a4.gBegin = s.frame[w].gBegin /\ a4.gEnd = s.frame[w].gEnd /\ a4.gSize = s.frame[w].gSize
        /\ a4.next = Nil /\ a4.prev = s.frame[w].prev
        /\ a2.gBegin = s.frame[i].gBegin /\ a2.gEnd = s.frame[i].gEnd /\ a2.gSize = s.frame[i].gSize
        /\ a2.next = Nil /\ a2.prev = Nil
    BY <2>4, <1>10 DEF Pointers
  <2> QED BY <2>5, <2>6, <1>1
<1> HIDE DEF u
<1>21. Unlinks(s, own, pos, i, {i}, u)
  <2>1. Owners(u) = Owners(s) /\ \A j \in D : own[j] \in Owners(s)
    BY <1>20 DEF Owners, Whole, Placed
  <2>2. \A o \in Owners(u) \ {own[i]} : /\ Count(u, o) = Count(s, o) /\ First(u, o) = First(s, o)
                                        /\ Final(u, o) = Final(s, o)
    BY <1>1, <1>20, <2>1 DEF Count, First, Final, Owners
  <2>3. /\ Count(u, own[i]) = Count(s, own[i]) - 1
        /\ First(u, own[i]) = (IF pos[i] = 1 THEN s.frame[i].next ELSE First(s, own[i]))
        /\ Final(u, own[i]) = (IF pos[i] = Count(s, own[i]) THEN s.frame[i].prev ELSE Final(s, own[i]))
    <3>1. pos[i] # 1
      BY <1>1
    <3> QED BY <3>1, <1>1, <1>20 DEF Count, First, Final
  <2>4. ASSUME NEW j \in D \ {i}
        PROVE  /\ u.frame[j].next = (IF own[j] = own[i] /\ pos[j] + 1 = pos[i] THEN s.frame[i].next
                               ELSE s.frame[j].next)
               /\ u.frame[j].prev = (IF own[j] = own[i] /\ pos[j] = pos[i] + 1 THEN s.frame[i].prev
                               ELSE s.frame[j].prev)
    <3>1. pos[j] \in Nat
      BY DEF Whole, Placed
    <3>2. own[j] = own[i] /\ pos[j] + 1 = pos[i] <=> j = w
      BY <3>1, <1>1
    <3>3. ~ (own[j] = own[i] /\ pos[j] = pos[i] + 1)
      BY <1>1
    <3> QED BY <3>2, <3>3, <1>1, <1>20
  <2> QED BY <1>1, <1>20, <2>1, <2>2, <2>3, <2>4 DEF Unlinks
<1> DEFINE E == D \ {i}
           o2 == [j \in D \ {i} |-> own[j]]
           p2 == [j \in D \ {i} |-> Closer(own, pos, i, j)]
<1>22. Placed(u, D \ {i}, o2, p2)
  <2>1. Remaining(s, own, pos, i, {i}, u)
    BY <1>21, UnlinkPlaced
  <2> QED BY <2>1 DEF Remaining
<1>23. Appends(u, o2, p2, w, i, t)
  <2>1. /\ w \in Owners(u) /\ Owners(u) = D \cup {Nil}
        /\ Count(u, w) = f.gSize /\ First(u, w) = f.gBegin /\ Final(u, w) = f.gEnd
    BY <1>1, <1>20 DEF Owners, Count, First, Final, f
  <2>2. ASSUME NEW x \in Owners(u) \ {w}
        PROVE Count(t, x) = Count(u, x) /\ First(t, x) = First(u, x) /\ Final(t, x) = Final(u, x)
    <3>1. CASE x = Nil
      BY <3>1, <1>19, <1>20 DEF Count, First, Final
    <3>2. CASE x # Nil
      <4>1. x \in D /\ x # w
        BY <3>2, <2>1
      <4> QED BY <3>2, <4>1, <1>19, <1>20 DEF Count, First, Final, Pointers
    <3> QED BY <3>1, <3>2
  <2>3. t.frame[w].gSize = f.gSize + 1 /\ t.frame[w].gEnd = i
        /\ t.frame[w].gBegin = (IF f.gBegin = Nil THEN i ELSE f.gBegin)
    <3>1. Pointers(t.frame[w], s.frame[w],
                  IF f.gBegin = Nil THEN i ELSE s.frame[w].gBegin, i, f.gSize + 1, Nil, s.frame[w].prev)
      BY <1>1, <1>19
    <3> QED BY <3>1 DEF Pointers, f
  <2>4. Count(t, w) = f.gSize + 1 /\ First(t, w) = (IF f.gSize = 0 THEN i ELSE f.gBegin) /\ Final(t, w) = i
    BY <2>3, <1>1, <1>3 DEF Count, First, Final
  <2>5. ASSUME NEW j \in D \ {i}
        PROVE /\ t.frame[j].next = (IF o2[j] = w /\ p2[j] = f.gSize THEN i ELSE u.frame[j].next)
              /\ t.frame[j].prev = u.frame[j].prev
    <3>1. /\ t.frame[j].next = (IF j = w THEN Nil ELSE IF f.gBegin # Nil /\ j = f.gEnd THEN i ELSE s.frame[j].next)
          /\ t.frame[j].prev = s.frame[j].prev
      BY <1>19 DEF Pointers
    <3>2. o2[j] = own[j] /\ (own[j] = w => p2[j] = pos[j])
      BY <1>1 DEF Closer
    <3> HIDE DEF o2, p2
    <3>3. own[j] = w /\ pos[j] = f.gSize <=> f.gBegin # Nil /\ j = f.gEnd
      <4>1. \A k \in D : own[k] = own[j] /\ pos[k] = pos[j] => k = j
        BY DEF Whole, Placed
      <4>2. pos[j] \in Nat \ {0}
        BY DEF Whole, Placed
      <4> QED BY <4>1, <4>2, <1>3
    <3> QED BY <3>1, <3>2, <3>3, <1>1, <1>20
  <2>6. t.frame[i].next = Nil /\ t.frame[i].prev = (IF f.gSize = 0 THEN Nil ELSE f.gEnd)
    <3>1. t.frame[i].next = Nil /\ t.frame[i].prev = (IF f.gBegin # Nil THEN f.gEnd ELSE Nil)
      BY <1>1, <1>19 DEF Pointers
    <3> QED BY <3>1, <1>3
  <2> HIDE DEF o2, p2
  <2> QED BY <1>19, <1>20, <2>1, <2>2, <2>4, <2>5, <2>6 DEF Appends
<1>24. Appended(u, o2, p2, w, i, t)
  BY <1>1, <1>20, <1>22, <1>23, AppendPlaced
<1>25. Whole(t, [j \in D |-> IF j = i THEN w ELSE own[j]],
                [j \in D |-> IF j = i THEN f.gSize + 1 ELSE Closer(own, pos, i, j)])
  <2>1. Count(u, w) = f.gSize
    BY <1>1, <1>20 DEF Count, f
  <2>2. [j \in D |-> IF j = i THEN w ELSE o2[j]] = [j \in D |-> IF j = i THEN w ELSE own[j]]
    OBVIOUS
  <2>3. [j \in D |-> IF j = i THEN Count(u, w) + 1 ELSE p2[j]]
          = [j \in D |-> IF j = i THEN f.gSize + 1 ELSE Closer(own, pos, i, j)]
    BY <2>1
  <2>4. Placed(t, D, [j \in D |-> IF j = i THEN w ELSE o2[j]],
                     [j \in D |-> IF j = i THEN Count(u, w) + 1 ELSE p2[j]])
    BY <1>20, <1>24 DEF Appended
  <2> QED BY <2>2, <2>3, <2>4, <1>19 DEF Whole
<1>26. Alike(s, t)
  BY <1>19 DEF Alike, Pointers, Setter
<1>27. Suspended(s, own, pos, t)
  BY <1>19, <1>25, <1>26 DEF Suspended, i, w, f
<1> QED BY <1>0, <1>27
-----------------------------------------------------------------------------
(* g has the pointers of f.                                                *)
Linkage(g, f) == /\ IsFrame(g) /\ g.gBegin = f.gBegin /\ g.gEnd = f.gEnd /\ g.gSize = f.gSize
                 /\ g.next = f.next /\ g.prev = f.prev

(* An assignment to what a frame contains leaves its pointers alone.       *)
LEMMA Contents ==
    ASSUME NEW f, IsFrame(f), NEW a
    PROVE  /\ Linkage([f EXCEPT !.pc = a], f) /\ Linkage([f EXCEPT !.args = a], f)
           /\ Linkage([f EXCEPT !.trapPc = a], f) /\ Linkage([f EXCEPT !.trapOn = a], f)
           /\ Linkage([f EXCEPT !.stack = a], f)
           /\ Content([f EXCEPT !.pc = a]) = [Content(f) EXCEPT !.pc = a]
           /\ Content([f EXCEPT !.args = a]) = [Content(f) EXCEPT !.args = a]
           /\ Content([f EXCEPT !.trapPc = a]) = [Content(f) EXCEPT !.trapPc = a]
           /\ Content([f EXCEPT !.trapOn = a]) = [Content(f) EXCEPT !.trapOn = a]
           /\ Content([f EXCEPT !.stack = a]) = [Content(f) EXCEPT !.stack = a]
  BY DEF IsFrame, Linkage, Content

(* t is s with other contents.                                             *)
SameLinks(s, t) ==
    /\ IsStack(t) /\ DOMAIN t.frame = DOMAIN s.frame
    /\ t.bottom = s.bottom /\ t.top = s.top /\ t.size = s.size
    /\ \A j \in DOMAIN s.frame : Linkage(t.frame[j], s.frame[j])

(* Contents are no matter for the lists.                                   *)
LEMMA SameLinksWhole ==
    ASSUME NEW s, NEW own, NEW pos, Whole(s, own, pos), NEW t, SameLinks(s, t)
    PROVE  Whole(t, own, pos)
<1> DEFINE D == DOMAIN s.frame
<1>1. /\ \A j \in D : own[j] \in Owners(s) /\ FramePlaced(s, D, own, pos, j)
      /\ \A x \in Owners(s) : ListPlaced(s, D, own, pos, x)
      /\ own \in [D -> Owners(s)] /\ pos \in [D -> Nat \ {0}]
      /\ \A j, k \in D : own[j] = own[k] /\ pos[j] = pos[k] => j = k
  BY DEF Whole, Placed
<1>2. /\ IsStack(t) /\ DOMAIN t.frame = D /\ t.bottom = s.bottom /\ t.top = s.top /\ t.size = s.size
      /\ \A j \in D : /\ t.frame[j].gBegin = s.frame[j].gBegin /\ t.frame[j].gEnd = s.frame[j].gEnd
                      /\ t.frame[j].gSize = s.frame[j].gSize
                      /\ t.frame[j].next = s.frame[j].next /\ t.frame[j].prev = s.frame[j].prev
  BY DEF SameLinks, Linkage
<1>3. Owners(t) = Owners(s) /\ Owners(s) = D \cup {Nil}
  BY <1>2 DEF Owners
<1> HIDE DEF D
<1>4. \A x \in Owners(s) : Count(t, x) = Count(s, x) /\ First(t, x) = First(s, x) /\ Final(t, x) = Final(s, x)
  BY <1>2, <1>3 DEF Count, First, Final
<1>5. \A x \in Owners(s) : ListPlaced(t, D, own, pos, x)
  BY <1>1, <1>4 DEF ListPlaced
<1>6. \A j \in D : FramePlaced(t, D, own, pos, j)
  BY <1>1, <1>2, <1>4 DEF FramePlaced
<1>7. Placed(t, D, own, pos)
  BY <1>1, <1>2, <1>3, <1>5, <1>6 DEF Placed
<1> QED BY <1>2, <1>7 DEF Whole

(* One change of the contents after another.                               *)
LEMMA SameLinksTrans ==
    ASSUME NEW s, NEW t, NEW u, SameLinks(s, t), SameLinks(t, u)
    PROVE  SameLinks(s, u)
  BY DEF SameLinks, Linkage

(* A frame is replaced by one of the same pointers.                        *)
LEMMA ReplacedLinks ==
    ASSUME NEW s, IsStack(s), NEW i \in DOMAIN s.frame, NEW g, Linkage(g, s.frame[i]), NEW t, Replaced(s, i, g, t)
    PROVE  SameLinks(s, t)
  BY DEF SameLinks, Linkage, Replaced, IsStack

(* Frame i is in no list any more and has n arguments; the lists of the    *)
(* other frames are whole.                                                 *)
Picked(s, own, pos, i, n, t) ==
    /\ IsStack(t) /\ DOMAIN t.frame = DOMAIN s.frame /\ t.size = s.size /\ t.top = s.top /\ t.bottom = s.bottom
    /\ \A j \in DOMAIN s.frame \ {i} : Content(t.frame[j]) = Content(s.frame[j])
    /\ Content(t.frame[i]) = [Content(s.frame[i]) EXCEPT !.args = n]
    /\ t.frame[i].next = Nil /\ t.frame[i].prev = Nil
    /\ Placed(t, DOMAIN s.frame \ {i}, [j \in DOMAIN s.frame \ {i} |-> own[j]],
              [j \in DOMAIN s.frame \ {i} |-> Closer(own, pos, i, j)])

(* PickGenerator unlinks a generator of the top from wherever it is in the *)
(* list (OP_CALL).                                                         *)
LEMMA PickPlaced ==
    ASSUME NEW s, NEW own, NEW pos, Whole(s, own, pos), s.size # 0,
           NEW i \in DOMAIN s.frame, own[i] = s.top, NEW n
    PROVE  Picked(s, own, pos, i, n, PickGenerator(s, i, n))
<1> DEFINE D == DOMAIN s.frame
           w == s.top
           f == s.frame[i]
           x == s.frame[i].prev
           y == s.frame[i].next
           before == IF x # Nil THEN [s EXCEPT !.frame[x].next = y] ELSE [s EXCEPT !.frame[w].gBegin = y]
           after == IF y # Nil THEN [before EXCEPT !.frame[y].prev = x] ELSE [before EXCEPT !.frame[w].gEnd = x]
           z == s.frame[w].gSize - 1
           t1 == [after EXCEPT !.frame[w].gSize = after.frame[w].gSize - 1]
           t2 == [t1 EXCEPT !.frame[i].next = Nil]
           t3 == [t2 EXCEPT !.frame[i].prev = Nil]
           t == [t3 EXCEPT !.frame[i].args = n]
<1>0. PickGenerator(s, i, n) = t
  BY Zenon DEF PickGenerator
<1>1. s.size \in Nat /\ Nil \notin D /\ w \in D /\ own[w] = Nil
  BY TopIs
<1>2. IsStack(s) /\ \A j \in D : IsFrame(s.frame[j])
  BY DEF Whole, IsStack
<1> HIDE DEF w
<1>3. /\ own[i] = w /\ i # w /\ w # Nil /\ pos[i] \in Nat \ {0}
      /\ FramePlaced(s, D, own, pos, i)
      /\ ListPlaced(s, D, own, pos, w)
      /\ Count(s, w) = s.frame[w].gSize /\ First(s, w) = s.frame[w].gBegin /\ Final(s, w) = s.frame[w].gEnd
      /\ \A j \in D : pos[j] \in Nat \ {0}
      /\ \A j, k \in D : own[j] = own[k] /\ pos[j] = pos[k] => j = k
  <2>1. own[i] = w
    BY DEF w
  <2>2. i # w /\ w # Nil
    BY <1>1, <2>1
  <2>3. w \in Owners(s)
    BY <1>1 DEF Owners
  <2> QED BY <1>1, <2>1, <2>2, <2>3 DEF Whole, Placed, Count, First, Final
<1>4. /\ s.frame[w].gSize \in Nat \ {0} /\ pos[i] <= s.frame[w].gSize
      /\ pos[i] = 1 <=> x = Nil
      /\ x # Nil => x \in D /\ own[x] = w /\ pos[x] = pos[i] - 1 /\ x # i /\ x # w
      /\ pos[i] = s.frame[w].gSize <=> y = Nil
      /\ y # Nil => y \in D /\ own[y] = w /\ pos[y] = pos[i] + 1 /\ y # i /\ y # w
      /\ y # Nil => x # y
  <2>1. s.frame[w].gSize \in Nat \ {0} /\ pos[i] <= s.frame[w].gSize
    BY <1>3 DEF FramePlaced, ListPlaced
  <2>2. /\ pos[i] = 1 <=> x = Nil
        /\ x # Nil => x \in D /\ own[x] = w /\ pos[x] = pos[i] - 1
    BY <1>1, <1>3 DEF FramePlaced
  <2>3. /\ pos[i] = s.frame[w].gSize <=> y = Nil
        /\ y # Nil => y \in D /\ own[y] = w /\ pos[y] = pos[i] + 1
    BY <1>1, <1>3 DEF FramePlaced
  <2> HIDE DEF x, y
  <2> QED BY <2>1, <2>2, <2>3, <1>1, <1>3
<1> HIDE DEF x, y
<1>5. /\ IsStack(before) /\ DOMAIN before.frame = D /\ before.bottom = s.bottom /\ before.top = s.top
      /\ before.size = s.size
      /\ \A j \in D :
           Pointers(before.frame[j], s.frame[j],
                    IF x = Nil /\ j = w THEN y ELSE s.frame[j].gBegin, s.frame[j].gEnd, s.frame[j].gSize,
                    IF x # Nil /\ j = x THEN y ELSE s.frame[j].next, s.frame[j].prev)
  <2>0. \A j \in D : Pointers(s.frame[j], s.frame[j], s.frame[j].gBegin, s.frame[j].gEnd, s.frame[j].gSize,
                             s.frame[j].next, s.frame[j].prev)
    BY <1>2, Untouched
  <2>1. CASE x # Nil
    <3> DEFINE b == [s EXCEPT !.frame[x].next = y]
               g == [s.frame[x] EXCEPT !.next = y]
    <3>1. before = b
      BY <2>1
    <3>2. Replaced(s, x, g, b)
      BY <1>2, <1>4, <2>1, ReplacedBy
    <3>3. Pointers(g, s.frame[x], s.frame[x].gBegin, s.frame[x].gEnd, s.frame[x].gSize, y, s.frame[x].prev)
      BY <1>2, <1>4, <2>1, Setters
    <3> HIDE DEF b, g, before
    <3> QED BY <2>0, <2>1, <3>1, <3>2, <3>3 DEF Replaced
  <2>2. CASE x = Nil
    <3> DEFINE b == [s EXCEPT !.frame[w].gBegin = y]
               g == [s.frame[w] EXCEPT !.gBegin = y]
    <3>1. before = b
      BY <2>2
    <3>2. Replaced(s, w, g, b)
      BY <1>1, <1>2, ReplacedBy
    <3>3. Pointers(g, s.frame[w], y, s.frame[w].gEnd, s.frame[w].gSize, s.frame[w].next, s.frame[w].prev)
      BY <1>1, <1>2, Setters
    <3> HIDE DEF b, g, before
    <3> QED BY <2>0, <2>2, <3>1, <3>2, <3>3 DEF Replaced
  <2> QED BY <2>1, <2>2
<1> HIDE DEF before
<1>6. /\ IsStack(after) /\ DOMAIN after.frame = D /\ after.bottom = s.bottom /\ after.top = s.top
      /\ after.size = s.size
      /\ \A j \in D :
           Pointers(after.frame[j], s.frame[j],
                    IF x = Nil /\ j = w THEN y ELSE s.frame[j].gBegin,
                    IF y = Nil /\ j = w THEN x ELSE s.frame[j].gEnd, s.frame[j].gSize,
                    IF x # Nil /\ j = x THEN y ELSE s.frame[j].next,
                    IF y # Nil /\ j = y THEN x ELSE s.frame[j].prev)
  <2>1. CASE y # Nil
    <3> DEFINE b == [before EXCEPT !.frame[y].prev = x]
               g == [before.frame[y] EXCEPT !.prev = x]
    <3>1. after = b
      BY <2>1
    <3>2. Replaced(before, y, g, b)
      BY <1>5, <1>4, <2>1, ReplacedBy
    <3>3. Pointers(g, s.frame[y], s.frame[y].gBegin, s.frame[y].gEnd, s.frame[y].gSize, s.frame[y].next, x)
      <4>1. y \in D /\ ~ (x = Nil /\ y = w) /\ ~ (x # Nil /\ y = x)
        BY <1>4, <2>1
      <4>2. Pointers(before.frame[y], s.frame[y], s.frame[y].gBegin, s.frame[y].gEnd, s.frame[y].gSize,
                     s.frame[y].next, s.frame[y].prev)
        BY <4>1, <1>5
      <4> QED BY <4>2, SetAgain
    <3> HIDE DEF b, g, after
    <3>4. y # w /\ x # y
      BY <1>4, <2>1
    <3> QED BY <1>5, <2>1, <3>1, <3>2, <3>3, <3>4 DEF Replaced
  <2>2. CASE y = Nil
    <3> DEFINE b == [before EXCEPT !.frame[w].gEnd = x]
               g == [before.frame[w] EXCEPT !.gEnd = x]
    <3>1. after = b
      BY <2>2
    <3>2. Replaced(before, w, g, b)
      BY <1>1, <1>5, ReplacedBy
    <3>3. Pointers(g, s.frame[w], IF x = Nil THEN y ELSE s.frame[w].gBegin, x, s.frame[w].gSize,
                   s.frame[w].next, s.frame[w].prev)
      <4> DEFINE b0 == IF x = Nil THEN y ELSE s.frame[w].gBegin
      <4>1. ~ (x # Nil /\ w = x)
        BY <1>4
      <4>2. Pointers(before.frame[w], s.frame[w], b0, s.frame[w].gEnd, s.frame[w].gSize,
                     s.frame[w].next, s.frame[w].prev)
        BY <4>1, <1>1, <1>5
      <4> HIDE DEF b0
      <4>3. Pointers(g, s.frame[w], b0, x, s.frame[w].gSize, s.frame[w].next, s.frame[w].prev)
        BY <4>2, SetAgain
      <4> QED BY <4>3 DEF b0
    <3> HIDE DEF b, g, after
    <3>4. x # Nil => x # w
      BY <1>4
    <3> QED BY <1>5, <2>2, <3>1, <3>2, <3>3, <3>4 DEF Replaced
  <2> QED BY <2>1, <2>2
<1> HIDE DEF after
<1> DEFINE b1 == IF x = Nil THEN y ELSE s.frame[w].gBegin
           e1 == IF y = Nil THEN x ELSE s.frame[w].gEnd
           g1 == [after.frame[w] EXCEPT !.gSize = z]
<1>7. after.frame[w].gSize = s.frame[w].gSize
  BY <1>1, <1>6 DEF Pointers
<1>8. Replaced(after, w, g1, t1)
  BY <1>1, <1>6, <1>7, ReplacedBy
<1>9. Pointers(g1, s.frame[w], b1, e1, z, s.frame[w].next, s.frame[w].prev)
  <2>1. ~ (x # Nil /\ w = x) /\ ~ (y # Nil /\ w = y)
    BY <1>4
  <2>2. Pointers(after.frame[w], s.frame[w], b1, e1, s.frame[w].gSize, s.frame[w].next, s.frame[w].prev)
    BY <1>1, <1>6, <2>1
  <2> HIDE DEF b1, e1, z
  <2> QED BY <2>2, SetAgain
<1> HIDE DEF t1, g1, z
<1>10. IsStack(t1) /\ DOMAIN t1.frame = D /\ t1.frame[i] = after.frame[i]
  BY <1>3, <1>6, <1>8 DEF Replaced
<1>11. Pointers(after.frame[i], f, f.gBegin, f.gEnd, f.gSize, f.next, f.prev)
  <2>1. /\ ~ (x = Nil /\ i = w) /\ ~ (y = Nil /\ i = w) /\ ~ (x # Nil /\ i = x) /\ ~ (y # Nil /\ i = y)
    BY <1>3, <1>4
  <2> QED BY <2>1, <1>6
<1> DEFINE g2 == [t1.frame[i] EXCEPT !.next = Nil]
           g3 == [t2.frame[i] EXCEPT !.prev = Nil]
           g4 == [t3.frame[i] EXCEPT !.args = n]
<1>12. Replaced(t1, i, g2, t2)
  BY <1>10, ReplacedBy
<1>13. Pointers(g2, f, f.gBegin, f.gEnd, f.gSize, Nil, f.prev)
  <2> HIDE DEF f
  <2> QED BY <1>10, <1>11, SetAgain
<1> HIDE DEF t2, g2
<1>14. IsStack(t2) /\ DOMAIN t2.frame = D /\ t2.frame[i] = g2
  BY <1>10, <1>12 DEF Replaced
<1>15. Replaced(t2, i, g3, t3)
  BY <1>14, ReplacedBy
<1>16. Pointers(g3, f, f.gBegin, f.gEnd, f.gSize, Nil, Nil)
  <2> HIDE DEF f
  <2> QED BY <1>13, <1>14, SetAgain
<1> HIDE DEF t3, g3
<1>17. IsStack(t3) /\ DOMAIN t3.frame = D /\ t3.frame[i] = g3
  BY <1>14, <1>15 DEF Replaced
<1>18. Linkage(g4, g3) /\ Content(g4) = [Content(g3) EXCEPT !.args = n]
  BY <1>16, <1>17, Contents DEF Pointers, Setter
<1>19. Replaced(t3, i, g4, t)
  <2>1. t = [t3 EXCEPT !.frame[i] = g4]
    OBVIOUS
  <2>2. IsFrame(g4)
    BY <1>18 DEF Linkage
  <2> HIDE DEF g4, t
  <2> QED BY <1>17, <2>1, <2>2, ReplacedIs
<1> HIDE DEF t, g4, f
<1>20. /\ IsStack(t) /\ DOMAIN t.frame = D /\ t.bottom = s.bottom /\ t.top = s.top /\ t.size = s.size
       /\ t.frame[i] = g4 /\ t.frame[w] = g1 /\ \A j \in D \ {i, w} : t.frame[j] = after.frame[j]
  <2>1. /\ t1.bottom = s.bottom /\ t1.top = s.top /\ t1.size = s.size
        /\ t1.frame[w] = g1 /\ \A j \in D \ {i, w} : t1.frame[j] = after.frame[j]
    BY <1>6, <1>8 DEF Replaced
  <2>2. /\ t2.bottom = s.bottom /\ t2.top = s.top /\ t2.size = s.size
        /\ \A j \in D \ {i} : t2.frame[j] = t1.frame[j]
    BY <2>1, <1>10, <1>12 DEF Replaced
  <2>3. /\ t3.bottom = s.bottom /\ t3.top = s.top /\ t3.size = s.size
        /\ \A j \in D \ {i} : t3.frame[j] = t1.frame[j]
    BY <2>2, <1>14, <1>15 DEF Replaced
  <2>4. /\ IsStack(t) /\ DOMAIN t.frame = D
        /\ t.bottom = s.bottom /\ t.top = s.top /\ t.size = s.size
        /\ t.frame[i] = g4 /\ \A j \in D \ {i} : t.frame[j] = t1.frame[j]
    BY <2>3, <1>17, <1>19 DEF Replaced
  <2> QED BY <2>1, <2>4, <1>1, <1>3
<1>21. /\ t.frame[i].next = Nil /\ t.frame[i].prev = Nil
       /\ t.frame[i].gBegin = f.gBegin /\ t.frame[i].gEnd = f.gEnd /\ t.frame[i].gSize = f.gSize
       /\ Content(t.frame[i]) = [Content(f) EXCEPT !.args = n]
  BY <1>16, <1>18, <1>20 DEF Pointers, Setter, Linkage
<1>22. ASSUME NEW j \in D \ {i}
       PROVE  Pointers(t.frame[j], s.frame[j],
                    IF j = w THEN b1 ELSE s.frame[j].gBegin, IF j = w THEN e1 ELSE s.frame[j].gEnd,
                    IF j = w THEN z ELSE s.frame[j].gSize,
                    IF x # Nil /\ j = x THEN y ELSE s.frame[j].next,
                    IF y # Nil /\ j = y THEN x ELSE s.frame[j].prev)
  <2>1. CASE j = w
    <3>1. ~ (x # Nil /\ w = x) /\ ~ (y # Nil /\ w = y)
      BY <1>4
    <3> HIDE DEF b1, e1
    <3> QED BY <2>1, <3>1, <1>9, <1>20
  <2>2. CASE j # w
    <3>1. t.frame[j] = after.frame[j]
      BY <2>2, <1>20
    <3> QED BY <2>2, <3>1, <1>6
  <2> QED BY <2>1, <2>2
<1>23. Unlinks(s, own, pos, i, {i}, t)
  <2>1. Owners(t) = Owners(s) /\ Owners(s) = D \cup {Nil} /\ \A j \in D : own[j] \in Owners(s)
    BY <1>20 DEF Owners, Whole, Placed
  <2>2. ASSUME NEW o \in Owners(t) \ {w}
        PROVE  Count(t, o) = Count(s, o) /\ First(t, o) = First(s, o) /\ Final(t, o) = Final(s, o)
    <3>1. CASE o = Nil
      BY <3>1, <1>20 DEF Count, First, Final
    <3>2. CASE o = i
      BY <3>2, <1>1, <1>21 DEF Count, First, Final, f
    <3>3. CASE o # Nil /\ o # i
      <4>1. o \in D \ {i} /\ o # w
        BY <3>3, <2>1
      <4> QED BY <3>3, <4>1, <1>22 DEF Count, First, Final, Pointers
    <3> QED BY <3>1, <3>2, <3>3
  <2>3. Pointers(t.frame[w], s.frame[w], b1, e1, z,
                    IF x # Nil /\ w = x THEN y ELSE s.frame[w].next,
                    IF y # Nil /\ w = y THEN x ELSE s.frame[w].prev)
    BY <1>1, <1>3, <1>22
  <2>4. /\ Count(t, own[i]) = Count(s, own[i]) - 1
        /\ First(t, own[i]) = (IF pos[i] = 1 THEN s.frame[i].next ELSE First(s, own[i]))
        /\ Final(t, own[i]) = (IF pos[i] = Count(s, own[i]) THEN s.frame[i].prev ELSE Final(s, own[i]))
    BY <1>3, <1>4, <2>3 DEF Count, First, Final, Pointers, z, b1, e1, x, y
  <2>5. ASSUME NEW j \in D \ {i}
        PROVE  /\ t.frame[j].next = (IF own[j] = own[i] /\ pos[j] + 1 = pos[i] THEN s.frame[i].next
                               ELSE s.frame[j].next)
               /\ t.frame[j].prev = (IF own[j] = own[i] /\ pos[j] = pos[i] + 1 THEN s.frame[i].prev
                               ELSE s.frame[j].prev)
    <3>1. /\ t.frame[j].next = (IF x # Nil /\ j = x THEN y ELSE s.frame[j].next)
          /\ t.frame[j].prev = (IF y # Nil /\ j = y THEN x ELSE s.frame[j].prev)
      BY <1>22 DEF Pointers
    <3>2. own[j] = own[i] /\ pos[j] + 1 = pos[i] <=> x # Nil /\ j = x
      BY <1>3, <1>4
    <3>3. own[j] = own[i] /\ pos[j] = pos[i] + 1 <=> y # Nil /\ j = y
      <4>1. ASSUME own[j] = own[i], pos[j] = pos[i] + 1 PROVE y # Nil /\ j = y
        <5>1. pos[j] <= s.frame[w].gSize
          BY <4>1, <1>3 DEF Whole, Placed, FramePlaced
        <5>2. y # Nil
          BY <5>1, <4>1, <1>3, <1>4
        <5> QED BY <5>2, <4>1, <1>3, <1>4
      <4> QED BY <4>1, <1>3, <1>4
    <3> QED BY <3>1, <3>2, <3>3 DEF x, y
  <2> QED BY <1>3, <1>20, <2>1, <2>2, <2>4, <2>5 DEF Unlinks
<1>24. Remaining(s, own, pos, i, {i}, t)
  BY <1>23, UnlinkPlaced
<1>25. \A j \in D \ {i} : Content(t.frame[j]) = Content(s.frame[j])
  BY <1>22 DEF Pointers, Setter
<1>26. Picked(s, own, pos, i, n, t)
  BY <1>20, <1>21, <1>24, <1>25 DEF Picked, Remaining, f
<1> QED BY <1>0, <1>26

(* A function on 1 .. n is a sequence of that length.                      *)
LEMMA IsSequence ==
    ASSUME NEW n \in Nat, NEW S, NEW f, f = [k \in 1 .. n |-> f[k]], \A k \in 1 .. n : f[k] \in S
    PROVE  f \in Seq(S) /\ Len(f) = n /\ DOMAIN f = 1 .. n
<1>1. f \in [1 .. n -> S] /\ DOMAIN f = 1 .. n
  OBVIOUS
<1>2. f \in Seq(S)
  BY <1>1 DEF Seq
<1> QED BY <1>1, <1>2, LenProperties
-----------------------------------------------------------------------------
(* q lists the frames of the running stack, from bottom to top.            *)
Runs(s, q) == \E own, pos : Whole(s, own, pos) /\ Ordered(s, own, pos, Nil, q)

(* What can be said of the running stack when q lists it.                  *)
Listing(s, q) ==
    /\ IsStack(s) /\ Nil \notin DOMAIN s.frame
    /\ q \in Seq(DOMAIN s.frame) /\ Len(q) \in Nat /\ Len(q) = s.size /\ DOMAIN q = 1 .. Len(q)
    /\ q = [k \in 1 .. Len(q) |-> q[k]]
    /\ \A k \in 1 .. Len(q) : q[k] \in DOMAIN s.frame
    /\ \A j, k \in 1 .. Len(q) : q[j] = q[k] => j = k
    /\ Frames(s) = q
    /\ s.bottom = (IF Len(q) = 0 THEN Nil ELSE q[1])
    /\ s.top = (IF Len(q) = 0 THEN Nil ELSE q[Len(q)])
    /\ \A k \in 1 .. Len(q) : s.frame[q[k]].prev = (IF k = 1 THEN Nil ELSE q[k - 1])

(* The list is what Frames meets.                                          *)
LEMMA RunsIs ==
    ASSUME NEW s, NEW q, Runs(s, q)
    PROVE  Listing(s, q)
<1>1. PICK own, pos : Whole(s, own, pos) /\ Ordered(s, own, pos, Nil, q)
  BY DEF Runs
<1>2. IsStack(s) /\ Nil \notin DOMAIN s.frame /\ Nil \in Owners(s)
  BY <1>1 DEF Whole, IsStack, Nil, Owners
<1>3. Frames(s) = q
  BY <1>1, <1>2, WalkIs DEF Frames, First
<1>4. /\ Len(q) \in Nat /\ Len(q) = s.size
      /\ s.bottom = (IF Len(q) = 0 THEN Nil ELSE q[1])
      /\ s.top = (IF Len(q) = 0 THEN Nil ELSE q[Len(q)])
      /\ \A k \in 1 .. Len(q) : /\ q[k] \in DOMAIN s.frame
                                /\ s.frame[q[k]].prev = (IF k = 1 THEN Nil ELSE q[k - 1])
  BY <1>1, <1>2, Neighbours DEF Count, First, Final
<1>5. q \in Seq(DOMAIN s.frame) /\ DOMAIN q = 1 .. Len(q) /\ q = [k \in 1 .. Len(q) |-> q[k]]
  BY <1>1, LenProperties DEF Ordered
<1>6. \A j, k \in 1 .. Len(q) : q[j] = q[k] => j = k
  BY <1>1 DEF Ordered
<1> QED BY <1>2, <1>3, <1>4, <1>5, <1>6 DEF Listing

(* The lowest n frames; one more on top; the top in its caller's place.    *)
Upto(q, n) == [k \in 1 .. n |-> q[k]]
Extended(q, i) == [k \in 1 .. Len(q) + 1 |-> IF k = Len(q) + 1 THEN i ELSE q[k]]
Merged(q) == [k \in 1 .. Len(q) - 1 |-> IF k = Len(q) - 1 THEN q[Len(q)] ELSE q[k]]

(* t has some of the frames of s, unchanged but for their pointers.        *)
Left(s, q, t) == /\ Runs(t, q) /\ DOMAIN t.frame \subseteq DOMAIN s.frame
                 /\ \A j \in DOMAIN t.frame : Content(t.frame[j]) = Content(s.frame[j])

(* t is s with a new frame on top, of the content of f.                    *)
NewOnTop(s, q, f, t) ==
    \E i : /\ i \notin DOMAIN s.frame /\ DOMAIN t.frame = DOMAIN s.frame \cup {i}
           /\ Runs(t, Extended(q, i)) /\ Content(t.frame[i]) = Content(f)
           /\ \A j \in DOMAIN s.frame : Content(t.frame[j]) = Content(s.frame[j])

(* A sequence with each place of the running stack in its place lists it.  *)
LEMMA ListedRuns ==
    ASSUME NEW t, NEW own, NEW pos, Whole(t, own, pos), NEW n \in Nat, t.size = n,
           NEW e, e = [k \in 1 .. n |-> e[k]],
           \A k \in 1 .. n : e[k] \in DOMAIN t.frame /\ own[e[k]] = Nil /\ pos[e[k]] = k
    PROVE  Runs(t, e)
<1>1. e \in Seq(DOMAIN t.frame) /\ Len(e) = n
  BY IsSequence
<1>2. Ordered(t, own, pos, Nil, e)
  BY <1>1 DEF Ordered, Count
<1> QED BY <1>2 DEF Runs

(* What lists the running stack after a frame is gone.                     *)
LEMMA LostRuns ==
    ASSUME NEW s, NEW own, NEW pos, NEW i, NEW t, Lost(s, own, pos, i, t), NEW n \in Nat, s.size = n + 1,
           NEW e, e = [k \in 1 .. n |-> e[k]],
           \A k \in 1 .. n : /\ e[k] \in DOMAIN s.frame /\ own[e[k]] = Nil /\ e[k] # i
                             /\ Closer(own, pos, i, e[k]) = k
    PROVE  Left(s, e, t)
<1> DEFINE o2 == [j \in DOMAIN t.frame |-> own[j]]
           p2 == [j \in DOMAIN t.frame |-> Closer(own, pos, i, j)]
           gone == Owned(s, i)
<1>1. /\ DOMAIN t.frame = DOMAIN s.frame \ gone /\ t.size = s.size - 1
      /\ \A j \in gone \ {i} : own[j] # Nil
      /\ Whole(t, o2, p2)
      /\ \A j \in DOMAIN t.frame : Content(t.frame[j]) = Content(s.frame[j])
  BY DEF Lost
<1>2. t.size = n
  BY <1>1
<1>3. \A k \in 1 .. n : e[k] \in DOMAIN t.frame
  BY <1>1
<1>4. \A k \in 1 .. n : e[k] \in DOMAIN t.frame /\ o2[e[k]] = Nil /\ p2[e[k]] = k
  BY <1>3
<1> HIDE DEF o2, p2, gone
<1>5. Runs(t, e)
  BY <1>1, <1>2, <1>4, ListedRuns
<1> QED BY <1>1, <1>5 DEF Left

(* PushNew adds to the list.                                               *)
LEMMA RunsPushNew ==
    ASSUME NEW s, NEW q, Runs(s, q), NEW f, Fresh(f)
    PROVE  NewOnTop(s, q, f, PushNew(s, f))
<1> DEFINE t == PushNew(s, f)
           i == Unused(s)
           n == Len(q)
           e == Extended(q, i)
<1>1. PICK own, pos : Whole(s, own, pos) /\ Ordered(s, own, pos, Nil, q)
  BY DEF Runs
<1>2. PushedNew(s, f, own, pos, i, t)
  BY <1>1, PushNewWhole
<1> DEFINE o3 == [j \in DOMAIN t.frame |-> IF j = i THEN Nil ELSE own[j]]
           p3 == [j \in DOMAIN t.frame |-> IF j = i THEN s.size + 1 ELSE pos[j]]
<1>3. /\ n \in Nat /\ s.size = n
      /\ \A k \in 1 .. n : q[k] \in DOMAIN s.frame /\ own[q[k]] = Nil /\ pos[q[k]] = k
  BY <1>1, RunsIs DEF Listing, Ordered
<1>4. /\ e = [k \in 1 .. n + 1 |-> e[k]]
      /\ \A k \in 1 .. n + 1 : e[k] = (IF k = n + 1 THEN i ELSE q[k])
  BY DEF Extended
<1>5. /\ i \notin DOMAIN s.frame /\ DOMAIN t.frame = DOMAIN s.frame \cup {i} /\ t.size = s.size + 1
      /\ Whole(t, o3, p3) /\ Content(t.frame[i]) = Content(f)
      /\ \A j \in DOMAIN s.frame : Content(t.frame[j]) = Content(s.frame[j])
  BY <1>2 DEF PushedNew
<1> HIDE DEF t, i, n, e
<1>6. ASSUME NEW k \in 1 .. n + 1 PROVE e[k] \in DOMAIN t.frame /\ o3[e[k]] = Nil /\ p3[e[k]] = k
  <2>1. CASE k = n + 1
    BY <2>1, <1>3, <1>4, <1>5
  <2>2. CASE k # n + 1
    <3>1. k \in 1 .. n
      BY <2>2, <1>3
    <3>2. e[k] = q[k] /\ q[k] # i /\ q[k] \in DOMAIN s.frame
      BY <2>2, <3>1, <1>3, <1>4, <1>5
    <3> QED BY <3>1, <3>2, <1>3, <1>5
  <2> QED BY <2>1, <2>2
<1> HIDE DEF o3, p3
<1>7. n + 1 \in Nat /\ t.size = n + 1
  BY <1>3, <1>5
<1>8. Runs(t, e)
  BY <1>4, <1>5, <1>6, <1>7, ListedRuns
<1> QED BY <1>5, <1>8 DEF NewOnTop, t, e

(* Pop takes the last off.                                                 *)
LEMMA RunsPop ==
    ASSUME NEW s, NEW q, Runs(s, q), Len(q) # 0
    PROVE  Left(s, Upto(q, Len(q) - 1), Pop(s))
<1> DEFINE t == Pop(s)
           i == s.top
           n == Len(q) - 1
           e == Upto(q, n)
<1>1. PICK own, pos : Whole(s, own, pos) /\ Ordered(s, own, pos, Nil, q)
  BY DEF Runs
<1>2. /\ n \in Nat /\ s.size = n + 1
      /\ \A k \in 1 .. n + 1 : q[k] \in DOMAIN s.frame /\ own[q[k]] = Nil /\ pos[q[k]] = k
  BY <1>1, RunsIs DEF Listing, Ordered
<1>3. Lost(s, own, pos, i, t) /\ own[i] = Nil /\ pos[i] = n + 1
  <2>1. s.size # 0
    BY <1>2
  <2> QED BY <1>1, <1>2, <2>1, PopWhole, TopIs
<1>4. e = [k \in 1 .. n |-> e[k]] /\ \A k \in 1 .. n : e[k] = q[k]
  BY DEF Upto
<1> HIDE DEF t, i, n, e
<1>5. ASSUME NEW k \in 1 .. n
      PROVE  e[k] \in DOMAIN s.frame /\ own[e[k]] = Nil /\ e[k] # i /\ Closer(own, pos, i, e[k]) = k
  <2>1. k \in 1 .. n + 1 /\ k # n + 1 /\ ~ (k > n + 1)
    BY <1>2
  <2>2. e[k] = q[k] /\ q[k] \in DOMAIN s.frame /\ own[q[k]] = Nil /\ pos[q[k]] = k
    BY <1>2, <1>4, <2>1
  <2> QED BY <2>1, <2>2, <1>3 DEF Closer
<1>6. Left(s, e, t)
  BY <1>2, <1>3, <1>4, <1>5, LostRuns
<1> QED BY <1>6 DEF t, e, n

(* The merge of a tail call takes the last but one out.                    *)
LEMMA RunsMerge ==
    ASSUME NEW s, NEW q, Runs(s, q), Len(q) >= 2
    PROVE  Left(s, Merged(q), LiftMerge(s))
<1> DEFINE t == LiftMerge(s)
           i == Caller(s)
           n == Len(q) - 1
           e == Merged(q)
<1>1. PICK own, pos : Whole(s, own, pos) /\ Ordered(s, own, pos, Nil, q)
  BY DEF Runs
<1>2. /\ n \in Nat /\ n >= 1 /\ s.size = n + 1 /\ Len(q) = n + 1
      /\ \A k \in 1 .. n + 1 : q[k] \in DOMAIN s.frame /\ own[q[k]] = Nil /\ pos[q[k]] = k
  BY <1>1, RunsIs DEF Listing, Ordered
<1>3. Lost(s, own, pos, i, t) /\ own[i] = Nil /\ pos[i] = n
  <2>1. s.size # 0 /\ s.size # 1 /\ s.size >= 2 /\ s.size - 1 = n
    BY <1>2
  <2> QED BY <1>1, <2>1, MergeWhole, TopIs
<1>4. e = [k \in 1 .. n |-> e[k]] /\ \A k \in 1 .. n : e[k] = (IF k = n THEN q[n + 1] ELSE q[k])
  BY <1>2, Zenon DEF Merged
<1> HIDE DEF t, i, n, e
<1>5. ASSUME NEW k \in 1 .. n
      PROVE  e[k] \in DOMAIN s.frame /\ own[e[k]] = Nil /\ e[k] # i /\ Closer(own, pos, i, e[k]) = k
  <2>1. k \in 1 .. n + 1 /\ n + 1 \in 1 .. n + 1 /\ (n + 1) - 1 = n /\ n + 1 > n /\ n + 1 # n /\ ~ (k > n)
    BY <1>2
  <2>2. CASE k = n
    <3>1. e[k] = q[n + 1] /\ q[n + 1] \in DOMAIN s.frame /\ own[q[n + 1]] = Nil /\ pos[q[n + 1]] = n + 1
      BY <1>2, <1>4, <2>1, <2>2
    <3> QED BY <2>1, <2>2, <3>1, <1>3 DEF Closer
  <2>3. CASE k # n
    <3>1. e[k] = q[k] /\ q[k] \in DOMAIN s.frame /\ own[q[k]] = Nil /\ pos[q[k]] = k
      BY <1>2, <1>4, <2>1, <2>3
    <3> QED BY <2>1, <2>3, <3>1, <1>3 DEF Closer
  <2> QED BY <2>2, <2>3
<1>6. Left(s, e, t)
  BY <1>2, <1>3, <1>4, <1>5, LostRuns
<1> QED BY <1>6 DEF t, e

(* Suspend takes the last off, and loses no frame.                         *)
LEMMA RunsSuspend ==
    ASSUME NEW s, NEW q, Runs(s, q), Len(q) >= 2
    PROVE  Left(s, Upto(q, Len(q) - 1), Suspend(s))
<1> DEFINE t == Suspend(s)
           i == s.top
           w == Caller(s)
           C == s.frame[w].gSize + 1
           n == Len(q) - 1
           e == Upto(q, n)
<1>1. PICK own, pos : Whole(s, own, pos) /\ Ordered(s, own, pos, Nil, q)
  BY DEF Runs
<1>2. /\ n \in Nat /\ n >= 1 /\ s.size = n + 1
      /\ \A k \in 1 .. n + 1 : q[k] \in DOMAIN s.frame /\ own[q[k]] = Nil /\ pos[q[k]] = k
  BY <1>1, RunsIs DEF Listing, Ordered
<1> DEFINE o3 == [j \in DOMAIN s.frame |-> IF j = i THEN w ELSE own[j]]
           p3 == [j \in DOMAIN s.frame |-> IF j = i THEN C ELSE Closer(own, pos, i, j)]
<1>3. /\ Whole(t, o3, p3) /\ t.size = s.size - 1 /\ Alike(s, t)
      /\ own[i] = Nil /\ pos[i] = n + 1
  <2>1. s.size # 0 /\ s.size >= 2
    BY <1>2
  <2>2. Suspended(s, own, pos, t)
    BY <1>1, <2>1, SuspendWhole
  <2>3. own[i] = Nil /\ pos[i] = n + 1
    BY <1>1, <1>2, <2>1, TopIs
  <2>4. Whole(t, o3, p3) /\ t.size = s.size - 1 /\ Alike(s, t)
    BY <2>2 DEF Suspended
  <2> QED BY <2>3, <2>4
<1>4. e = [k \in 1 .. n |-> e[k]] /\ \A k \in 1 .. n : e[k] = q[k]
  BY DEF Upto
<1> HIDE DEF t, i, n, e, w, C
<1>5. t.size = n /\ DOMAIN t.frame = DOMAIN s.frame
  BY <1>2, <1>3 DEF Alike
<1>6. ASSUME NEW k \in 1 .. n PROVE e[k] \in DOMAIN t.frame /\ o3[e[k]] = Nil /\ p3[e[k]] = k
  <2>1. k \in 1 .. n + 1 /\ k # n + 1 /\ ~ (k > n + 1)
    BY <1>2
  <2>2. e[k] = q[k] /\ q[k] \in DOMAIN s.frame /\ own[q[k]] = Nil /\ pos[q[k]] = k
    BY <1>2, <1>4, <2>1
  <2>3. e[k] # i /\ Closer(own, pos, i, e[k]) = k
    BY <2>1, <2>2, <1>3 DEF Closer
  <2> QED BY <2>2, <2>3, <1>5
<1> HIDE DEF o3, p3
<1>7. Runs(t, e)
  <2>1. n \in Nat /\ Whole(t, o3, p3) /\ t.size = n /\ e = [k \in 1 .. n |-> e[k]]
    BY <1>2, <1>3, <1>4, <1>5
  <2> QED BY ONLY <2>1, <1>6, ListedRuns
<1>8. Left(s, e, t)
  BY <1>3, <1>7 DEF Left, Alike
<1> QED BY <1>8 DEF t, e, n

(* Contents are no matter for the running stack.                           *)
LEMMA SameLinksRuns ==
    ASSUME NEW s, NEW q, Runs(s, q), NEW t, SameLinks(s, t)
    PROVE  Runs(t, q)
<1>1. PICK own, pos : Whole(s, own, pos) /\ Ordered(s, own, pos, Nil, q)
  BY DEF Runs
<1>2. Whole(t, own, pos)
  BY <1>1, SameLinksWhole
<1>3. Ordered(t, own, pos, Nil, q)
  BY <1>1 DEF Ordered, Count, SameLinks
<1> QED BY <1>2, <1>3 DEF Runs

(* The frame that GetGenerator finds is one of those the top keeps.        *)
LEMMA GeneratorFound ==
    ASSUME NEW s, NEW own, NEW pos, Whole(s, own, pos), s.size # 0,
           NEW a, GetGenerator(s, a) # Nil
    PROVE  LET i == GetGenerator(s, a) IN i \in DOMAIN s.frame /\ own[i] = s.top /\ s.frame[i].start = a
<1> DEFINE order == Generators(s, s.top)
           found == {k \in DOMAIN order : s.frame[order[k]].start = a}
           i == GetGenerator(s, a)
<1>1. s.top \in DOMAIN s.frame /\ s.top \in Owners(s) /\ s.top # Nil
  BY TopIs DEF Owners
<1>2. PICK q : Ordered(s, own, pos, s.top, q)
  BY <1>1, AnOrder
<1>3. order = q
  BY <1>1, <1>2, WalkIs DEF Generators, First
<1>4. q \in Seq(DOMAIN s.frame) /\ DOMAIN q = 1 .. Len(q) /\ Len(q) \in Nat
      /\ \A k \in 1 .. Len(q) : q[k] \in DOMAIN s.frame /\ own[q[k]] = s.top
  <2>1. q \in Seq(DOMAIN s.frame) /\ \A k \in 1 .. Len(q) : own[q[k]] = s.top
    BY <1>2 DEF Ordered
  <2> QED BY <2>1, LenProperties
<1>5. found # {} /\ i = order[Min(found)]
  BY DEF GetGenerator
<1>6. found \in SUBSET Nat
  BY <1>3, <1>4
<1>7. \E m \in found : \A n \in found : m <= n
  BY <1>5, <1>6, Least, ZenonT(40)
<1>8. Min(found) \in found
  BY <1>7 DEF Min
<1>9. Min(found) \in 1 .. Len(q) /\ s.frame[order[Min(found)]].start = a
  BY <1>3, <1>4, <1>8
<1> HIDE DEF found, order, i
<1>10. i \in DOMAIN s.frame /\ own[i] = s.top /\ s.frame[i].start = a
  BY <1>3, <1>4, <1>5, <1>9
<1> QED BY <1>10 DEF i

(* Frame i, with n arguments, is on top of the stack it was suspended in.  *)
Resumed(s, q, i, n, t) ==
    /\ DOMAIN t.frame = DOMAIN s.frame /\ Runs(t, Extended(q, i)) /\ i \in DOMAIN s.frame
    /\ \A j \in DOMAIN s.frame \ {i} : Content(t.frame[j]) = Content(s.frame[j])
    /\ Content(t.frame[i]) = [Content(s.frame[i]) EXCEPT !.args = n]

(* A generator goes on.                                                    *)
LEMMA RunsResume ==
    ASSUME NEW s, NEW own, NEW pos, Whole(s, own, pos), NEW q, Ordered(s, own, pos, Nil, q), Len(q) # 0,
           NEW i \in DOMAIN s.frame, own[i] = s.top, NEW n
    PROVE  Resumed(s, q, i, n, Push(PickGenerator(s, i, n), i))
<1> DEFINE p == PickGenerator(s, i, n)
           t == Push(p, i)
           c == Len(q)
           e == Extended(q, i)
           D == DOMAIN s.frame
           o2 == [j \in D \ {i} |-> own[j]]
           p2 == [j \in D \ {i} |-> Closer(own, pos, i, j)]
           o3 == [j \in D |-> IF j = i THEN Nil ELSE own[j]]
           p3 == [j \in D |-> IF j = i THEN s.size + 1 ELSE Closer(own, pos, i, j)]
<1>1. /\ c \in Nat /\ s.size = c /\ s.size # 0
      /\ \A k \in 1 .. c : q[k] \in D /\ own[q[k]] = Nil /\ pos[q[k]] = k
  BY RunsIs DEF Listing, Ordered, Runs
<1>2. s.top # Nil
  BY <1>1, TopIs
<1>3. Picked(s, own, pos, i, n, p)
  BY <1>1, PickPlaced
<1> HIDE DEF p
<1>4. /\ IsStack(p) /\ DOMAIN p.frame = D /\ p.size = s.size
      /\ \A j \in D \ {i} : Content(p.frame[j]) = Content(s.frame[j])
      /\ Content(p.frame[i]) = [Content(s.frame[i]) EXCEPT !.args = n]
      /\ p.frame[i].next = Nil /\ p.frame[i].prev = Nil
      /\ Placed(p, D \ {i}, o2, p2)
  BY <1>3 DEF Picked
<1>5. PushedPlaced(p, i, o2, p2, t)
  BY <1>4, PushPlaced
<1>6. /\ Alike(p, t) /\ t.size = p.size + 1
      /\ Placed(t, D, [j \in D |-> IF j = i THEN Nil ELSE o2[j]],
                      [j \in D |-> IF j = i THEN p.size + 1 ELSE p2[j]])
  BY <1>4, <1>5 DEF PushedPlaced
<1>7. /\ [j \in D |-> IF j = i THEN Nil ELSE o2[j]] = o3
      /\ [j \in D |-> IF j = i THEN p.size + 1 ELSE p2[j]] = p3
  BY <1>4
<1>8. Whole(t, o3, p3) /\ DOMAIN t.frame = D /\ t.size = s.size + 1
  BY <1>4, <1>6, <1>7 DEF Whole, Alike
<1>9. /\ e = [k \in 1 .. c + 1 |-> e[k]]
      /\ \A k \in 1 .. c + 1 : e[k] = (IF k = c + 1 THEN i ELSE q[k])
  BY DEF Extended
<1> HIDE DEF t, e, c, o2, p2
<1>10. ASSUME NEW k \in 1 .. c + 1 PROVE e[k] \in DOMAIN t.frame /\ o3[e[k]] = Nil /\ p3[e[k]] = k
  <2>1. CASE k = c + 1
    <3>1. e[k] = i
      BY <2>1, <1>9
    <3> QED BY <2>1, <3>1, <1>1, <1>8
  <2>2. CASE k # c + 1
    <3>1. k \in 1 .. c
      BY <2>2, <1>1
    <3>2. e[k] = q[k]
      BY <2>2, <1>9
    <3>3. q[k] \in D /\ own[q[k]] = Nil /\ pos[q[k]] = k
      BY <3>1, <1>1
    <3>4. q[k] # i /\ Closer(own, pos, i, q[k]) = k
      BY <3>3, <1>2 DEF Closer
    <3> QED BY <3>2, <3>3, <3>4, <1>8
  <2> QED BY <2>1, <2>2
<1>11. Runs(t, e)
  <2>1. c + 1 \in Nat /\ t.size = c + 1
    BY <1>1, <1>8
  <2> HIDE DEF o3, p3
  <2>2. e = [k \in 1 .. c + 1 |-> e[k]] /\ Whole(t, o3, p3)
    BY <1>8, <1>9
  <2> QED BY ONLY <2>1, <2>2, <1>10, ListedRuns
<1>12. \A j \in D : Content(t.frame[j]) = Content(p.frame[j])
  BY <1>4, <1>6 DEF Alike
<1>13. Resumed(s, q, i, n, t)
  BY <1>4, <1>8, <1>11, <1>12 DEF Resumed, e
<1> QED BY <1>13 DEF t, p

(* The lowest frames of the lowest frames.                                 *)
LEMMA UptoIs ==
    ASSUME NEW q, NEW S, q \in Seq(S), NEW n \in 0 .. Len(q)
    PROVE  /\ Upto(q, n) \in Seq(S) /\ Len(Upto(q, n)) = n
           /\ \A k \in 1 .. n : Upto(q, n)[k] = q[k]
           /\ n = Len(q) => Upto(q, n) = q
           /\ \A m \in 0 .. n : Upto(Upto(q, n), m) = Upto(q, m)
<1> DEFINE u == Upto(q, n)
<1>1. Len(q) \in Nat /\ n \in Nat /\ q = [k \in 1 .. Len(q) |-> q[k]] /\ \A k \in 1 .. Len(q) : q[k] \in S
  BY LenProperties
<1>2. u = [k \in 1 .. n |-> u[k]] /\ \A k \in 1 .. n : u[k] = q[k]
  BY DEF Upto
<1>3. n = Len(q) => u = q
  BY <1>1 DEF Upto
<1>4. ASSUME NEW m \in 0 .. n PROVE Upto(u, m) = Upto(q, m)
  BY <1>1, <1>2 DEF Upto
<1> HIDE DEF u
<1>5. \A k \in 1 .. n : u[k] \in S
  BY <1>1, <1>2
<1>6. u \in Seq(S) /\ Len(u) = n
  BY <1>1, <1>2, <1>5, IsSequence
<1> QED BY <1>2, <1>3, <1>4, <1>6 DEF u

(* One removal after another.                                              *)
LEMMA LeftTrans ==
    ASSUME NEW s, NEW t, NEW u, NEW p, NEW q, Left(s, p, t), Left(t, q, u)
    PROVE  Left(s, q, u)
  BY DEF Left
-----------------------------------------------------------------------------
(* Crush, one frame at a time.                                             *)
Crushes(s, n, f) == f = [k \in n .. s.size |-> IF k = s.size THEN s ELSE Pop(f[k + 1])]

(* There is such a function; it is the one in Crush.                       *)
LEMMA CrushesExist ==
    ASSUME NEW s, s.size \in Nat, NEW n \in 0 .. s.size
    PROVE  \E f : Crushes(s, n, f)
<1> DEFINE N == s.size
           Good(m) == m <= N => \E f : Crushes(s, N - m, f)
<1>1. Good(0)
  <2> DEFINE f == [k \in N .. N |-> s]
  <2>1. f = [k \in N .. N |-> IF k = N THEN s ELSE Pop(f[k + 1])]
    OBVIOUS
  <2>2. N - 0 = N
    OBVIOUS
  <2> HIDE DEF f
  <2>3. Crushes(s, N - 0, f)
    BY <2>1, <2>2 DEF Crushes
  <2> QED BY <2>3
<1>2. ASSUME NEW m \in Nat, Good(m) PROVE Good(m + 1)
  <2> SUFFICES ASSUME m + 1 <= N PROVE \E f : Crushes(s, N - (m + 1), f)
    OBVIOUS
  <2>1. PICK f : Crushes(s, N - m, f)
    BY <1>2
  <2> DEFINE a == N - (m + 1)
             g == [k \in a .. N |-> IF k = a THEN Pop(f[k + 1]) ELSE f[k]]
  <2>2. a \in Nat /\ a + 1 = N - m /\ a < N /\ N \in Nat
    OBVIOUS
  <2>3. f = [k \in a + 1 .. N |-> IF k = N THEN s ELSE Pop(f[k + 1])]
    BY <2>1, <2>2 DEF Crushes
  <2>4. \A k \in a .. N : g[k] = (IF k = a THEN Pop(f[k + 1]) ELSE f[k])
    OBVIOUS
  <2>5. g = [k \in a .. N |-> g[k]]
    OBVIOUS
  <2> HIDE DEF g, a, N
  <2>6. ASSUME NEW k \in a .. N PROVE g[k] = (IF k = N THEN s ELSE Pop(g[k + 1]))
    <3>1. CASE k = N
      <4>1. k # a /\ k \in a + 1 .. N
        BY <2>2, <3>1
      <4> QED BY <2>3, <2>4, <3>1, <4>1
    <3>2. CASE k # N
      <4>1. k + 1 \in a .. N /\ k + 1 # a /\ k + 1 \in a + 1 .. N
        BY <2>2, <3>2
      <4>2. g[k + 1] = f[k + 1]
        BY <2>4, <4>1
      <4>3. CASE k = a
        BY <2>4, <4>2, <4>3, <3>2
      <4>4. CASE k # a
        <5>1. k \in a + 1 .. N
          BY <2>2, <4>4
        <5> QED BY <2>3, <2>4, <3>2, <4>2, <4>4, <5>1
      <4> QED BY <4>3, <4>4
    <3> QED BY <3>1, <3>2
  <2>7. g = [k \in a .. N |-> IF k = N THEN s ELSE Pop(g[k + 1])]
    BY <2>5, <2>6
  <2>8. Crushes(s, a, g)
    BY <2>7 DEF Crushes, N
  <2> QED BY <2>8 DEF a
<1> HIDE DEF Good
<1>3. ASSUME NEW b \in Nat, ~ Good(b) PROVE FALSE
  <2> DEFINE bad == {m \in Nat : ~ Good(m)}
  <2>1. b \in bad /\ bad \in SUBSET Nat
    BY <1>3
  <2>2. PICK m \in bad : \A k \in bad : m <= k
    BY <2>1, Least
  <2>3. m # 0 /\ m \in Nat /\ ~ Good(m)
    BY <1>1
  <2>4. m - 1 \in Nat /\ (m - 1) + 1 = m /\ ~ (m <= m - 1)
    BY <2>3
  <2>5. Good(m - 1)
    BY <2>2, <2>4
  <2>6. Good((m - 1) + 1)
    BY <1>2, <2>4, <2>5
  <2> QED BY <2>3, <2>4, <2>6
<1>4. N - n \in Nat /\ N - n <= N /\ N - (N - n) = n
  OBVIOUS
<1>5. Good(N - n)
  BY <1>3, <1>4
<1> QED BY <1>4, <1>5 DEF Good

(* Crush leaves the lowest n frames.                                       *)
LEMMA RunsCrush ==
    ASSUME NEW s, NEW q, Runs(s, q), NEW n \in 0 .. Len(q)
    PROVE  Left(s, Upto(q, n), Crush(s, n))
<1> DEFINE N == Len(q)
           F == CHOOSE f : f = [k \in n .. s.size |-> IF k = s.size THEN s ELSE Pop(f[k + 1])]
<1>1. N \in Nat /\ N = s.size /\ q \in Seq(DOMAIN s.frame) /\ n \in Nat /\ n <= N
  BY RunsIs DEF Listing
<1>2. Crush(s, n) = F[n]
  BY DEF Crush
<1>3. \E f : f = [k \in n .. s.size |-> IF k = s.size THEN s ELSE Pop(f[k + 1])]
  BY <1>1, CrushesExist DEF Crushes
<1>4. F = [k \in n .. s.size |-> IF k = s.size THEN s ELSE Pop(F[k + 1])]
  BY <1>3
<1> HIDE DEF F, N
<1>5. \A k \in n .. N : F[k] = (IF k = N THEN s ELSE Pop(F[k + 1]))
  BY <1>1, <1>4
<1> DEFINE Claim(k) == Left(s, Upto(q, k), F[k])
<1>6. Claim(N)
  <2>1. Upto(q, N) = q /\ N \in n .. N
    BY <1>1, UptoIs DEF N
  <2>2. F[N] = s
    BY <1>5, <2>1
  <2> QED BY <2>1, <2>2 DEF Left
<1>7. ASSUME NEW k \in n .. N, k # N, Claim(k + 1) PROVE Claim(k)
  <2>1. k \in Nat /\ k + 1 \in n .. N /\ k + 1 \in 0 .. N /\ k \in 0 .. k + 1 /\ k + 1 # 0 /\ (k + 1) - 1 = k
    BY <1>1, <1>7
  <2> DEFINE r == Upto(q, k + 1)
             u == F[k + 1]
  <2>2. Len(r) = k + 1 /\ Upto(r, k) = Upto(q, k)
    BY <1>1, <2>1, UptoIs DEF N
  <2>3. Runs(u, r)
    BY <1>7 DEF Left
  <2>4. F[k] = Pop(u)
    BY <1>5, <1>7
  <2> HIDE DEF r, u
  <2>5. Left(u, Upto(r, k), Pop(u))
    BY <2>1, <2>2, <2>3, RunsPop
  <2>6. Left(s, r, u)
    BY <1>7 DEF r, u
  <2> QED BY <2>2, <2>4, <2>5, <2>6, LeftTrans
<1> HIDE DEF Claim
<1>8. ASSUME NEW b \in n .. N, ~ Claim(b) PROVE FALSE
  <2> DEFINE bad == {m \in Nat : m <= N - n /\ ~ Claim(N - m)}
  <2>0. N - b \in Nat /\ N - b <= N - n /\ N - (N - b) = b
    BY <1>1
  <2>1. N - b \in bad /\ bad \in SUBSET Nat
    BY <2>0, <1>8
  <2>2. PICK m \in bad : \A k \in bad : m <= k
    BY <2>1, Least
  <2>3. m # 0 /\ m \in Nat /\ ~ Claim(N - m) /\ m <= N - n
    <3>1. N - 0 = N
      BY <1>1
    <3> QED BY <1>6, <3>1
  <2>4. m - 1 \in Nat /\ m - 1 <= N - n /\ N - (m - 1) = (N - m) + 1 /\ ~ (m <= m - 1)
        /\ N - m \in n .. N /\ N - m # N
    BY <1>1, <2>3
  <2>5. Claim(N - (m - 1))
    BY <2>2, <2>4
  <2>6. Claim(N - m)
    BY <1>7, <2>4, <2>5
  <2> QED BY <2>3, <2>6
<1>9. n \in n .. N
  BY <1>1
<1>10. Claim(n)
  BY <1>8, <1>9
<1> QED BY <1>2, <1>10 DEF Claim
-----------------------------------------------------------------------------
(* What a frame that was kept, and one that was not, are wound back to.    *)
Rewound(c, e, n) == [c EXCEPT !.stack = e.stack, !.pc = (IF n = 1 THEN c.pc ELSE e.pc)]
Anew(e, env) == New(e.pc, e.args, e.trapPc, e.trapOn, env)

(* The first part of Restore: the frames of the stack are wound back.      *)
Kept(s, q, snap) ==
    [s EXCEPT !.frame = [i \in DOMAIN s.frame |->
       IF i \in ToSet(q)
       THEN LET k == CHOOSE x \in 1 .. Len(q) : q[x] = i
            IN [s.frame[i] EXCEPT !.stack = snap[k].stack, !.pc = IF Len(q) = 1 THEN @ ELSE snap[k].pc]
       ELSE s.frame[i]]]

(* t is s with these contents.                                             *)
KeptAs(s, q, snap, t) ==
    /\ SameLinks(s, t)
    /\ \A k \in 1 .. Len(q) : Content(t.frame[q[k]]) = Rewound(Content(s.frame[q[k]]), snap[k], Len(q))
    /\ \A j \in DOMAIN s.frame : (\A k \in 1 .. Len(q) : q[k] # j) => Content(t.frame[j]) = Content(s.frame[j])

(* Winding back changes contents only, and those by the snapshot.          *)
LEMMA KeptIs ==
    ASSUME NEW s, NEW q, Runs(s, q), NEW snap
    PROVE  KeptAs(s, q, snap, Kept(s, q, snap))
<1> DEFINE D == DOMAIN s.frame
           n == Len(q)
           At(i) == CHOOSE x \in 1 .. Len(q) : q[x] = i
           Changed(f, k) == [f EXCEPT !.stack = snap[k].stack, !.pc = IF n = 1 THEN f.pc ELSE snap[k].pc]
           Other(i) == IF i \in ToSet(q) THEN Changed(s.frame[i], At(i)) ELSE s.frame[i]
           t == Kept(s, q, snap)
<1>1. Listing(s, q)
  BY RunsIs
<1>2. /\ s = [frame |-> s.frame, bottom |-> s.bottom, top |-> s.top, size |-> s.size]
      /\ \A i \in D : IsFrame(s.frame[i])
      /\ IsFiniteSet(D) /\ D \subseteq Nat \ {0}
      /\ DOMAIN q = 1 .. n /\ n \in Nat
      /\ \A k \in 1 .. n : q[k] \in D
      /\ \A j, k \in 1 .. n : q[j] = q[k] => j = k
  BY <1>1 DEF Listing, IsStack
<1>3. t = [frame |-> [i \in D |-> Other(i)], bottom |-> s.bottom, top |-> s.top, size |-> s.size]
  <2> DEFINE w == [i \in DOMAIN s.frame |->
       IF i \in ToSet(q)
       THEN LET k == CHOOSE x \in 1 .. Len(q) : q[x] = i
            IN [s.frame[i] EXCEPT !.stack = snap[k].stack, !.pc = IF Len(q) = 1 THEN @ ELSE snap[k].pc]
       ELSE s.frame[i]]
  <2>1. t = [s EXCEPT !.frame = w]
    BY DEF Kept
  <2>2. w = [i \in D |-> Other(i)]
    OBVIOUS
  <2> HIDE DEF w, t, Other
  <2>3. t = [frame |-> w, bottom |-> s.bottom, top |-> s.top, size |-> s.size]
    BY <2>1, <1>2
  <2> QED BY <2>2, <2>3
<1> HIDE DEF t, Other
<1>4. /\ t.frame = [i \in D |-> Other(i)] /\ DOMAIN t.frame = D /\ t.frame = [i \in DOMAIN t.frame |-> t.frame[i]]
      /\ t.bottom = s.bottom /\ t.top = s.top /\ t.size = s.size
      /\ t = [frame |-> t.frame, bottom |-> t.bottom, top |-> t.top, size |-> t.size]
      /\ \A i \in D : t.frame[i] = Other(i)
  BY <1>3
<1>5. ToSet(q) = {q[k] : k \in 1 .. n}
  BY <1>2 DEF ToSet
<1>6. ASSUME NEW f, IsFrame(f), NEW k
      PROVE  Linkage(Changed(f, k), f) /\ Content(Changed(f, k)) = Rewound(Content(f), snap[k], n)
  <2> DEFINE a == snap[k].stack
             b == IF n = 1 THEN f.pc ELSE snap[k].pc
             g == [[f EXCEPT !.stack = a] EXCEPT !.pc = b]
  <2>1. Changed(f, k) = g
    OBVIOUS
  <2>2. Rewound(Content(f), snap[k], n) = [[Content(f) EXCEPT !.stack = a] EXCEPT !.pc = b]
    BY DEF Rewound, Content
  <2> HIDE DEF a, b, Changed
  <2>3. Linkage([f EXCEPT !.stack = a], f) /\ Content([f EXCEPT !.stack = a]) = [Content(f) EXCEPT !.stack = a]
    BY <1>6, Contents
  <2> DEFINE h == [f EXCEPT !.stack = a]
  <2>4. IsFrame(h)
    BY <2>3 DEF Linkage
  <2> HIDE DEF h
  <2>5. Linkage([h EXCEPT !.pc = b], h) /\ Content([h EXCEPT !.pc = b]) = [Content(h) EXCEPT !.pc = b]
    BY <2>4, Contents
  <2> USE DEF h
  <2> QED BY <2>1, <2>2, <2>3, <2>5 DEF Linkage
<1>7. ASSUME NEW i \in D PROVE Linkage(t.frame[i], s.frame[i])
  <2>1. CASE i \in ToSet(q)
    <3>1. t.frame[i] = Changed(s.frame[i], At(i))
      BY <1>4, <2>1, Zenon DEF Other
    <3> HIDE DEF Changed, At
    <3> QED BY <3>1, <1>2, <1>6
  <2>2. CASE i \notin ToSet(q)
    <3>1. t.frame[i] = s.frame[i]
      BY <1>4, <2>2, Zenon DEF Other
    <3> QED BY <3>1, <1>2 DEF Linkage
  <2> QED BY <2>1, <2>2
<1>8. SameLinks(s, t)
  <2>1. \A i \in D : IsFrame(t.frame[i])
    BY <1>7 DEF Linkage
  <2>2. IsStack(t)
    BY <1>2, <1>4, <2>1 DEF IsStack
  <2> QED BY <1>4, <1>7, <2>2 DEF SameLinks
<1>9. ASSUME NEW k \in 1 .. n
      PROVE  Content(t.frame[q[k]]) = Rewound(Content(s.frame[q[k]]), snap[k], n)
  <2>1. At(q[k]) = k /\ q[k] \in D /\ q[k] \in ToSet(q)
    BY <1>2, <1>5
  <2>2. t.frame[q[k]] = Changed(s.frame[q[k]], k)
    BY <1>4, <2>1, ZenonT(40) DEF Other
  <2> HIDE DEF Changed
  <2> QED BY <1>2, <1>6, <2>1, <2>2
<1>10. ASSUME NEW j \in D, \A k \in 1 .. n : q[k] # j PROVE Content(t.frame[j]) = Content(s.frame[j])
  <2>1. j \notin ToSet(q)
    BY <1>5, <1>10
  <2> QED BY <1>4, <2>1, Zenon DEF Other
<1>11. KeptAs(s, q, snap, t)
  BY <1>8, <1>9, <1>10 DEF KeptAs
<1> QED BY <1>11 DEF t

(* A sequence has one length.                                              *)
LEMMA LengthOf ==
    ASSUME NEW a \in Nat, NEW b \in Nat, 1 .. a = 1 .. b
    PROVE  a = b
<1>1. CASE a < b
  <2>1. b \in 1 .. b /\ b \notin 1 .. a
    BY <1>1
  <2> QED BY <2>1
<1>2. CASE b < a
  <2>1. a \in 1 .. a /\ a \notin 1 .. b
    BY <1>2
  <2> QED BY <2>1
<1> QED BY <1>1, <1>2

(* Restore, one frame at a time.                                           *)
Grows(kept, snap, n, envs, m, f) ==
    f = [k \in n .. m |-> IF k = n THEN kept ELSE PushNew(f[k - 1], Anew(snap[k], envs[k]))]

(* There is such a function; it is the one in Restore.                     *)
LEMMA GrowsExist ==
    ASSUME NEW kept, NEW snap, NEW n \in Nat, NEW envs, NEW d \in Nat
    PROVE  \E f : Grows(kept, snap, n, envs, n + d, f)
<1> DEFINE Good(m) == \E f : Grows(kept, snap, n, envs, n + m, f)
<1>1. Good(0)
  <2> DEFINE f == [k \in n .. n |-> kept]
  <2>1. f = [k \in n .. n |-> IF k = n THEN kept ELSE PushNew(f[k - 1], Anew(snap[k], envs[k]))]
    OBVIOUS
  <2>2. n + 0 = n
    OBVIOUS
  <2> HIDE DEF f
  <2>3. Grows(kept, snap, n, envs, n + 0, f)
    BY <2>1, <2>2 DEF Grows
  <2> QED BY <2>3
<1>2. ASSUME NEW m \in Nat, Good(m) PROVE Good(m + 1)
  <2>1. PICK f : Grows(kept, snap, n, envs, n + m, f)
    BY <1>2
  <2> DEFINE a == n + (m + 1)
             g == [k \in n .. a |-> IF k = a THEN PushNew(f[k - 1], Anew(snap[k], envs[k])) ELSE f[k]]
  <2>2. a \in Nat /\ a - 1 = n + m /\ a > n
    OBVIOUS
  <2>3. f = [k \in n .. a - 1 |-> IF k = n THEN kept ELSE PushNew(f[k - 1], Anew(snap[k], envs[k]))]
    BY <2>1, <2>2 DEF Grows
  <2>4. \A k \in n .. a : g[k] = (IF k = a THEN PushNew(f[k - 1], Anew(snap[k], envs[k])) ELSE f[k])
    OBVIOUS
  <2>5. g = [k \in n .. a |-> g[k]]
    OBVIOUS
  <2> HIDE DEF g, a
  <2>6. ASSUME NEW k \in n .. a PROVE g[k] = (IF k = n THEN kept ELSE PushNew(g[k - 1], Anew(snap[k], envs[k])))
    <3>1. CASE k = n
      <4>1. k # a /\ k \in n .. a - 1
        BY <2>2, <3>1
      <4> QED BY <2>3, <2>4, <3>1, <4>1
    <3>2. CASE k # n
      <4>1. k - 1 \in n .. a /\ k - 1 # a /\ k - 1 \in n .. a - 1
        BY <2>2, <3>2
      <4>2. g[k - 1] = f[k - 1]
        BY <2>4, <4>1
      <4>3. CASE k = a
        BY <2>4, <4>2, <4>3, <3>2
      <4>4. CASE k # a
        <5>1. k \in n .. a - 1
          BY <2>2, <4>4
        <5> QED BY <2>3, <2>4, <3>2, <4>2, <4>4, <5>1
      <4> QED BY <4>3, <4>4
    <3> QED BY <3>1, <3>2
  <2>7. g = [k \in n .. a |-> IF k = n THEN kept ELSE PushNew(g[k - 1], Anew(snap[k], envs[k]))]
    BY <2>5, <2>6
  <2>8. Grows(kept, snap, n, envs, a, g)
    BY <2>7 DEF Grows
  <2> QED BY <2>8 DEF a
<1> HIDE DEF Good
<1>3. ASSUME NEW b \in Nat, ~ Good(b) PROVE FALSE
  <2> DEFINE bad == {m \in Nat : ~ Good(m)}
  <2>1. b \in bad /\ bad \in SUBSET Nat
    BY <1>3
  <2>2. PICK m \in bad : \A k \in bad : m <= k
    BY <2>1, Least
  <2>3. m # 0 /\ m \in Nat /\ ~ Good(m)
    BY <1>1
  <2>4. m - 1 \in Nat /\ (m - 1) + 1 = m /\ ~ (m <= m - 1)
    BY <2>3
  <2>5. Good(m - 1)
    BY <2>2, <2>4
  <2>6. Good((m - 1) + 1)
    BY <1>2, <2>4, <2>5
  <2> QED BY <2>3, <2>4, <2>6
<1> QED BY <1>3 DEF Good

(* t is s wound back, with new frames on top for the rest of the snapshot. *)
Grown(s, q, snap, envs, m, t) ==
    \E r : /\ Runs(t, r) /\ Len(r) = m /\ \A k \in 1 .. Len(q) : r[k] = q[k]
           /\ DOMAIN s.frame \subseteq DOMAIN t.frame
           /\ DOMAIN t.frame \subseteq DOMAIN s.frame \cup {r[k] : k \in Len(q) + 1 .. m}
           /\ \A k \in Len(q) + 1 .. m : /\ r[k] \notin DOMAIN s.frame
                                         /\ Content(t.frame[r[k]]) = Content(Anew(snap[k], envs[k]))
           /\ \A j \in DOMAIN s.frame : Content(t.frame[j]) = Content(Kept(s, q, snap).frame[j])

(* Restore winds the stack back to the snapshot.                           *)
LEMMA RunsRestore ==
    ASSUME NEW s, NEW q, Runs(s, q), NEW snap, Len(snap) \in Nat, Len(q) <= Len(snap), NEW envs
    PROVE  Grown(s, q, snap, envs, Len(snap), Restore(s, snap, Len(q), envs))
<1> DEFINE n == Len(q)
           N == Len(snap)
           kept == Kept(s, q, snap)
           F == CHOOSE f : f = [k \in n .. N |->
                  IF k = n THEN kept
                  ELSE PushNew(f[k - 1], New(snap[k].pc, snap[k].args, snap[k].trapPc, snap[k].trapOn, envs[k]))]
<1>1. n \in Nat /\ N \in Nat /\ n <= N /\ Frames(s) = q /\ IsStack(s)
  BY RunsIs DEF Listing
<1>2. Restore(s, snap, n, envs) = F[N]
  BY <1>1 DEF Restore, Kept
<1> HIDE DEF kept
<1>3. \E f : f = [k \in n .. N |->
          IF k = n THEN kept
          ELSE PushNew(f[k - 1], New(snap[k].pc, snap[k].args, snap[k].trapPc, snap[k].trapOn, envs[k]))]
  <2>1. N - n \in Nat /\ n + (N - n) = N
    BY <1>1
  <2>2. PICK f : Grows(kept, snap, n, envs, n + (N - n), f)
    BY <1>1, <2>1, GrowsExist
  <2>3. Grows(kept, snap, n, envs, N, f)
    BY <2>1, <2>2
  <2> QED BY <2>3 DEF Grows, Anew
<1>4. F = [k \in n .. N |-> IF k = n THEN kept ELSE PushNew(F[k - 1],
                 New(snap[k].pc, snap[k].args, snap[k].trapPc, snap[k].trapOn, envs[k]))]
  BY <1>3
<1> HIDE DEF F, N, n
<1>5. \A k \in n .. N : F[k] = (IF k = n THEN kept ELSE PushNew(F[k - 1], Anew(snap[k], envs[k])))
  BY <1>4 DEF Anew
<1>6. KeptAs(s, q, snap, kept)
  BY KeptIs DEF kept
<1>7. SameLinks(s, kept) /\ DOMAIN kept.frame = DOMAIN s.frame
  BY <1>6 DEF KeptAs, SameLinks
<1> DEFINE Claim(k) == Grown(s, q, snap, envs, k, F[k])
<1>8. Claim(n)
  <2>1. Runs(kept, q)
    BY <1>7, SameLinksRuns
  <2>2. F[n] = kept
    BY <1>1, <1>5
  <2>3. n + 1 .. n = {}
    BY <1>1
  <2>4. Grown(s, q, snap, envs, n, kept)
    BY <1>7, <2>1, <2>3 DEF Grown, n, kept
  <2> QED BY <2>2, <2>4
<1>9. ASSUME NEW k \in n .. N, k # n, Claim(k - 1) PROVE Claim(k)
  <2> DEFINE u == F[k - 1]
             e == Anew(snap[k], envs[k])
             t == PushNew(u, e)
             m == k - 1
  <2>1. F[k] = t
    BY <1>5, <1>9
  <2>2. m \in Nat /\ m + 1 = k /\ k \in Nat /\ m >= n /\ n \in Nat
    BY <1>1, <1>9
  <2> HIDE DEF u, m
  <2>3. PICK r : /\ Runs(u, r) /\ Len(r) = m /\ \A j \in 1 .. n : r[j] = q[j]
                 /\ DOMAIN s.frame \subseteq DOMAIN u.frame
                 /\ DOMAIN u.frame \subseteq DOMAIN s.frame \cup {r[j] : j \in n + 1 .. m}
                 /\ \A j \in n + 1 .. m : /\ r[j] \notin DOMAIN s.frame
                                          /\ Content(u.frame[r[j]]) = Content(Anew(snap[j], envs[j]))
                 /\ \A j \in DOMAIN s.frame : Content(u.frame[j]) = Content(kept.frame[j])
    BY <1>9 DEF Grown, u, m, n, kept
  <2>4. Fresh(e)
    BY NewIsFresh DEF Anew
  <2> HIDE DEF e
  <2>5. NewOnTop(u, r, e, t)
    BY <2>3, <2>4, RunsPushNew
  <2> HIDE DEF t
  <2>6. PICK i : /\ i \notin DOMAIN u.frame /\ DOMAIN t.frame = DOMAIN u.frame \cup {i}
                 /\ Runs(t, Extended(r, i)) /\ Content(t.frame[i]) = Content(e)
                 /\ \A j \in DOMAIN u.frame : Content(t.frame[j]) = Content(u.frame[j])
    BY <2>5 DEF NewOnTop
  <2> DEFINE x == Extended(r, i)
  <2>7. /\ x = [j \in 1 .. k |-> x[j]] /\ \A j \in 1 .. k : x[j] = (IF j = k THEN i ELSE r[j])
    BY <2>2, <2>3 DEF Extended
  <2>8. Len(x) = k
    <3>1. Listing(t, x)
      BY <2>6, RunsIs
    <3>2. Len(x) \in Nat /\ DOMAIN x = 1 .. Len(x)
      BY <3>1 DEF Listing
    <3> HIDE DEF x
    <3>3. DOMAIN x = 1 .. k
      BY <2>7
    <3> DEFINE z == Len(x)
    <3>4. z \in Nat /\ 1 .. z = 1 .. k
      BY <3>2, <3>3, Zenon
    <3> HIDE DEF z
    <3>5. z = k
      BY <2>2, <3>4, LengthOf
    <3> QED BY <3>5 DEF z
  <2>9. \A j \in 1 .. m : r[j] \in DOMAIN u.frame
    BY <2>3, RunsIs DEF Listing
  <2> HIDE DEF x
  <2>10. \A j \in 1 .. n : x[j] = q[j]
    <3>1. \A j \in 1 .. n : j \in 1 .. k /\ j # k
      BY <2>2
    <3> QED BY <2>3, <2>7, <3>1
  <2>11. \A j \in n + 1 .. k : j \in 1 .. k /\ (j = k \/ j \in n + 1 .. m)
    BY <2>2
  <2>12. \A j \in n + 1 .. m : x[j] = r[j] /\ j \in 1 .. m
    <3>1. \A j \in n + 1 .. m : j \in 1 .. k /\ j # k /\ j \in 1 .. m
      BY <2>2
    <3> QED BY <2>7, <3>1
  <2>13. x[k] = i
    <3>1. k \in 1 .. k
      BY <2>2
    <3> QED BY <3>1, <2>7
  <2>14. ASSUME NEW j \in n + 1 .. k
         PROVE  x[j] \notin DOMAIN s.frame /\ Content(t.frame[x[j]]) = Content(Anew(snap[j], envs[j]))
    <3>1. CASE j = k
      BY <3>1, <2>3, <2>6, <2>13 DEF e
    <3>2. CASE j # k
      <4>1. j \in n + 1 .. m /\ j \in 1 .. m /\ x[j] = r[j]
        BY <3>2, <2>11, <2>12
      <4> QED BY <4>1, <2>3, <2>6, <2>9
    <3> QED BY <3>1, <3>2
  <2>15. DOMAIN t.frame \subseteq DOMAIN s.frame \cup {x[j] : j \in n + 1 .. k}
    <3>1. k \in n + 1 .. k /\ \A j \in n + 1 .. m : j \in n + 1 .. k
      BY <2>2
    <3>2. {r[j] : j \in n + 1 .. m} \subseteq {x[j] : j \in n + 1 .. k}
      BY <3>1, <2>12
    <3>3. i \in {x[j] : j \in n + 1 .. k}
      BY <3>1, <2>13
    <3> QED BY <3>2, <3>3, <2>3, <2>6
  <2>16. /\ DOMAIN s.frame \subseteq DOMAIN t.frame
         /\ \A j \in DOMAIN s.frame : Content(t.frame[j]) = Content(kept.frame[j])
    BY <2>3, <2>6
  <2>17. Runs(t, x)
    BY <2>6 DEF x
  <2>18. Grown(s, q, snap, envs, k, t)
    BY <2>8, <2>10, <2>14, <2>15, <2>16, <2>17 DEF Grown, n, kept
  <2> QED BY <2>1, <2>18
<1> HIDE DEF Claim
<1>10. ASSUME NEW b \in n .. N, ~ Claim(b) PROVE FALSE
  <2> DEFINE bad == {m \in n .. N : ~ Claim(m)}
  <2>1. b \in bad /\ bad \in SUBSET Nat
    BY <1>1, <1>10
  <2>2. PICK m \in bad : \A k \in bad : m <= k
    BY <2>1, Least
  <2>3. m # n /\ m \in n .. N /\ ~ Claim(m)
    BY <1>8
  <2>4. m - 1 \in n .. N /\ ~ (m <= m - 1)
    BY <1>1, <2>3
  <2>5. Claim(m - 1)
    BY <2>2, <2>4
  <2>6. Claim(m)
    BY <1>9, <2>3, <2>5
  <2> QED BY <2>3, <2>6
<1>11. N \in n .. N
  BY <1>1
<1>12. Claim(N)
  BY <1>10, <1>11
<1> QED BY <1>2, <1>12 DEF Claim, N, n
-----------------------------------------------------------------------------
(* Addresses are pairs of a function and an offset.                        *)
Pair(a) == a = <<a[1], a[2]>>

(* A frame with computing stack over V; where home, it is in its function. *)
Fine(f, V, home) == /\ f.stack \in Seq(V) /\ Pair(f.pc) /\ Pair(f.trapPc)
                    /\ home => f.pc[1] = f.start[1]

(* The environments of the frames.                                         *)
Envs(s) == {s.frame[i].env : i \in DOMAIN s.frame}

(* The invariant of a stack: the lists are whole and every frame is fine.  *)
Going(s, V, home) == /\ Runs(s, Frames(s))
                     /\ \A j \in DOMAIN s.frame : Fine(s.frame[j], V, home)

(* From s to t the lowest n frames stay, and t has m.                      *)
Fares(s, t, n, m, X, V, home) ==
    /\ Going(t, V, home) /\ t.size = m
    /\ \A k \in 1 .. n : /\ Frames(t)[k] = Frames(s)[k]
                         /\ t.frame[Frames(s)[k]].start = s.frame[Frames(s)[k]].start
    /\ Envs(t) \subseteq X \cup Envs(s)

(* The running stack has one listing.                                      *)
LEMMA RunsFrames ==
    ASSUME NEW s, NEW q, Runs(s, q)
    PROVE  Frames(s) = q /\ s.size = Len(q)
  BY RunsIs DEF Listing

(* What every instruction finds.                                           *)
LEMMA GoingIs ==
    ASSUME NEW s, NEW V, NEW home, Going(s, V, home)
    PROVE  /\ Listing(s, Frames(s)) /\ s.size \in Nat /\ Len(Frames(s)) = s.size
           /\ \A k \in 1 .. s.size : Frames(s)[k] \in DOMAIN s.frame
           /\ s.size # 0 => s.top \in DOMAIN s.frame /\ s.top = Frames(s)[s.size] /\ s.top # Nil
  <1>1. Listing(s, Frames(s))
    BY RunsIs DEF Going
  <1> DEFINE q == Frames(s)
  <1>2. s.size \in Nat /\ Len(q) = s.size /\ \A k \in 1 .. s.size : q[k] \in DOMAIN s.frame
    BY <1>1 DEF Listing
  <1>3. ASSUME s.size # 0 PROVE s.top \in DOMAIN s.frame /\ s.top = q[s.size] /\ s.top # Nil
    <2>1. s.top = q[s.size] /\ s.size \in 1 .. s.size /\ Nil \notin DOMAIN s.frame
      BY <1>1, <1>2, <1>3 DEF Listing
    <2> QED BY <2>1, <1>2
  <1> QED BY <1>1, <1>2, <1>3

(* One change of the stack after another.                                  *)
LEMMA FaresTrans ==
    ASSUME NEW s, NEW t, NEW u, NEW n \in Nat, NEW m, NEW k \in Nat, NEW o, NEW l \in Nat, NEW X, NEW Y, NEW V, NEW W,
           NEW home, NEW g, Fares(s, t, n, m, X, V, home), Fares(t, u, k, o, Y, W, g), l <= n, l <= k
    PROVE  Fares(s, u, l, o, X \cup Y, W, g)
<1>1. \A i \in 1 .. l : i \in 1 .. n /\ i \in 1 .. k
  OBVIOUS
<1>2. \A i \in 1 .. l : /\ Frames(u)[i] = Frames(s)[i]
                        /\ u.frame[Frames(s)[i]].start = s.frame[Frames(s)[i]].start
  BY <1>1 DEF Fares
<1> QED BY <1>2 DEF Fares

(* Frames of the same content are both fine or neither.                    *)
LEMMA SameContent ==
    ASSUME NEW f, NEW g, Content(g) = Content(f)
    PROVE  /\ g.start = f.start /\ g.pc = f.pc /\ g.args = f.args /\ g.trapPc = f.trapPc /\ g.trapOn = f.trapOn
           /\ g.env = f.env /\ g.stack = f.stack
           /\ \A V, home : Fine(f, V, home) => Fine(g, V, home)
<1>1. /\ g.start = f.start /\ g.pc = f.pc /\ g.args = f.args /\ g.trapPc = f.trapPc /\ g.trapOn = f.trapOn
      /\ g.env = f.env /\ g.stack = f.stack
  BY DEF Content
<1> QED BY <1>1 DEF Fine

(* One frame gets other contents.                                          *)
LEMMA Refit ==
    ASSUME NEW s, NEW V, NEW home, NEW W, NEW away, Going(s, V, home), NEW i \in DOMAIN s.frame, NEW g, Linkage(g, s.frame[i]),
           g.start = s.frame[i].start, g.env = s.frame[i].env, Fine(g, W, away),
           \A j \in DOMAIN s.frame \ {i} : Fine(s.frame[j], W, away)
    PROVE  LET t == [s EXCEPT !.frame[i] = g]
           IN Fares(s, t, s.size, s.size, {}, W, away) /\ Replaced(s, i, g, t) /\ SameLinks(s, t)
<1> DEFINE t == [s EXCEPT !.frame[i] = g]
<1>0. Runs(s, Frames(s)) /\ IsStack(s)
  BY RunsIs DEF Going, Listing
<1>1. Replaced(s, i, g, t)
  BY <1>0, ReplacedIs DEF Linkage
<1> HIDE DEF t
<1>2. SameLinks(s, t)
  BY <1>0, <1>1, ReplacedLinks
<1>3. Runs(t, Frames(s))
  BY <1>0, <1>2, SameLinksRuns
<1>4. Frames(t) = Frames(s)
  BY <1>3, RunsFrames
<1>5. /\ DOMAIN t.frame = DOMAIN s.frame /\ t.frame[i] = g /\ t.size = s.size
      /\ \A j \in DOMAIN s.frame \ {i} : t.frame[j] = s.frame[j]
  BY <1>1 DEF Replaced
<1>6. \A j \in DOMAIN s.frame : /\ t.frame[j].start = s.frame[j].start /\ t.frame[j].env = s.frame[j].env
                                /\ Fine(t.frame[j], W, away)
  BY <1>5
<1>7. \A k \in 1 .. s.size : Frames(s)[k] \in DOMAIN s.frame
  BY GoingIs
<1>8. Fares(s, t, s.size, s.size, {}, W, away)
  BY <1>3, <1>4, <1>5, <1>6, <1>7 DEF Fares, Going, Envs
<1> QED BY <1>1, <1>2, <1>8 DEF t

(* Computing stacks: the value on top, and one value more or less.         *)
LEMMA ValuesSeq ==
    ASSUME NEW V, NEW a \in Seq(V)
    PROVE  /\ Len(a) \in Nat /\ (\A v \in V : Append(a, v) \in Seq(V)) /\ (\A v : Len(Append(a, v)) = Len(a) + 1)
           /\ a # <<>> => /\ Front(a) \in Seq(V) /\ Last(a) \in V /\ Len(Front(a)) = Len(a) - 1
                          /\ Len(a) # 0
           /\ Len(a) # 0 => a # <<>>
<1>1. Len(a) \in Nat /\ (\A v \in V : Append(a, v) \in Seq(V)) /\ (\A v : Len(Append(a, v)) = Len(a) + 1)
  OBVIOUS
<1>2. ASSUME a # <<>>
      PROVE  Front(a) \in Seq(V) /\ Last(a) \in V /\ Len(Front(a)) = Len(a) - 1 /\ Len(a) # 0
  <2>1. Len(a) # 0
    BY <1>2, EmptySeq
  <2> DEFINE n == Len(a) - 1
  <2>2. n \in Nat /\ 1 \in Int /\ \A i \in 1 .. n : a[i] \in V
    BY <2>1, <1>1
  <2>3. Len(a) \in 1 .. Len(a)
    BY <2>1, <1>1
  <2>4. Last(a) \in V
    BY <2>3 DEF Last
  <2>5. Front(a) = SubSeq(a, 1, n)
    BY DEF Front
  <2> HIDE DEF n
  <2>6. SubSeq(a, 1, n) \in Seq(V) /\ Len(SubSeq(a, 1, n)) = (IF 1 <= n THEN n - 1 + 1 ELSE 0)
    BY <2>2, SubSeqProperties
  <2>7. (IF 1 <= n THEN n - 1 + 1 ELSE 0) = n
    BY <2>2
  <2> QED BY <2>1, <2>4, <2>5, <2>6, <2>7 DEF n
<1> QED BY <1>1, <1>2

(* The pc moves on.                                                        *)
LEMMA Next1Fares ==
    ASSUME NEW s, NEW V, NEW home, Going(s, V, home), s.size # 0
    PROVE  /\ Fares(s, Next1(s), s.size, s.size, {}, V, home) /\ SameLinks(s, Next1(s))
           /\ \A j \in DOMAIN s.frame : Next1(s).frame[j].stack = s.frame[j].stack
           /\ \A j \in DOMAIN s.frame \ {s.top} : Next1(s).frame[j] = s.frame[j]
           /\ Next1(s).frame[s.top].trapOn = s.frame[s.top].trapOn
           /\ Next1(s).frame[s.top].trapPc = s.frame[s.top].trapPc
<1> DEFINE i == s.top
           f == s.frame[i]
           a == [f.pc EXCEPT ![2] = (f.pc[2] + 1) % program.pcs]
           g == [f EXCEPT !.pc = a]
           t == [s EXCEPT !.frame[i] = g]
<1>1. i \in DOMAIN s.frame /\ IsStack(s) /\ IsFrame(f)
  BY GoingIs DEF Listing, IsStack
<1>2. Next1(s) = t
  BY DEF Next1
<1>3. Fine(f, V, home)
  BY <1>1 DEF Going
<1>4. Linkage(g, f) /\ Content(g) = [Content(f) EXCEPT !.pc = a]
  BY <1>1, Contents
<1>5. /\ g.start = f.start /\ g.env = f.env /\ g.stack = f.stack /\ g.pc = a /\ g.trapPc = f.trapPc
      /\ g.trapOn = f.trapOn
  <2> HIDE DEF g, f, a
  <2> QED BY <1>4 DEF Content
<1>6. Pair(a) /\ a[1] = f.pc[1]
  BY <1>3 DEF Fine, Pair
<1> HIDE DEF a, g
<1>7. Fine(g, V, home)
  BY <1>3, <1>5, <1>6 DEF Fine
<1>8. \A j \in DOMAIN s.frame \ {i} : Fine(s.frame[j], V, home)
  BY DEF Going
<1> HIDE DEF i
<1>9. Fares(s, t, s.size, s.size, {}, V, home) /\ Replaced(s, i, g, t) /\ SameLinks(s, t)
  BY <1>1, <1>4, <1>5, <1>7, <1>8, Refit
<1> HIDE DEF t, f
<1>10. /\ \A j \in DOMAIN s.frame : t.frame[j].stack = s.frame[j].stack
       /\ \A j \in DOMAIN s.frame \ {i} : t.frame[j] = s.frame[j]
       /\ t.frame[i].trapOn = s.frame[i].trapOn /\ t.frame[i].trapPc = s.frame[i].trapPc
  BY <1>9, <1>5 DEF Replaced, f
<1> QED BY <1>2, <1>9, <1>10 DEF i

(* A value is pushed on the computing stack of frame i.                    *)
LEMMA PushOnFares ==
    ASSUME NEW s, NEW V, NEW home, Going(s, V, home), NEW i \in DOMAIN s.frame, NEW v \in V
    PROVE  /\ Fares(s, PushOn(s, i, v), s.size, s.size, {}, V, home) /\ SameLinks(s, PushOn(s, i, v))
           /\ PushOn(s, i, v).frame[i].stack = Append(s.frame[i].stack, v)
           /\ \A j \in DOMAIN s.frame \ {i} : PushOn(s, i, v).frame[j] = s.frame[j]
<1> DEFINE f == s.frame[i]
           a == Append(f.stack, v)
           g == [f EXCEPT !.stack = a]
           t == [s EXCEPT !.frame[i] = g]
<1>1. IsStack(s) /\ IsFrame(f) /\ Fine(f, V, home)
  BY GoingIs DEF Listing, IsStack, Going
<1>2. PushOn(s, i, v) = t
  BY DEF PushOn
<1>3. a \in Seq(V)
  BY <1>1 DEF Fine
<1> HIDE DEF a
<1>4. Linkage(g, f) /\ Content(g) = [Content(f) EXCEPT !.stack = a]
  BY <1>1, Contents
<1>5. g.start = f.start /\ g.env = f.env /\ g.stack = a /\ g.pc = f.pc /\ g.trapPc = f.trapPc
  <2> HIDE DEF g, f
  <2> QED BY <1>4 DEF Content
<1> HIDE DEF g
<1>7. Fine(g, V, home)
  BY <1>1, <1>3, <1>5 DEF Fine
<1>8. \A j \in DOMAIN s.frame \ {i} : Fine(s.frame[j], V, home)
  BY DEF Going
<1>9. Fares(s, t, s.size, s.size, {}, V, home) /\ Replaced(s, i, g, t) /\ SameLinks(s, t)
  BY <1>4, <1>5, <1>7, <1>8, Refit
<1> HIDE DEF t
<1> QED BY <1>2, <1>5, <1>9 DEF a, Replaced

(* A value is popped off it.                                               *)
LEMMA PopOffFares ==
    ASSUME NEW s, NEW V, NEW home, Going(s, V, home), NEW i \in DOMAIN s.frame, s.frame[i].stack # <<>>
    PROVE  /\ Fares(s, PopOff(s, i), s.size, s.size, {}, V, home) /\ SameLinks(s, PopOff(s, i))
           /\ PopOff(s, i).frame[i].stack = Front(s.frame[i].stack)
           /\ \A j \in DOMAIN s.frame \ {i} : PopOff(s, i).frame[j] = s.frame[j]
<1> DEFINE f == s.frame[i]
           a == Front(f.stack)
           g == [f EXCEPT !.stack = a]
           t == [s EXCEPT !.frame[i] = g]
<1>1. IsStack(s) /\ IsFrame(f) /\ Fine(f, V, home)
  BY GoingIs DEF Listing, IsStack, Going
<1>2. PopOff(s, i) = t
  BY DEF PopOff
<1>3. a \in Seq(V)
  BY <1>1, ValuesSeq DEF Fine
<1> HIDE DEF a
<1>4. Linkage(g, f) /\ Content(g) = [Content(f) EXCEPT !.stack = a]
  BY <1>1, Contents
<1>5. g.start = f.start /\ g.env = f.env /\ g.stack = a /\ g.pc = f.pc /\ g.trapPc = f.trapPc
  <2> HIDE DEF g, f
  <2> QED BY <1>4 DEF Content
<1> HIDE DEF g
<1>7. Fine(g, V, home)
  BY <1>1, <1>3, <1>5 DEF Fine
<1>8. \A j \in DOMAIN s.frame \ {i} : Fine(s.frame[j], V, home)
  BY DEF Going
<1>9. Fares(s, t, s.size, s.size, {}, V, home) /\ Replaced(s, i, g, t) /\ SameLinks(s, t)
  BY <1>4, <1>5, <1>7, <1>8, Refit
<1> HIDE DEF t
<1> QED BY <1>2, <1>5, <1>9 DEF a, Replaced

(* Frames have been removed.                                               *)
LEMMA LeftFares ==
    ASSUME NEW s, NEW V, NEW home, Going(s, V, home), NEW r, NEW t, Left(s, r, t), NEW n \in Nat, n <= Len(r), n <= s.size,
           \A k \in 1 .. n : r[k] = Frames(s)[k]
    PROVE  Fares(s, t, n, Len(r), {}, V, home) /\ Frames(t) = r
<1>1. /\ Runs(t, r) /\ DOMAIN t.frame \subseteq DOMAIN s.frame
      /\ \A j \in DOMAIN t.frame : Content(t.frame[j]) = Content(s.frame[j])
  BY DEF Left
<1>2. Frames(t) = r /\ t.size = Len(r) /\ Len(r) \in Nat /\ \A k \in 1 .. Len(r) : r[k] \in DOMAIN t.frame
  BY <1>1, RunsIs DEF Listing
<1>3. \A j \in DOMAIN t.frame : /\ t.frame[j].start = s.frame[j].start /\ t.frame[j].env = s.frame[j].env
                                /\ Fine(t.frame[j], V, home)
  <2> SUFFICES ASSUME NEW j \in DOMAIN t.frame
               PROVE /\ t.frame[j].start = s.frame[j].start /\ t.frame[j].env = s.frame[j].env
                     /\ Fine(t.frame[j], V, home)
    OBVIOUS
  <2>1. Fine(s.frame[j], V, home)
    BY <1>1 DEF Going
  <2> QED BY <2>1, <1>1, SameContent
<1>4. \A k \in 1 .. n : k \in 1 .. Len(r)
  BY <1>2
<1>5. /\ \A k \in 1 .. n : /\ Frames(t)[k] = Frames(s)[k]
                           /\ t.frame[Frames(s)[k]].start = s.frame[Frames(s)[k]].start
  BY <1>2, <1>3, <1>4
<1>6. Envs(t) \subseteq {} \cup Envs(s)
  BY <1>1, <1>3 DEF Envs
<1>7. Going(t, V, home)
  BY <1>1, <1>2, <1>3 DEF Going
<1> QED BY <1>2, <1>5, <1>6, <1>7 DEF Fares

(* The top returns.                                                        *)
LEMMA PopFares ==
    ASSUME NEW s, NEW V, NEW home, Going(s, V, home), s.size # 0
    PROVE  Fares(s, Pop(s), s.size - 1, s.size - 1, {}, V, home)
<1> DEFINE q == Frames(s)
           r == Upto(q, Len(q) - 1)
<1>1. Runs(s, q) /\ Len(q) = s.size /\ s.size \in Nat /\ q \in Seq(DOMAIN s.frame)
  BY GoingIs DEF Going, Listing
<1>2. Left(s, r, Pop(s))
  BY <1>1, RunsPop
<1>3. Len(q) - 1 \in 0 .. Len(q)
  BY <1>1
<1>4. Len(r) = Len(q) - 1 /\ \A k \in 1 .. Len(q) - 1 : r[k] = q[k]
  BY <1>1, <1>3, UptoIs
<1>5. s.size - 1 \in Nat /\ s.size - 1 <= Len(r) /\ s.size - 1 <= s.size
  BY <1>1, <1>4
<1> HIDE DEF r
<1>6. \A k \in 1 .. s.size - 1 : r[k] = q[k]
  BY <1>1, <1>4
<1>7. Fares(s, Pop(s), s.size - 1, Len(r), {}, V, home)
  BY <1>2, <1>5, <1>6, LeftFares
<1> QED BY <1>1, <1>4, <1>7

(* The top yields.                                                         *)
LEMMA SuspendFares ==
    ASSUME NEW s, NEW V, NEW home, Going(s, V, home), s.size >= 2
    PROVE  Fares(s, Suspend(s), s.size - 1, s.size - 1, {}, V, home)
<1> DEFINE q == Frames(s)
           r == Upto(q, Len(q) - 1)
<1>1. Runs(s, q) /\ Len(q) = s.size /\ s.size \in Nat /\ q \in Seq(DOMAIN s.frame)
  BY GoingIs DEF Going, Listing
<1>2. Left(s, r, Suspend(s))
  BY <1>1, RunsSuspend
<1>3. Len(q) - 1 \in 0 .. Len(q)
  BY <1>1
<1>4. Len(r) = Len(q) - 1 /\ \A k \in 1 .. Len(q) - 1 : r[k] = q[k]
  BY <1>1, <1>3, UptoIs
<1>5. s.size - 1 \in Nat /\ s.size - 1 <= Len(r) /\ s.size - 1 <= s.size
  BY <1>1, <1>4
<1> HIDE DEF r
<1>6. \A k \in 1 .. s.size - 1 : r[k] = q[k]
  BY <1>1, <1>4
<1>7. Fares(s, Suspend(s), s.size - 1, Len(r), {}, V, home)
  BY <1>2, <1>5, <1>6, LeftFares
<1> QED BY <1>1, <1>4, <1>7

(* The top takes the place of its caller.                                  *)
LEMMA MergeFares ==
    ASSUME NEW s, NEW V, NEW home, Going(s, V, home), s.size >= 2
    PROVE  Fares(s, LiftMerge(s), 0, s.size - 1, {}, V, home)
<1> DEFINE q == Frames(s)
           r == Merged(q)
<1>1. Runs(s, q) /\ Len(q) = s.size /\ s.size \in Nat /\ q \in Seq(DOMAIN s.frame)
  BY GoingIs DEF Going, Listing
<1>2. Left(s, r, LiftMerge(s))
  BY <1>1, RunsMerge
<1>3. Len(q) - 1 \in Nat /\ r = [k \in 1 .. Len(q) - 1 |-> r[k]]
  BY <1>1 DEF Merged
<1>4. Len(r) \in Nat /\ DOMAIN r = 1 .. Len(r)
  BY <1>2, RunsIs DEF Left, Listing
<1>5. Len(r) = Len(q) - 1
  <2> DEFINE z == Len(r)
             y == Len(q) - 1
  <2>1. z \in Nat /\ y \in Nat /\ 1 .. z = 1 .. y
    BY <1>3, <1>4
  <2> HIDE DEF z, y
  <2>2. z = y
    BY <2>1, LengthOf
  <2> QED BY <2>2 DEF z, y
<1> HIDE DEF r
<1>6. 0 \in Nat /\ 0 <= Len(r) /\ 0 <= s.size /\ \A k \in 1 .. 0 : r[k] = q[k]
  BY <1>1, <1>4
<1>7. Fares(s, LiftMerge(s), 0, Len(r), {}, V, home)
  BY <1>2, <1>6, LeftFares
<1> QED BY <1>1, <1>5, <1>7

(* The stack is cut down to n frames.                                      *)
LEMMA CrushFares ==
    ASSUME NEW s, NEW V, NEW home, Going(s, V, home), NEW n \in Nat, n <= s.size
    PROVE  Fares(s, Crush(s, n), n, n, {}, V, home) /\ Len(Frames(Crush(s, n))) = n
<1> DEFINE q == Frames(s)
           r == Upto(q, n)
<1>1. Runs(s, q) /\ Len(q) = s.size /\ s.size \in Nat /\ q \in Seq(DOMAIN s.frame)
  BY GoingIs DEF Going, Listing
<1>2. n \in 0 .. Len(q)
  BY <1>1
<1>3. Left(s, r, Crush(s, n))
  BY <1>1, <1>2, RunsCrush
<1>4. Len(r) = n /\ \A k \in 1 .. n : r[k] = q[k]
  BY <1>1, <1>2, UptoIs
<1> HIDE DEF r
<1>5. n <= Len(r)
  BY <1>4
<1>6. Fares(s, Crush(s, n), n, Len(r), {}, V, home) /\ Frames(Crush(s, n)) = r
  BY <1>3, <1>4, <1>5, LeftFares
<1> QED BY <1>4, <1>6

(* r is q with i behind it.                                                *)
ExtendedIs(q, i, r) == Len(r) = Len(q) + 1 /\ r[Len(q) + 1] = i /\ \A k \in 1 .. Len(q) : r[k] = q[k]

(* The listing of a stack with one frame more.                             *)
LEMMA ExtendedHas ==
    ASSUME NEW s, NEW t, NEW q, Len(q) \in Nat, NEW i, Runs(t, Extended(q, i))
    PROVE  ExtendedIs(q, i, Extended(q, i))
<1> DEFINE r == Extended(q, i)
<1>1. Len(r) \in Nat /\ DOMAIN r = 1 .. Len(r)
  BY RunsIs DEF Listing
<1>2. DOMAIN r = 1 .. Len(q) + 1 /\ r[Len(q) + 1] = i /\ \A k \in 1 .. Len(q) : r[k] = q[k]
  <2>1. Len(q) + 1 \in 1 .. Len(q) + 1 /\ \A k \in 1 .. Len(q) : k \in 1 .. Len(q) + 1 /\ k # Len(q) + 1
    OBVIOUS
  <2> QED BY <2>1 DEF Extended
<1> HIDE DEF r
<1>3. Len(r) = Len(q) + 1
  <2> DEFINE z == Len(r)
             y == Len(q) + 1
  <2>1. z \in Nat /\ DOMAIN r = 1 .. z
    BY <1>1
  <2>2. y \in Nat /\ DOMAIN r = 1 .. y
    BY <1>2
  <2> HIDE DEF z, y
  <2>3. 1 .. z = 1 .. y
    BY <2>1, <2>2
  <2>4. z = y
    BY ONLY <2>1, <2>2, <2>3, LengthOf
  <2> QED BY <2>4 DEF z, y
<1>4. ExtendedIs(q, i, r)
  BY <1>2, <1>3 DEF ExtendedIs
<1> QED BY <1>4 DEF r
-----------------------------------------------------------------------------
(* t has one frame more, with environment e.                               *)
Entered(s, t, e, V, home) ==
    /\ Fares(s, t, s.size, s.size + 1, {e}, V, home)
    /\ \A j \in DOMAIN s.frame : Content(t.frame[j]) = Content(s.frame[j])

(* A function is entered in a new frame.                                   *)
LEMMA PushNewFares ==
    ASSUME NEW s, NEW V, NEW home, Going(s, V, home), NEW a, NEW n, NEW p, NEW o, NEW e, Pair(a), Pair(p)
    PROVE  Entered(s, PushNew(s, New(a, n, p, o, e)), e, V, home)
<1> DEFINE f == New(a, n, p, o, e)
           t == PushNew(s, f)
           q == Frames(s)
<1>1. Runs(s, q) /\ Len(q) = s.size /\ s.size \in Nat /\ q \in Seq(DOMAIN s.frame)
      /\ \A k \in 1 .. s.size : q[k] \in DOMAIN s.frame
  BY GoingIs DEF Going, Listing
<1>2. Fresh(f) /\ f.env = e /\ Fine(f, V, home)
  <2>1. f.stack = <<>> /\ f.pc = a /\ f.start = a /\ f.trapPc = p /\ f.env = e
    BY DEF New
  <2>2. Fresh(f)
    BY NewIsFresh
  <2> HIDE DEF f
  <2>3. <<>> \in Seq(V)
    OBVIOUS
  <2> QED BY <2>1, <2>2, <2>3 DEF Fine
<1> HIDE DEF f
<1>3. NewOnTop(s, q, f, t)
  BY <1>1, <1>2, RunsPushNew
<1> HIDE DEF t
<1>4. PICK i : /\ i \notin DOMAIN s.frame /\ DOMAIN t.frame = DOMAIN s.frame \cup {i}
               /\ Runs(t, Extended(q, i)) /\ Content(t.frame[i]) = Content(f)
               /\ \A j \in DOMAIN s.frame : Content(t.frame[j]) = Content(s.frame[j])
  BY <1>3 DEF NewOnTop
<1> DEFINE r == Extended(q, i)
<1>5. ExtendedIs(q, i, r)
  BY <1>1, <1>4, ExtendedHas
<1>6. Runs(t, r)
  BY <1>4
<1> HIDE DEF r
<1>7. Frames(t) = r /\ t.size = s.size + 1
  BY <1>1, <1>5, <1>6, RunsFrames DEF ExtendedIs
<1>8. t.frame[i].env = e /\ Fine(t.frame[i], V, home)
  BY <1>2, <1>4, SameContent
<1>9. \A j \in DOMAIN s.frame : /\ t.frame[j].start = s.frame[j].start /\ t.frame[j].env = s.frame[j].env
                                /\ Fine(t.frame[j], V, home)
  <2> SUFFICES ASSUME NEW j \in DOMAIN s.frame
               PROVE /\ t.frame[j].start = s.frame[j].start /\ t.frame[j].env = s.frame[j].env
                     /\ Fine(t.frame[j], V, home)
    OBVIOUS
  <2>1. Fine(s.frame[j], V, home)
    BY DEF Going
  <2> QED BY <2>1, <1>4, SameContent
<1>10. Going(t, V, home)
  BY <1>4, <1>6, <1>7, <1>8, <1>9 DEF Going
<1>11. Envs(t) \subseteq {e} \cup Envs(s)
  BY <1>4, <1>8, <1>9 DEF Envs
<1>12. \A k \in 1 .. s.size : /\ Frames(t)[k] = q[k] /\ t.frame[q[k]].start = s.frame[q[k]].start
  BY <1>1, <1>5, <1>7, <1>9 DEF ExtendedIs
<1> QED BY <1>4, <1>7, <1>10, <1>11, <1>12 DEF Fares, t, f, Entered

(* A generator goes on.                                                    *)
LEMMA ResumeFares ==
    ASSUME NEW s, NEW V, NEW home, Going(s, V, home), s.size # 0, NEW u, SameLinks(s, u), Going(u, V, home),
           \A j \in DOMAIN s.frame : u.frame[j].start = s.frame[j].start,
           NEW a, GetGenerator(s, a) # Nil, NEW n
    PROVE  LET i == GetGenerator(s, a)
           IN Fares(u, Push(PickGenerator(u, i, n), i), u.size, u.size + 1, {}, V, home)
<1> DEFINE q == Frames(s)
           i == GetGenerator(s, a)
           t == Push(PickGenerator(u, i, n), i)
<1>1. Runs(s, q) /\ Len(q) = s.size /\ s.size \in Nat /\ q \in Seq(DOMAIN s.frame)
      /\ \A k \in 1 .. s.size : q[k] \in DOMAIN s.frame
  BY GoingIs DEF Going, Listing
<1>2. PICK own, pos : Whole(s, own, pos) /\ Ordered(s, own, pos, Nil, q)
  BY <1>1 DEF Runs
<1>3. i \in DOMAIN s.frame /\ own[i] = s.top
  BY <1>2, GeneratorFound
<1>4. Whole(u, own, pos) /\ DOMAIN u.frame = DOMAIN s.frame /\ u.top = s.top /\ u.size = s.size
  BY <1>2, SameLinksWhole DEF SameLinks
<1>5. Ordered(u, own, pos, Nil, q)
  BY <1>2, <1>4 DEF Ordered, Count, SameLinks
<1>6. Runs(u, q) /\ Frames(u) = q
  BY <1>4, <1>5, RunsFrames DEF Runs
<1> HIDE DEF i, q
<1>7. Resumed(u, q, i, n, t)
  BY <1>1, <1>3, <1>4, <1>5, RunsResume
<1> HIDE DEF t
<1> DEFINE r == Extended(q, i)
<1>8. /\ DOMAIN t.frame = DOMAIN u.frame /\ Runs(t, r)
      /\ \A j \in DOMAIN u.frame \ {i} : Content(t.frame[j]) = Content(u.frame[j])
      /\ Content(t.frame[i]) = [Content(u.frame[i]) EXCEPT !.args = n]
  BY <1>7 DEF Resumed
<1>9. ExtendedIs(q, i, r)
  BY <1>1, <1>8, ExtendedHas
<1> HIDE DEF r
<1>10. Frames(t) = r /\ t.size = u.size + 1
  BY <1>1, <1>4, <1>8, <1>9, RunsFrames DEF ExtendedIs
<1>11. \A j \in DOMAIN u.frame : /\ t.frame[j].start = u.frame[j].start /\ t.frame[j].env = u.frame[j].env
                                 /\ Fine(t.frame[j], V, home)
  <2> SUFFICES ASSUME NEW j \in DOMAIN u.frame
               PROVE /\ t.frame[j].start = u.frame[j].start /\ t.frame[j].env = u.frame[j].env
                     /\ Fine(t.frame[j], V, home)
    OBVIOUS
  <2>1. Fine(u.frame[j], V, home)
    BY DEF Going
  <2>2. CASE j # i
    BY <2>1, <2>2, <1>8, SameContent
  <2>3. CASE j = i
    <3>1. Content(t.frame[j]) = [Content(u.frame[j]) EXCEPT !.args = n]
      BY <2>3, <1>8
    <3>2. /\ t.frame[j].start = u.frame[j].start /\ t.frame[j].env = u.frame[j].env
          /\ t.frame[j].stack = u.frame[j].stack /\ t.frame[j].pc = u.frame[j].pc /\ t.frame[j].trapPc = u.frame[j].trapPc
      BY <3>1 DEF Content
    <3> QED BY <2>1, <3>2 DEF Fine
  <2> QED BY <2>2, <2>3
<1>12. Going(t, V, home)
  BY <1>8, <1>10, <1>11 DEF Going
<1>13. Envs(t) \subseteq {} \cup Envs(u)
  BY <1>8, <1>11 DEF Envs
<1>14. \A k \in 1 .. u.size : /\ Frames(t)[k] = q[k] /\ t.frame[q[k]].start = u.frame[q[k]].start
  BY <1>1, <1>4, <1>9, <1>10, <1>11 DEF ExtendedIs
<1> QED BY <1>6, <1>10, <1>12, <1>13, <1>14 DEF Fares, t, i
-----------------------------------------------------------------------------
(* What a snapshot keeps of a frame.                                       *)
Snapped(x, V) ==
    /\ x = [pc |-> x.pc, args |-> x.args, trapPc |-> x.trapPc, trapOn |-> x.trapOn, stack |-> x.stack]
    /\ x.stack \in Seq(V) /\ Pair(x.pc) /\ Pair(x.trapPc)

(* A snapshot, and that its frames are in their function.                  *)
AllSnapped(snap, V) == /\ Len(snap) \in Nat /\ DOMAIN snap = 1 .. Len(snap)
                       /\ \A k \in 1 .. Len(snap) : Snapped(snap[k], V)
AtHome(snap, s, n) == \A k \in 1 .. n : snap[k].pc[1] = s.frame[Frames(s)[k]].start[1]

(* The stack t is wound back to the snapshot, n of its frames with their   *)
(* computing stack. Only a bottom frame that is alone keeps its pc.        *)
Wound(snap, n, t) ==
    \A k \in 1 .. Len(snap) : LET f == t.frame[Frames(t)[k]]
                              IN /\ f.pc = snap[k].pc \/ (k = 1 /\ n = 1)
                                 /\ k <= n => f.stack = snap[k].stack

(* Restore winds back, and the new frames have the environments given.     *)
LEMMA RestoreFares ==
    ASSUME NEW s, NEW V, NEW home, Going(s, V, home), NEW snap, AllSnapped(snap, V), s.size <= Len(snap),
           home => AtHome(snap, s, s.size), NEW envs
    PROVE  LET t == Restore(s, snap, s.size, envs)
           IN /\ Fares(s, t, s.size, Len(snap), {envs[k] : k \in 1 .. Len(snap)}, V, home)
              /\ Wound(snap, s.size, t)
<1> DEFINE n == s.size
           N == Len(snap)
           q == Frames(s)
           t == Restore(s, snap, n, envs)
           kept == Kept(s, q, snap)
<1>1. Runs(s, q) /\ Len(q) = n /\ n \in Nat /\ q \in Seq(DOMAIN s.frame) /\ N \in Nat /\ n <= N
      /\ \A k \in 1 .. n : q[k] \in DOMAIN s.frame
  BY GoingIs DEF Going, Listing, AllSnapped
<1>2. Grown(s, q, snap, envs, N, t)
  BY <1>1, RunsRestore
<1>3. KeptAs(s, q, snap, kept)
  BY <1>1, KeptIs
<1> HIDE DEF t, kept
<1>4. PICK r : /\ Runs(t, r) /\ Len(r) = N /\ \A k \in 1 .. n : r[k] = q[k]
               /\ DOMAIN s.frame \subseteq DOMAIN t.frame
               /\ DOMAIN t.frame \subseteq DOMAIN s.frame \cup {r[k] : k \in n + 1 .. N}
               /\ \A k \in n + 1 .. N : /\ r[k] \notin DOMAIN s.frame
                                        /\ Content(t.frame[r[k]]) = Content(Anew(snap[k], envs[k]))
               /\ \A j \in DOMAIN s.frame : Content(t.frame[j]) = Content(kept.frame[j])
  BY <1>1, <1>2 DEF Grown, kept
<1>5. /\ \A k \in 1 .. n : Content(kept.frame[q[k]]) = Rewound(Content(s.frame[q[k]]), snap[k], n)
      /\ \A j \in DOMAIN s.frame : (\A k \in 1 .. n : q[k] # j) => Content(kept.frame[j]) = Content(s.frame[j])
  BY <1>1, <1>3 DEF KeptAs
<1> HIDE DEF n, q, N
<1>6. Frames(t) = r /\ t.size = N
  BY <1>4, RunsFrames
<1>7. ASSUME NEW k \in 1 .. n
      PROVE  LET f == t.frame[r[k]]
             IN /\ f.start = s.frame[q[k]].start /\ f.env = s.frame[q[k]].env
                /\ f.stack = snap[k].stack /\ (n # 1 => f.pc = snap[k].pc) /\ (n = 1 => f.pc = s.frame[q[k]].pc)
                /\ f.trapPc = s.frame[q[k]].trapPc
  <2> DEFINE f == t.frame[r[k]]
             g == s.frame[q[k]]
  <2>1. r[k] = q[k] /\ q[k] \in DOMAIN s.frame
    BY <1>1, <1>4
  <2>2. Content(f) = Rewound(Content(g), snap[k], n)
    BY <2>1, <1>4, <1>5
  <2> HIDE DEF f, g
  <2>3. /\ f.start = g.start /\ f.env = g.env /\ f.stack = snap[k].stack /\ f.trapPc = g.trapPc
        /\ f.pc = (IF n = 1 THEN g.pc ELSE snap[k].pc)
    BY <2>2 DEF Content, Rewound
  <2> QED BY <2>3 DEF f, g
<1>8. ASSUME NEW k \in n + 1 .. N
      PROVE  LET f == t.frame[r[k]]
             IN /\ f.start = snap[k].pc /\ f.pc = snap[k].pc /\ f.env = envs[k] /\ f.stack = <<>>
                /\ f.trapPc = snap[k].trapPc
  <2> DEFINE f == t.frame[r[k]]
  <2>1. Content(f) = Content(Anew(snap[k], envs[k]))
    BY <1>4
  <2>2. Content(Anew(snap[k], envs[k])) = [start |-> snap[k].pc, pc |-> snap[k].pc, args |-> snap[k].args,
              trapPc |-> snap[k].trapPc, trapOn |-> snap[k].trapOn, env |-> envs[k], stack |-> <<>>]
    BY NewIsFresh DEF Anew
  <2> HIDE DEF f
  <2>3. f.start = snap[k].pc /\ f.pc = snap[k].pc /\ f.env = envs[k] /\ f.stack = <<>> /\ f.trapPc = snap[k].trapPc
    BY <2>1, <2>2 DEF Content
  <2> QED BY <2>3 DEF f
<1>9. \A k \in 1 .. N : Snapped(snap[k], V)
  BY DEF AllSnapped, N
<1>10. ASSUME NEW j \in DOMAIN t.frame
       PROVE  Fine(t.frame[j], V, home) /\ t.frame[j].env \in {envs[k] : k \in 1 .. N} \cup Envs(s)
  <2>1. CASE \E k \in 1 .. n : q[k] = j
    <3>1. PICK k \in 1 .. n : q[k] = j
      BY <2>1
    <3>2. k \in 1 .. N /\ r[k] = j /\ j \in DOMAIN s.frame
      BY <1>1, <1>4, <3>1
    <3>3. Fine(s.frame[j], V, home)
      BY <3>2 DEF Going
    <3>4. home => snap[k].pc[1] = s.frame[j].start[1]
      BY <3>1 DEF AtHome, n, q
    <3>5. snap[k].stack \in Seq(V) /\ Pair(snap[k].pc)
      BY <3>2, <1>9 DEF Snapped
    <3> DEFINE f == t.frame[j]
               g == s.frame[j]
               x == snap[k]
    <3>6. /\ f.start = g.start /\ f.env = g.env /\ f.stack = x.stack /\ (n # 1 => f.pc = x.pc) /\ (n = 1 => f.pc = g.pc)
          /\ f.trapPc = g.trapPc
      BY <3>1, <3>2, <1>7
    <3>7. g.env \in Envs(s)
      BY <3>2 DEF Envs
    <3>8. Fine(g, V, home) /\ (home => x.pc[1] = g.start[1]) /\ x.stack \in Seq(V) /\ Pair(x.pc)
      BY <3>3, <3>4, <3>5
    <3> HIDE DEF f, g, x
    <3>9. Fine(f, V, home)
      <4>1. CASE n = 1
        BY ONLY <4>1, <3>6, <3>8 DEF Fine
      <4>2. CASE n # 1
        BY ONLY <4>2, <3>6, <3>8 DEF Fine
      <4> QED BY <4>1, <4>2
    <3> QED BY <3>6, <3>7, <3>9 DEF f
  <2>2. CASE j \in DOMAIN s.frame /\ \A k \in 1 .. n : q[k] # j
    <3>1. Content(t.frame[j]) = Content(s.frame[j])
      BY <2>2, <1>4, <1>5
    <3>2. Fine(s.frame[j], V, home)
      BY <2>2 DEF Going
    <3> QED BY <2>2, <3>1, <3>2, SameContent DEF Envs
  <2>3. CASE j \notin DOMAIN s.frame
    <3>1. PICK k \in n + 1 .. N : r[k] = j
      BY <2>3, <1>4
    <3>2. k \in 1 .. N
      BY <1>1, <3>1
    <3>3. <<>> \in Seq(V)
      OBVIOUS
    <3>4. Pair(snap[k].pc) /\ Pair(snap[k].trapPc)
      BY <3>2, <1>9 DEF Snapped
    <3> QED BY <3>1, <3>2, <3>3, <3>4, <1>8 DEF Fine
  <2> QED BY <2>1, <2>2, <2>3
<1>11. Going(t, V, home)
  BY <1>4, <1>6, <1>10 DEF Going
<1>12. Envs(t) \subseteq {envs[k] : k \in 1 .. N} \cup Envs(s)
  BY <1>10 DEF Envs
<1>13. \A k \in 1 .. n : Frames(t)[k] = q[k] /\ t.frame[q[k]].start = s.frame[q[k]].start
  BY <1>4, <1>6, <1>7
<1>14. Wound(snap, n, t)
  <2> SUFFICES ASSUME NEW k \in 1 .. N
               PROVE  /\ t.frame[r[k]].pc = snap[k].pc \/ (k = 1 /\ n = 1)
                      /\ k <= n => t.frame[r[k]].stack = snap[k].stack
    BY <1>6 DEF Wound, N
  <2>1. CASE k <= n
    <3>1. k \in 1 .. n
      BY <2>1, <1>1
    <3>2. n = 1 => k = 1
      BY <3>1
    <3> QED BY <3>1, <3>2, <1>7
  <2>2. CASE ~ (k <= n)
    <3>1. k \in n + 1 .. N
      BY <2>2, <1>1
    <3> QED BY <2>2, <3>1, <1>8
  <2> QED BY <2>1, <2>2
<1> QED BY <1>6, <1>11, <1>12, <1>13, <1>14 DEF Fares, t, n, q, N

(* The trap of a frame is armed.                                           *)
LEMMA SetTrapFares ==
    ASSUME NEW s, NEW V, NEW home, Going(s, V, home), NEW snap, Len(snap) \in 1 .. s.size
    PROVE  LET t == SetTrap(s, snap)
           IN /\ Fares(s, t, s.size, s.size, {}, V, home)
              /\ \A j \in DOMAIN s.frame : t.frame[j].pc = s.frame[j].pc /\ t.frame[j].stack = s.frame[j].stack
<1> DEFINE i == Frames(s)[Len(snap)]
           f == s.frame[i]
           g == [f EXCEPT !.trapOn = TRUE]
           t == [s EXCEPT !.frame[i] = g]
<1>1. i \in DOMAIN s.frame /\ IsStack(s) /\ IsFrame(f)
  BY GoingIs DEF Listing, IsStack
<1>2. SetTrap(s, snap) = t
  BY DEF SetTrap
<1>3. Fine(f, V, home)
  BY <1>1 DEF Going
<1>4. Linkage(g, f) /\ Content(g) = [Content(f) EXCEPT !.trapOn = TRUE]
  BY <1>1, Contents
<1>5. g.start = f.start /\ g.env = f.env /\ g.stack = f.stack /\ g.pc = f.pc /\ g.trapPc = f.trapPc
  <2> HIDE DEF g, f
  <2> QED BY <1>4 DEF Content
<1> HIDE DEF g
<1>7. Fine(g, V, home)
  BY <1>3, <1>5 DEF Fine
<1>8. \A j \in DOMAIN s.frame \ {i} : Fine(s.frame[j], V, home)
  BY DEF Going
<1> HIDE DEF i
<1>9. Fares(s, t, s.size, s.size, {}, V, home) /\ Replaced(s, i, g, t)
  BY <1>1, <1>4, <1>5, <1>7, <1>8, Refit
<1> HIDE DEF t, f
<1>10. \A j \in DOMAIN s.frame : t.frame[j].pc = s.frame[j].pc /\ t.frame[j].stack = s.frame[j].stack
  BY <1>9, <1>5 DEF Replaced, f
<1> QED BY <1>2, <1>9, <1>10

(* All of it: cut down, wound back, grown and the function entered.        *)
LEMMA WindFares ==
    ASSUME NEW s, NEW V, NEW home, Going(s, V, home), NEW snap, AllSnapped(snap, V), Len(snap) # 0, NEW n \in Nat,
           n <= Len(snap), n <= s.size, home => AtHome(snap, s, n),
           NEW envs, NEW a, Pair(a), NEW p, Pair(p), NEW c, NEW o, NEW e
    PROVE  LET t == PushNew(SetTrap(Restore(Crush(s, n), snap, n, envs), snap), New(a, c, p, o, e))
           IN /\ Fares(s, t, n, Len(snap) + 1, Envs(t), V, home)
              /\ Wound(snap, n, t)
<1> DEFINE u == Crush(s, n)
           w == Restore(u, snap, n, envs)
           z == SetTrap(w, snap)
           t == PushNew(z, New(a, c, p, o, e))
           N == Len(snap)
           X == {envs[k] : k \in 1 .. Len(snap)}
<1>0. N \in Nat /\ N \in 1 .. N /\ n <= N
  BY DEF AllSnapped
<1>1. Fares(s, u, n, n, {}, V, home) /\ Len(Frames(u)) = n
  BY CrushFares
<1> HIDE DEF u
<1>2. Going(u, V, home) /\ u.size = n /\ home => AtHome(snap, u, u.size)
  <2>1. Going(u, V, home) /\ u.size = n
    BY <1>1 DEF Fares
  <2>2. AtHome(snap, s, n) => AtHome(snap, u, n)
    BY <1>1 DEF AtHome, Fares
  <2> QED BY <2>1, <2>2
<1>3. Going(u, V, home) /\ u.size = n
  BY <1>1 DEF Fares
<1>4. Fares(u, w, n, N, X, V, home) /\ Wound(snap, n, w)
  <2>1. home => AtHome(snap, u, u.size)
    BY <1>2, <1>3
  <2>2. LET y == Restore(u, snap, u.size, envs)
        IN Fares(u, y, u.size, Len(snap), {envs[k] : k \in 1 .. Len(snap)}, V, home) /\ Wound(snap, u.size, y)
    BY <1>0, <1>3, <2>1, RestoreFares
  <2> QED BY <2>2, <1>3
<1> HIDE DEF w, X
<1>5. Going(w, V, home) /\ w.size = N
  BY <1>4 DEF Fares
<1>6. /\ Fares(w, z, N, N, {}, V, home)
      /\ \A j \in DOMAIN w.frame : z.frame[j].pc = w.frame[j].pc /\ z.frame[j].stack = w.frame[j].stack
  <2>1. Len(snap) \in 1 .. w.size
    BY <1>0, <1>5
  <2>2. LET y == SetTrap(w, snap)
        IN /\ Fares(w, y, w.size, w.size, {}, V, home)
           /\ \A j \in DOMAIN w.frame : y.frame[j].pc = w.frame[j].pc /\ y.frame[j].stack = w.frame[j].stack
    BY <1>5, <2>1, SetTrapFares
  <2> QED BY <2>2, <1>5
<1> HIDE DEF z
<1>7. Going(z, V, home) /\ z.size = N
  BY <1>6 DEF Fares
<1>8. /\ Fares(z, t, N, N + 1, {e}, V, home)
      /\ \A j \in DOMAIN z.frame : Content(t.frame[j]) = Content(z.frame[j])
  <2>1. Entered(z, t, e, V, home)
    BY <1>7, PushNewFares
  <2> QED BY <2>1, <1>7 DEF Entered
<1> HIDE DEF t, N
<1>9. Fares(s, t, n, N + 1, ((({} \cup X) \cup {}) \cup {e}), V, home)
  <2>1. Fares(s, w, n, N, {} \cup X, V, home)
    BY <1>1, <1>4, FaresTrans
  <2>2. Fares(s, z, n, N, ({} \cup X) \cup {}, V, home)
    BY <1>0, <1>6, <2>1, FaresTrans
  <2> QED BY <1>0, <1>8, <2>2, FaresTrans
<1>10. Fares(s, t, n, N + 1, Envs(t), V, home)
  BY <1>9 DEF Fares
<1>11. \A k \in 1 .. N : /\ Frames(t)[k] = Frames(w)[k] /\ Frames(w)[k] \in DOMAIN w.frame
                         /\ Frames(w)[k] = Frames(z)[k] /\ Frames(z)[k] \in DOMAIN z.frame
  <2>1. \A k \in 1 .. N : Frames(w)[k] \in DOMAIN w.frame /\ Frames(z)[k] \in DOMAIN z.frame
    BY <1>5, <1>7, GoingIs
  <2> QED BY <2>1, <1>6, <1>8 DEF Fares
<1>12. ASSUME NEW k \in 1 .. N
       PROVE  LET j == Frames(t)[k] IN t.frame[j].pc = w.frame[j].pc /\ t.frame[j].stack = w.frame[j].stack
  <2> DEFINE j == Frames(t)[k]
  <2>1. j \in DOMAIN w.frame /\ j \in DOMAIN z.frame /\ j = Frames(w)[k]
    BY <1>11
  <2> HIDE DEF j
  <2>2. t.frame[j].pc = z.frame[j].pc /\ t.frame[j].stack = z.frame[j].stack
    BY <2>1, <1>8, SameContent
  <2>3. t.frame[j].pc = w.frame[j].pc /\ t.frame[j].stack = w.frame[j].stack
    BY <2>1, <2>2, <1>6
  <2> QED BY <2>3 DEF j
<1>13. Wound(snap, n, t)
  BY <1>4, <1>11, <1>12 DEF Wound, N
<1> QED BY <1>10, <1>13 DEF t, z, w, u, N
-----------------------------------------------------------------------------
(* The frame under the top.                                                *)
LEMMA CallerIs ==
    ASSUME NEW s, NEW V, NEW home, Going(s, V, home), s.size # 0
    PROVE  /\ Caller(s) = Nil => s.size = 1
           /\ Caller(s) # Nil => s.size >= 2 /\ Caller(s) \in DOMAIN s.frame /\ Caller(s) # s.top
<1> DEFINE q == Frames(s)
           n == s.size
<1>1. /\ n \in Nat /\ Len(q) = n /\ s.top = q[n] /\ Nil \notin DOMAIN s.frame
      /\ \A k \in 1 .. n : q[k] \in DOMAIN s.frame /\ s.frame[q[k]].prev = (IF k = 1 THEN Nil ELSE q[k - 1])
      /\ \A j, k \in 1 .. n : q[j] = q[k] => j = k
  BY GoingIs DEF Listing
<1>2. Caller(s) = s.frame[q[n]].prev
  BY <1>1 DEF Caller, Top
<1> HIDE DEF q, n
<1>3. n \in 1 .. n /\ n # 0
  BY <1>1 DEF n
<1>4. Caller(s) = (IF n = 1 THEN Nil ELSE q[n - 1])
  BY <1>1, <1>2, <1>3
<1>5. CASE n = 1
  BY <1>4, <1>5 DEF n
<1>6. CASE n # 1
  <2>1. n - 1 \in 1 .. n /\ n - 1 # n /\ n >= 2
    BY <1>3, <1>6, <1>1
  <2>2. q[n - 1] \in DOMAIN s.frame /\ q[n - 1] # Nil /\ q[n - 1] # q[n]
    BY <2>1, <1>1, <1>3
  <2> QED BY <1>1, <1>4, <1>6, <2>1, <2>2 DEF n
<1> QED BY <1>5, <1>6

(* What holds after the change.                                            *)
LEMMA FaresGoing ==
    ASSUME NEW s, NEW t, NEW n, NEW m, NEW X, NEW V, NEW home, Fares(s, t, n, m, X, V, home)
    PROVE  Going(t, V, home) /\ t.size = m
  BY DEF Fares

(* Nothing changes.                                                        *)
LEMMA GoingFares ==
    ASSUME NEW s, NEW V, NEW home, Going(s, V, home)
    PROVE  Fares(s, s, s.size, s.size, {}, V, home)
  BY DEF Fares

(* PUSH and the calls that answer at once.                                 *)
LEMMA PushFares ==
    ASSUME NEW s, NEW V, NEW home, Going(s, V, home), s.size # 0, NEW v \in V
    PROVE  Fares(s, PushOn(Next1(s), s.top, v), s.size, s.size, {}, V, home)
<1> DEFINE u == Next1(s)
           n == s.size
<1>1. Fares(s, u, n, n, {}, V, home) /\ SameLinks(s, u)
  BY Next1Fares
<1> HIDE DEF u
<1>2. Going(u, V, home) /\ u.size = n /\ s.top \in DOMAIN u.frame /\ n \in Nat
  BY <1>1, GoingIs DEF Fares, SameLinks
<1> HIDE DEF n
<1>3. Fares(u, PushOn(u, s.top, v), n, n, {}, V, home)
  <2>1. Fares(u, PushOn(u, s.top, v), u.size, u.size, {}, V, home)
    BY <1>2, PushOnFares
  <2> QED BY <1>2, <2>1
<1>4. Fares(s, PushOn(u, s.top, v), n, n, {} \cup {}, V, home)
  BY <1>1, <1>2, <1>3, FaresTrans
<1>5. {} \cup {} = {}
  OBVIOUS
<1> QED BY <1>4, <1>5 DEF u, n

(* PROMC leaves two values.                                                *)
LEMMA PushesFares ==
    ASSUME NEW s, NEW V, NEW home, Going(s, V, home), s.size # 0, NEW v \in V, NEW w \in V
    PROVE  Fares(s, PushOn(PushOn(Next1(s), s.top, w), s.top, v), s.size, s.size, {}, V, home)
<1> DEFINE u == PushOn(Next1(s), s.top, w)
           n == s.size
<1>0. s.top \in DOMAIN s.frame /\ n \in Nat
  BY GoingIs
<1>1. Fares(s, u, n, n, {}, V, home)
  BY PushFares
<1>2. SameLinks(s, u)
  <2> DEFINE x == Next1(s)
  <2>1. SameLinks(s, x) /\ Going(x, V, home)
    BY Next1Fares DEF Fares
  <2> HIDE DEF x
  <2>2. s.top \in DOMAIN x.frame
    BY <1>0, <2>1 DEF SameLinks
  <2>3. SameLinks(x, PushOn(x, s.top, w))
    BY <2>1, <2>2, PushOnFares
  <2>4. SameLinks(s, PushOn(x, s.top, w))
    BY <2>1, <2>3, SameLinksTrans
  <2> QED BY <2>4 DEF x
<1> HIDE DEF u
<1>3. Going(u, V, home) /\ u.size = n /\ s.top \in DOMAIN u.frame
  BY <1>0, <1>1, <1>2 DEF Fares, SameLinks
<1> HIDE DEF n
<1>4. Fares(u, PushOn(u, s.top, v), n, n, {}, V, home)
  <2>1. Fares(u, PushOn(u, s.top, v), u.size, u.size, {}, V, home)
    BY <1>3, PushOnFares
  <2> QED BY <1>3, <2>1
<1>5. Fares(s, PushOn(u, s.top, v), n, n, {} \cup {}, V, home)
  BY <1>0, <1>1, <1>4, FaresTrans
<1>6. {} \cup {} = {}
  OBVIOUS
<1> QED BY <1>5, <1>6 DEF u, n

(* POP.                                                                    *)
LEMMA DropFares ==
    ASSUME NEW s, NEW V, NEW home, Going(s, V, home), s.size # 0, Top(s).stack # <<>>
    PROVE  Fares(s, PopOff(Next1(s), s.top), s.size, s.size, {}, V, home)
<1> DEFINE u == Next1(s)
           n == s.size
<1>1. Fares(s, u, n, n, {}, V, home) /\ SameLinks(s, u) /\ \A j \in DOMAIN s.frame : u.frame[j].stack = s.frame[j].stack
  BY Next1Fares
<1> HIDE DEF u
<1>2. Going(u, V, home) /\ u.size = n /\ s.top \in DOMAIN u.frame /\ n \in Nat /\ u.frame[s.top].stack # <<>>
  BY <1>1, GoingIs DEF Fares, SameLinks, Top
<1> HIDE DEF n
<1>3. Fares(u, PopOff(u, s.top), n, n, {}, V, home)
  <2>1. Fares(u, PopOff(u, s.top), u.size, u.size, {}, V, home)
    BY <1>2, PopOffFares
  <2> QED BY <1>2, <2>1
<1>4. Fares(s, PopOff(u, s.top), n, n, {} \cup {}, V, home)
  BY <1>1, <1>2, <1>3, FaresTrans
<1>5. {} \cup {} = {}
  OBVIOUS
<1> QED BY <1>4, <1>5 DEF u, n

(* A tail call merges, any other call does not.                            *)
LEMMA FinishFares ==
    ASSUME NEW s, NEW t, NEW n \in Nat, NEW m \in Nat, m >= 2, NEW X, NEW V, NEW home, Fares(s, t, n, m, X, V, home), NEW op
    PROVE  Fares(s, Finish(op, t), IF TailOp(op) THEN 0 ELSE n, IF TailOp(op) THEN m - 1 ELSE m, X, V, home)
<1>1. CASE TailOp(op)
  <2>1. Going(t, V, home) /\ t.size = m
    BY FaresGoing
  <2>2. Fares(t, LiftMerge(t), 0, t.size - 1, {}, V, home)
    BY <2>1, MergeFares
  <2>3. Fares(t, LiftMerge(t), 0, m - 1, {}, V, home)
    BY <2>1, <2>2
  <2>4. Fares(s, LiftMerge(t), 0, m - 1, X \cup {}, V, home)
    BY <2>3, FaresTrans
  <2>5. X \cup {} = X
    OBVIOUS
  <2> QED BY <1>1, <2>4, <2>5 DEF Finish
<1>2. CASE ~ TailOp(op)
  BY <1>2 DEF Finish
<1> QED BY <1>1, <1>2

(* A call enters a new frame.                                              *)
LEMMA CallFares ==
    ASSUME NEW s, NEW V, NEW home, Going(s, V, home), s.size # 0, NEW a, Pair(a), NEW n, NEW p, Pair(p), NEW o, NEW e, NEW op
    PROVE  Fares(s, Finish(op, PushNew(Next1(s), New(a, n, p, o, e))),
                 IF TailOp(op) THEN 0 ELSE s.size, IF TailOp(op) THEN s.size ELSE s.size + 1, {e}, V, home)
<1> DEFINE u == Next1(s)
           k == s.size
           t == PushNew(u, New(a, n, p, o, e))
<1>1. Fares(s, u, k, k, {}, V, home)
  BY Next1Fares
<1> HIDE DEF u
<1>2. Going(u, V, home) /\ u.size = k /\ k \in Nat
  BY <1>1, GoingIs DEF Fares
<1>3. Entered(u, t, e, V, home)
  BY <1>2, PushNewFares
<1> HIDE DEF t
<1>4. Fares(u, t, k, k + 1, {e}, V, home)
  BY <1>2, <1>3 DEF Entered
<1>5. Fares(s, t, k, k + 1, {} \cup {e}, V, home)
  BY <1>1, <1>2, <1>4, FaresTrans
<1>6. {} \cup {e} = {e} /\ k + 1 >= 2 /\ k + 1 \in Nat /\ (k + 1) - 1 = k
  BY <1>2
<1> HIDE DEF k
<1>7. Fares(s, t, k, k + 1, {e}, V, home)
  BY <1>5, <1>6
<1>8. Fares(s, Finish(op, t), IF TailOp(op) THEN 0 ELSE k, IF TailOp(op) THEN (k + 1) - 1 ELSE k + 1, {e}, V, home)
  BY ONLY <1>2, <1>6, <1>7, FinishFares
<1> QED BY <1>6, <1>8 DEF t, u, k

(* A call lets a generator go on.                                          *)
LEMMA ResumeCallFares ==
    ASSUME NEW s, NEW V, NEW home, Going(s, V, home), s.size # 0, NEW a, GetGenerator(s, a) # Nil, NEW n, NEW op
    PROVE  LET i == GetGenerator(s, a)
           IN Fares(s, Finish(op, Push(PickGenerator(Next1(s), i, n), i)),
                    IF TailOp(op) THEN 0 ELSE s.size, IF TailOp(op) THEN s.size ELSE s.size + 1, {}, V, home)
<1> DEFINE u == Next1(s)
           k == s.size
           i == GetGenerator(s, a)
           t == Push(PickGenerator(u, i, n), i)
<1>1. Fares(s, u, k, k, {}, V, home) /\ SameLinks(s, u)
  BY Next1Fares
<1>2. \A j \in DOMAIN s.frame : u.frame[j].start = s.frame[j].start
  <2> SUFFICES ASSUME NEW j \in DOMAIN s.frame PROVE Next1(s).frame[j].start = s.frame[j].start
    OBVIOUS
  <2>1. CASE j # s.top
    BY <2>1, Next1Fares
  <2>2. CASE j = s.top
    <3>1. /\ k \in 1 .. k /\ s.top = Frames(s)[k]
      BY GoingIs
    <3> QED BY <2>2, <3>1, <1>1 DEF Fares
  <2> QED BY <2>1, <2>2
<1> HIDE DEF u
<1>3. Going(u, V, home) /\ u.size = k /\ k \in Nat
  BY <1>1, GoingIs DEF Fares
<1>4. Fares(u, t, u.size, u.size + 1, {}, V, home)
  BY <1>1, <1>2, <1>3, ResumeFares
<1> HIDE DEF t, i
<1>5. Fares(s, t, k, k + 1, {} \cup {}, V, home)
  BY <1>1, <1>3, <1>4, FaresTrans
<1>6. {} \cup {} = {} /\ k + 1 >= 2 /\ k + 1 \in Nat /\ (k + 1) - 1 = k
  BY <1>3
<1> HIDE DEF k
<1>7. Fares(s, t, k, k + 1, {}, V, home)
  BY <1>5, <1>6
<1>8. Fares(s, Finish(op, t), IF TailOp(op) THEN 0 ELSE k, IF TailOp(op) THEN (k + 1) - 1 ELSE k + 1, {}, V, home)
  BY ONLY <1>3, <1>6, <1>7, FinishFares
<1> QED BY <1>6, <1>8 DEF t, u, k, i

(* The caller, if there is one, gets a value.                              *)
LEMMA HandOverFares ==
    ASSUME NEW s, NEW V, NEW home, Going(s, V, home), s.size # 0, NEW v \in V
    PROVE  Fares(s, HandOver(s, v), s.size, s.size, {}, V, home)
<1>1. CASE Caller(s) = Nil
  BY <1>1, GoingFares DEF HandOver
<1>2. CASE Caller(s) # Nil
  <2>1. Caller(s) \in DOMAIN s.frame
    BY <1>2, CallerIs
  <2> QED BY <1>2, <2>1, PushOnFares DEF HandOver
<1> QED BY <1>1, <1>2

(* RETURN and RETNONE.                                                     *)
LEMMA ReturnFares ==
    ASSUME NEW s, NEW V, NEW home, Going(s, V, home), s.size # 0, NEW v \in V
    PROVE  Fares(s, Pop(HandOver(s, v)), s.size - 1, s.size - 1, {}, V, home)
<1> DEFINE u == HandOver(s, v)
           k == s.size
<1>1. Fares(s, u, k, k, {}, V, home)
  BY HandOverFares
<1> HIDE DEF u
<1>2. Going(u, V, home) /\ u.size = k /\ k \in Nat /\ k # 0 /\ k - 1 \in Nat
  BY <1>1, GoingIs DEF Fares
<1>3. Fares(u, Pop(u), k - 1, k - 1, {}, V, home)
  <2>1. Fares(u, Pop(u), u.size - 1, u.size - 1, {}, V, home)
    BY <1>2, PopFares
  <2> QED BY <1>2, <2>1
<1> HIDE DEF k
<1>4. Fares(s, Pop(u), k - 1, k - 1, {} \cup {}, V, home)
  BY <1>1, <1>2, <1>3, FaresTrans
<1>5. {} \cup {} = {}
  OBVIOUS
<1> QED BY <1>4, <1>5 DEF u, k

(* YIELD, with a caller.                                                   *)
LEMMA YieldFares ==
    ASSUME NEW s, NEW V, NEW home, Going(s, V, home), s.size # 0, Caller(s) # Nil, NEW v \in V
    PROVE  Fares(s, Suspend(HandOver(Next1(s), v)), s.size - 1, s.size - 1, {}, V, home)
<1> DEFINE w == Next1(s)
           u == HandOver(w, v)
           k == s.size
<1>1. Fares(s, w, k, k, {}, V, home)
  BY Next1Fares
<1>2. k >= 2 /\ k \in Nat /\ k - 1 \in Nat
  BY CallerIs, GoingIs
<1> HIDE DEF w
<1>3. Going(w, V, home) /\ w.size = k
  BY <1>1 DEF Fares
<1> HIDE DEF k
<1>4. Fares(w, u, w.size, w.size, {}, V, home)
  BY <1>2, <1>3, HandOverFares
<1> HIDE DEF u
<1>5. Fares(w, u, k, k, {}, V, home) /\ Going(u, V, home) /\ u.size = k
  BY <1>3, <1>4 DEF Fares
<1>6. Fares(u, Suspend(u), u.size - 1, u.size - 1, {}, V, home)
  BY <1>2, <1>5, SuspendFares
<1>7. Fares(u, Suspend(u), k - 1, k - 1, {}, V, home)
  BY <1>5, <1>6
<1>8. Fares(s, u, k, k, {} \cup {}, V, home)
  BY <1>1, <1>2, <1>5, FaresTrans
<1>9. Fares(s, Suspend(u), k - 1, k - 1, ({} \cup {}) \cup {}, V, home)
  BY <1>2, <1>7, <1>8, FaresTrans
<1>10. ({} \cup {}) \cup {} = {}
  OBVIOUS
<1> QED BY <1>9, <1>10 DEF u, k, w

(* More values, or less care.                                              *)
LEMMA GoingLess ==
    ASSUME NEW s, NEW V, NEW home, Going(s, V, home), NEW W, V \subseteq W, NEW away, away => home
    PROVE  Going(s, W, away)
<1>1. Seq(V) \subseteq Seq(W)
  OBVIOUS
<1> QED BY <1>1 DEF Going, Fine

(* A frame jumps within its function.                                      *)
LEMMA PcFares ==
    ASSUME NEW s, NEW V, NEW home, Going(s, V, home), NEW i \in DOMAIN s.frame, NEW a, Pair(a),
           home => a[1] = s.frame[i].start[1]
    PROVE  Fares(s, [s EXCEPT !.frame[i].pc = a], s.size, s.size, {}, V, home)
<1> DEFINE f == s.frame[i]
           g == [f EXCEPT !.pc = a]
           t == [s EXCEPT !.frame[i] = g]
<1>1. IsStack(s) /\ IsFrame(f) /\ Fine(f, V, home)
  BY GoingIs DEF Listing, IsStack, Going
<1>4. Linkage(g, f) /\ Content(g) = [Content(f) EXCEPT !.pc = a]
  BY <1>1, Contents
<1>5. g.start = f.start /\ g.env = f.env /\ g.stack = f.stack /\ g.pc = a /\ g.trapPc = f.trapPc
  <2> HIDE DEF g, f
  <2> QED BY <1>4 DEF Content
<1> HIDE DEF g
<1>7. Fine(g, V, home)
  BY <1>1, <1>5 DEF Fine
<1>8. \A j \in DOMAIN s.frame \ {i} : Fine(s.frame[j], V, home)
  BY DEF Going
<1>9. Fares(s, t, s.size, s.size, {}, V, home)
  BY <1>4, <1>5, <1>7, <1>8, Refit
<1> QED BY <1>9 DEF g

(* RETURNTO sends the caller back to the beginning of its function.        *)
LEMMA ReturnToFares ==
    ASSUME NEW s, NEW V, NEW home, Going(s, V, home), s.size # 0, Caller(s) # Nil
    PROVE  Fares(s, [Next1(s) EXCEPT !.frame[Caller(s)].pc[2] = 0], s.size, s.size, {}, V, home)
<1> DEFINE u == Next1(s)
           c == Caller(s)
           n == s.size
           a == [u.frame[c].pc EXCEPT ![2] = 0]
           t == [u EXCEPT !.frame[c].pc = a]
<1>1. Fares(s, u, n, n, {}, V, home) /\ SameLinks(s, u)
  BY Next1Fares
<1>2. c \in DOMAIN s.frame
  BY CallerIs
<1> HIDE DEF u, c
<1>3. Going(u, V, home) /\ u.size = n /\ n \in Nat /\ c \in DOMAIN u.frame
  BY <1>1, <1>2, GoingIs DEF Fares, SameLinks
<1> HIDE DEF n
<1>4. Fine(u.frame[c], V, home)
  BY <1>3 DEF Going
<1>5. Pair(a) /\ a[1] = u.frame[c].pc[1]
  BY <1>4 DEF Fine, Pair
<1>6. home => a[1] = u.frame[c].start[1]
  BY <1>4, <1>5 DEF Fine
<1> HIDE DEF a
<1>7. Fares(u, t, u.size, u.size, {}, V, home)
  BY <1>3, <1>5, <1>6, PcFares
<1>8. Fares(s, t, n, n, {} \cup {}, V, home)
  BY <1>1, <1>3, <1>7, FaresTrans
<1>9. {} \cup {} = {}
  OBVIOUS
<1> QED BY <1>8, <1>9 DEF a, u, c, n

(* TRAPSET.                                                                *)
LEMMA TrapSetFares ==
    ASSUME NEW s, NEW V, NEW home, Going(s, V, home), s.size # 0, NEW a, Pair(a)
    PROVE  Fares(s, [Next1(s) EXCEPT !.frame[s.top].trapPc = a], s.size, s.size, {}, V, home)
<1> DEFINE u == Next1(s)
           n == s.size
           i == s.top
           f == u.frame[i]
           g == [f EXCEPT !.trapPc = a]
           t == [u EXCEPT !.frame[i] = g]
<1>1. Fares(s, u, n, n, {}, V, home) /\ SameLinks(s, u)
  BY Next1Fares
<1>2. i \in DOMAIN s.frame
  BY GoingIs
<1> HIDE DEF u, i
<1>3. Going(u, V, home) /\ u.size = n /\ n \in Nat /\ i \in DOMAIN u.frame
  BY <1>1, <1>2, GoingIs DEF Fares, SameLinks
<1>4. Fine(f, V, home) /\ IsFrame(f) /\ \A j \in DOMAIN u.frame \ {i} : Fine(u.frame[j], V, home)
  BY <1>3, GoingIs DEF Going, Listing, IsStack
<1>5. Linkage(g, f) /\ Content(g) = [Content(f) EXCEPT !.trapPc = a]
  BY <1>4, Contents
<1>6. g.start = f.start /\ g.env = f.env /\ g.stack = f.stack /\ g.pc = f.pc /\ g.trapPc = a
  <2> HIDE DEF g, f
  <2> QED BY <1>5 DEF Content
<1> HIDE DEF g, n
<1>7. Fine(g, V, home)
  BY <1>4, <1>6 DEF Fine
<1>8. Fares(u, t, u.size, u.size, {}, V, home)
  BY <1>3, <1>4, <1>5, <1>6, <1>7, Refit
<1> HIDE DEF t
<1>9. Fares(s, t, n, n, {} \cup {}, V, home)
  BY <1>1, <1>3, <1>8, FaresTrans
<1>10. {} \cup {} = {}
  OBVIOUS
<1> QED BY <1>9, <1>10 DEF t, g, u, i, n

(* TRAP, with the trap armed: the frame stays in its function where the    *)
(* trap was set in that function.                                          *)
LEMMA TrapFares ==
    ASSUME NEW s, NEW V, NEW home, Going(s, V, home), s.size # 0, NEW away, away => home,
           away => Top(s).trapPc[1] = Top(s).pc[1]
    PROVE  Fares(s, [s EXCEPT !.frame[s.top].pc = Top(s).trapPc, !.frame[s.top].trapOn = FALSE],
                 s.size, s.size, {}, V, away)
<1> DEFINE i == s.top
           f == s.frame[i]
           h == [f EXCEPT !.pc = f.trapPc]
           g == [h EXCEPT !.trapOn = FALSE]
           t == [s EXCEPT !.frame[i] = g]
<1>1. i \in DOMAIN s.frame /\ Going(s, V, away) /\ IsStack(s)
  <2>1. V \subseteq V
    OBVIOUS
  <2> QED BY <2>1, GoingIs, GoingLess DEF Listing
<1>2. Top(s) = f
  BY DEF Top
<1> HIDE DEF i
<1>3. Fine(f, V, away) /\ IsFrame(f) /\ \A j \in DOMAIN s.frame \ {i} : Fine(s.frame[j], V, away)
  BY <1>1 DEF Going, IsStack
<1>4. Linkage(h, f) /\ Content(h) = [Content(f) EXCEPT !.pc = f.trapPc]
  BY <1>3, Contents
<1>5. h.start = f.start /\ h.env = f.env /\ h.stack = f.stack /\ h.pc = f.trapPc /\ h.trapPc = f.trapPc
  <2> HIDE DEF h, f
  <2> QED BY <1>4 DEF Content
<1>6. [s EXCEPT !.frame[s.top].pc = Top(s).trapPc, !.frame[s.top].trapOn = FALSE] = t
  <2> DEFINE b == s.frame
  <2>1. /\ s = [frame |-> b, bottom |-> s.bottom, top |-> s.top, size |-> s.size]
        /\ b = [j \in DOMAIN b |-> b[j]] /\ i \in DOMAIN b
    BY <1>1 DEF IsStack
  <2>2. [b EXCEPT ![i] = g] = [[b EXCEPT ![i] = h] EXCEPT ![i] = g]
    BY <2>1
  <2> QED BY <1>2, <2>1, <2>2 DEF i, Top
<1> HIDE DEF h
<1>7. Linkage(g, h) /\ Content(g) = [Content(h) EXCEPT !.trapOn = FALSE]
  <2>1. IsFrame(h)
    BY <1>4 DEF Linkage
  <2> QED BY <2>1, Contents
<1>8. g.start = f.start /\ g.env = f.env /\ g.stack = f.stack /\ g.pc = f.trapPc /\ g.trapPc = f.trapPc
  <2> HIDE DEF g, f
  <2> QED BY <1>5, <1>7 DEF Content
<1>9. Linkage(g, f)
  BY <1>4, <1>7 DEF Linkage
<1> HIDE DEF g
<1>10. Fine(g, V, away)
  BY <1>2, <1>3, <1>8 DEF Fine
<1>11. Fares(s, t, s.size, s.size, {}, V, away)
  BY <1>1, <1>3, <1>8, <1>9, <1>10, Refit
<1> QED BY <1>6, <1>11
-----------------------------------------------------------------------------
(* LIFT, one value at a time.                                              *)
Lifts(s, c, n, f) ==
    f = [k \in 0 .. n |-> IF k = 0 THEN Next1(s)
                          ELSE PopOff(PushOn(f[k - 1], c, Last(Top(f[k - 1]).stack)), Next1(s).top)]

(* There is such a function; it is the one in Lifted.                      *)
LEMMA LiftsExist ==
    ASSUME NEW s, NEW c, NEW n \in Nat
    PROVE  \E f : Lifts(s, c, n, f)
<1> DEFINE Good(m) == \E f : Lifts(s, c, m, f)
           Then(x) == PopOff(PushOn(x, c, Last(Top(x).stack)), Next1(s).top)
<1>1. Good(0)
  <2> DEFINE f == [k \in 0 .. 0 |-> Next1(s)]
  <2>1. f = [k \in 0 .. 0 |-> IF k = 0 THEN Next1(s) ELSE Then(f[k - 1])]
    OBVIOUS
  <2> HIDE DEF f
  <2>2. Lifts(s, c, 0, f)
    BY <2>1 DEF Lifts
  <2> QED BY <2>2
<1>2. ASSUME NEW m \in Nat, Good(m) PROVE Good(m + 1)
  <2>1. PICK f : Lifts(s, c, m, f)
    BY <1>2
  <2> HIDE DEF Then
  <2>2. f = [k \in 0 .. m |-> IF k = 0 THEN Next1(s) ELSE Then(f[k - 1])]
    BY <2>1 DEF Lifts, Then
  <2> DEFINE g == [k \in 0 .. m + 1 |-> IF k = m + 1 THEN Then(f[k - 1]) ELSE f[k]]
  <2>3. \A k \in 0 .. m + 1 : g[k] = (IF k = m + 1 THEN Then(f[k - 1]) ELSE f[k])
    OBVIOUS
  <2>4. g = [k \in 0 .. m + 1 |-> g[k]]
    OBVIOUS
  <2> HIDE DEF g
  <2>5. ASSUME NEW k \in 0 .. m + 1 PROVE g[k] = (IF k = 0 THEN Next1(s) ELSE Then(g[k - 1]))
    <3>1. CASE k = 0
      <4>1. k # m + 1 /\ k \in 0 .. m
        BY <3>1
      <4> QED BY <2>2, <2>3, <3>1, <4>1
    <3>2. CASE k # 0
      <4>1. k - 1 \in 0 .. m + 1 /\ k - 1 # m + 1 /\ k - 1 \in 0 .. m
        BY <3>2
      <4>2. g[k - 1] = f[k - 1]
        BY <2>3, <4>1
      <4>3. CASE k = m + 1
        BY <2>3, <4>2, <4>3, <3>2
      <4>4. CASE k # m + 1
        <5>1. k \in 0 .. m
          BY <4>4
        <5> QED BY <2>2, <2>3, <3>2, <4>2, <4>4, <5>1
      <4> QED BY <4>3, <4>4
    <3> QED BY <3>1, <3>2
  <2>6. g = [k \in 0 .. m + 1 |-> IF k = 0 THEN Next1(s) ELSE Then(g[k - 1])]
    BY <2>4, <2>5
  <2>7. Lifts(s, c, m + 1, g)
    BY <2>6 DEF Lifts, Then
  <2> QED BY <2>7
<1> HIDE DEF Good
<1>3. ASSUME NEW b \in Nat, ~ Good(b) PROVE FALSE
  <2> DEFINE bad == {m \in Nat : ~ Good(m)}
  <2>1. b \in bad /\ bad \in SUBSET Nat
    BY <1>3
  <2>2. PICK m \in bad : \A k \in bad : m <= k
    BY <2>1, Least
  <2>3. m # 0 /\ m \in Nat /\ ~ Good(m)
    BY <1>1
  <2>4. m - 1 \in Nat /\ (m - 1) + 1 = m /\ ~ (m <= m - 1)
    BY <2>3
  <2>5. Good(m - 1)
    BY <2>2, <2>4
  <2>6. Good((m - 1) + 1)
    BY <1>2, <2>4, <2>5
  <2> QED BY <2>3, <2>4, <2>6
<1> QED BY <1>3 DEF Good

(* LIFT moves values from the top to its caller.                           *)
LEMMA LiftFares ==
    ASSUME NEW V, NEW home, Going(stack, V, home), stack.size # 0, Caller(stack) # Nil, NEW n \in Nat,
           Len(T.stack) >= n
    PROVE  Fares(stack, Lifted(n), stack.size, stack.size, {}, V, home)
<1> DEFINE s == stack
           u == Next1(s)
           c == Caller(u)
           i == u.top
           N == s.size
           L == Len(T.stack)
           F == CHOOSE f : f = [k \in 0 .. n |-> IF k = 0 THEN u
                          ELSE PopOff(PushOn(f[k - 1], c, Last(Top(f[k - 1]).stack)), i)]
<1>1. Fares(s, u, N, N, {}, V, home) /\ SameLinks(s, u) /\ \A j \in DOMAIN s.frame : u.frame[j].stack = s.frame[j].stack
  BY Next1Fares
<1>2. N \in Nat /\ i \in DOMAIN s.frame /\ c \in DOMAIN s.frame /\ c # i /\ i = s.top
  <2>1. Caller(s) \in DOMAIN s.frame /\ Caller(s) # s.top /\ s.top \in DOMAIN s.frame /\ N \in Nat
    BY CallerIs, GoingIs
  <2>2. u.top = s.top /\ u.frame[s.top].prev = s.frame[s.top].prev
    BY <1>1, <2>1 DEF SameLinks, Linkage
  <2> QED BY <2>1, <2>2 DEF Caller, Top
<1>3. L \in Nat /\ Fine(s.frame[i], V, home) /\ L = Len(s.frame[i].stack) /\ L >= n
  <2>1. T = s.frame[i]
    BY <1>2 DEF T, Top
  <2>2. Fine(s.frame[i], V, home)
    BY <1>2 DEF Going
  <2>3. Len(s.frame[i].stack) \in Nat
    BY <2>2, ValuesSeq DEF Fine
  <2> QED BY <2>1, <2>2, <2>3
<1>4. \E f : Lifts(s, c, n, f)
  BY LiftsExist, Zenon
<1>5. F = [k \in 0 .. n |-> IF k = 0 THEN u ELSE PopOff(PushOn(F[k - 1], c, Last(Top(F[k - 1]).stack)), i)]
  BY <1>4 DEF Lifts
<1>6. Lifted(n) = F[n]
  BY DEF Lifted
<1> HIDE DEF F, L
<1> DEFINE Claim(k) == /\ Fares(s, F[k], N, N, {}, V, home) /\ SameLinks(s, F[k])
                       /\ Len(F[k].frame[i].stack) = L - k
<1>7. Claim(0)
  <2>1. F[0] = u /\ L - 0 = L
    BY <1>3, <1>5
  <2> QED BY <2>1, <1>1, <1>2, <1>3
<1>8. ASSUME NEW k \in 0 .. n, k # 0, Claim(k - 1) PROVE Claim(k)
  <2> DEFINE x == F[k - 1]
             v == Last(Top(x).stack)
             y == PushOn(x, c, v)
             z == PopOff(y, i)
  <2>1. F[k] = z
    BY <1>5, <1>8
  <2>2. k - 1 \in Nat /\ L - (k - 1) # 0 /\ (L - (k - 1)) - 1 = L - k /\ L - (k - 1) \in Nat
    <3>1. L \in Nat /\ L >= n /\ n \in Nat /\ k \in 0 .. n /\ k # 0
      BY <1>3, <1>8
    <3> QED BY ONLY <3>1
  <2>3. Fares(s, x, N, N, {}, V, home) /\ SameLinks(s, x) /\ Len(x.frame[i].stack) = L - (k - 1)
    BY <1>8
  <2> HIDE DEF x
  <2>4. Going(x, V, home) /\ x.size = N /\ i \in DOMAIN x.frame /\ c \in DOMAIN x.frame /\ x.top = i
    BY <1>2, <2>3 DEF Fares, SameLinks
  <2>5. v \in V
    <3>1. x.frame[i].stack \in Seq(V)
      BY <2>4 DEF Going, Fine
    <3>2. x.frame[i].stack # <<>>
      BY <2>2, <2>3, <3>1, ValuesSeq
    <3> QED BY <2>4, <3>1, <3>2, ValuesSeq DEF Top
  <2> HIDE DEF v
  <2>6. /\ Fares(x, y, x.size, x.size, {}, V, home) /\ SameLinks(x, y)
        /\ \A j \in DOMAIN x.frame \ {c} : y.frame[j] = x.frame[j]
    BY <2>4, <2>5, PushOnFares
  <2> HIDE DEF y
  <2>7. Going(y, V, home) /\ y.size = N /\ i \in DOMAIN y.frame /\ y.frame[i] = x.frame[i]
    BY <1>2, <2>4, <2>6 DEF Fares, SameLinks
  <2>8. y.frame[i].stack \in Seq(V) /\ Len(y.frame[i].stack) = L - (k - 1)
    BY <2>3, <2>7 DEF Going, Fine
  <2>9. y.frame[i].stack # <<>>
    BY <2>2, <2>8, ValuesSeq
  <2>10. /\ Fares(y, z, y.size, y.size, {}, V, home) /\ SameLinks(y, z)
         /\ z.frame[i].stack = Front(y.frame[i].stack)
    BY <2>7, <2>9, PopOffFares
  <2> HIDE DEF z
  <2>11. Len(z.frame[i].stack) = L - k
    BY <2>2, <2>8, <2>9, <2>10, ValuesSeq
  <2>12. SameLinks(s, z)
    BY <2>3, <2>6, <2>10, SameLinksTrans
  <2>13. Fares(s, y, N, N, {} \cup {}, V, home)
    BY <1>2, <2>3, <2>4, <2>6, FaresTrans
  <2>14. Fares(s, z, N, N, ({} \cup {}) \cup {}, V, home)
    BY <1>2, <2>7, <2>10, <2>13, FaresTrans
  <2>15. ({} \cup {}) \cup {} = {}
    OBVIOUS
  <2> QED BY <2>1, <2>11, <2>12, <2>14, <2>15
<1> HIDE DEF Claim
<1>9. ASSUME NEW b \in 0 .. n, ~ Claim(b) PROVE FALSE
  <2> DEFINE bad == {m \in 0 .. n : ~ Claim(m)}
  <2>1. b \in bad /\ bad \in SUBSET Nat
    BY <1>9
  <2>2. PICK m \in bad : \A k \in bad : m <= k
    BY <2>1, Least
  <2>3. m # 0 /\ m \in 0 .. n /\ ~ Claim(m)
    BY <1>7
  <2>4. m - 1 \in 0 .. n /\ ~ (m <= m - 1)
    BY <2>3
  <2>5. Claim(m - 1)
    BY <2>2, <2>4
  <2>6. Claim(m)
    BY <1>8, <2>3, <2>5
  <2> QED BY <2>3, <2>6
<1>10. n \in 0 .. n
  OBVIOUS
<1>11. Claim(n)
  BY <1>9, <1>10
<1> QED BY <1>6, <1>11 DEF Claim
-----------------------------------------------------------------------------
(* What the snapshot keeps of a frame.                                     *)
Shot(f) == [pc |-> f.pc, args |-> f.args, trapPc |-> f.trapPc, trapOn |-> f.trapOn, stack |-> Transport(f.stack)]

(* It has the pc of the frame, and values that were there.                 *)
LEMMA ShotIs ==
    ASSUME NEW V, NEW home, NEW f, Fine(f, V, home)
    PROVE  Snapped(Shot(f), V) /\ Shot(f).pc = f.pc
  <1> DEFINE a == f.stack
             b == Transport(a)
  <1>1. a \in Seq(V) /\ Len(a) \in Nat /\ \A k \in 1 .. Len(a) : Last(a) \in V
    <2>1. a \in Seq(V) /\ Len(a) \in Nat
      BY ValuesSeq DEF Fine
    <2>2. \A k \in 1 .. Len(a) : Len(a) \in 1 .. Len(a)
      BY <2>1
    <2> QED BY <2>1, <2>2 DEF Last
  <1> HIDE DEF a
  <1>2. b = [k \in 1 .. Len(a) |-> b[k]] /\ \A k \in 1 .. Len(a) : b[k] \in V
    BY <1>1 DEF Transport
  <1> HIDE DEF b
  <1>3. b \in Seq(V)
    BY <1>1, <1>2, IsSequence
  <1>4. Shot(f) = [pc |-> f.pc, args |-> f.args, trapPc |-> f.trapPc, trapOn |-> f.trapOn, stack |-> b]
    BY DEF Shot, a, b
  <1>5. Pair(f.pc) /\ Pair(f.trapPc)
    BY DEF Fine
  <1> QED BY <1>3, <1>4, <1>5 DEF Snapped

(* The snapshot of the stack fits the stack.                               *)
LEMMA SnapshotIs ==
    ASSUME NEW s, NEW V, NEW home, Going(s, V, home)
    PROVE  /\ AllSnapped(Snapshot(s), V) /\ Len(Snapshot(s)) = s.size
           /\ \A k \in 1 .. s.size : Snapshot(s)[k].pc = s.frame[Frames(s)[k]].pc
           /\ home => AtHome(Snapshot(s), s, s.size)
<1> DEFINE q == Frames(s)
           n == s.size
           x == Snapshot(s)
<1>1. n \in Nat /\ Len(q) = n /\ \A k \in 1 .. n : q[k] \in DOMAIN s.frame /\ Fine(s.frame[q[k]], V, home)
  BY GoingIs DEF Going
<1>2. x = [k \in 1 .. n |-> Shot(s.frame[q[k]])]
  BY <1>1 DEF Snapshot, Shot
<1> HIDE DEF x, q, n
<1>3. x = [k \in 1 .. n |-> x[k]] /\ \A k \in 1 .. n : x[k] = Shot(s.frame[q[k]]) /\ x[k] \in {x[j] : j \in 1 .. n}
  BY <1>2
<1>4. Len(x) = n /\ DOMAIN x = 1 .. n
  BY <1>1, <1>3, IsSequence
<1>7. \A k \in 1 .. n : Snapped(x[k], V) /\ x[k].pc = s.frame[q[k]].pc
  <2> SUFFICES ASSUME NEW k \in 1 .. n PROVE Snapped(x[k], V) /\ x[k].pc = s.frame[q[k]].pc
    OBVIOUS
  <2> DEFINE f == s.frame[q[k]]
  <2>1. x[k] = Shot(f) /\ Fine(f, V, home)
    BY <1>1, <1>3
  <2> HIDE DEF f
  <2>2. Snapped(Shot(f), V)
    BY <2>1, ShotIs
  <2> QED BY <2>1, <2>2, ShotIs DEF f
<1>8. AllSnapped(x, V)
  BY <1>1, <1>4, <1>7 DEF AllSnapped
<1>9. home => AtHome(x, s, n)
  BY <1>1, <1>7 DEF AtHome, Fine, q, n
<1> QED BY <1>4, <1>7, <1>8, <1>9 DEF x, n, q

(* A snapshot with other traps.                                            *)
Patched(p, snap, W) == /\ AllSnapped(p, W) /\ Len(p) = Len(snap)
                       /\ \A k \in 1 .. Len(snap) : p[k].pc = snap[k].pc /\ p[k].stack = snap[k].stack

(* PatchTraps leaves the rest of the snapshot.                             *)
LEMMA PatchIs ==
    ASSUME NEW s, NEW V, NEW home, Going(s, V, home), NEW snap, NEW W, AllSnapped(snap, W)
    PROVE  Patched(PatchTraps(s, snap), snap, W)
<1> DEFINE q == Frames(s)
           N == Len(snap)
           p == PatchTraps(s, snap)
<1>1. /\ Len(q) \in Nat /\ Len(q) = s.size
      /\ \A k \in 1 .. Len(q) : q[k] \in DOMAIN s.frame /\ Pair(s.frame[q[k]].trapPc)
  BY GoingIs DEF Going, Fine
<1>2. N \in Nat /\ \A k \in 1 .. N : Snapped(snap[k], W)
  BY DEF AllSnapped
<1>3. p = [k \in 1 .. N |-> p[k]]
      /\ \A k \in 1 .. N : p[k] = (IF k <= Len(q) THEN [snap[k] EXCEPT !.trapPc = s.frame[q[k]].trapPc] ELSE snap[k])
  BY DEF PatchTraps
<1> HIDE DEF p, q, N
<1>4. ASSUME NEW k \in 1 .. N PROVE Snapped(p[k], W) /\ p[k].pc = snap[k].pc /\ p[k].stack = snap[k].stack
  <2>1. CASE k <= Len(q)
    <3> DEFINE x == snap[k]
               a == s.frame[q[k]].trapPc
    <3>1. p[k] = [x EXCEPT !.trapPc = a]
      BY <2>1, <1>3
    <3>2. Pair(a) /\ Snapped(x, W)
      BY <2>1, <1>1, <1>2
    <3> HIDE DEF x, a
    <3>3. x = [pc |-> x.pc, args |-> x.args, trapPc |-> x.trapPc, trapOn |-> x.trapOn, stack |-> x.stack]
      BY <3>2 DEF Snapped
    <3>4. p[k] = [pc |-> x.pc, args |-> x.args, trapPc |-> a, trapOn |-> x.trapOn, stack |-> x.stack]
      BY <3>1, <3>3
    <3> QED BY <3>2, <3>4 DEF Snapped, x
  <2>2. CASE ~ (k <= Len(q))
    BY <2>2, <1>2, <1>3
  <2> QED BY <2>1, <2>2
<1>5. Len(p) = N /\ DOMAIN p = 1 .. N
  <2>1. \A k \in 1 .. N : p[k] \in {p[j] : j \in 1 .. N}
    OBVIOUS
  <2> QED BY <1>2, <1>3, <2>1, IsSequence
<1>6. Patched(p, snap, W)
  BY <1>2, <1>4, <1>5 DEF AllSnapped, N, Patched
<1> QED BY <1>6 DEF p
-----------------------------------------------------------------------------
(* The values there are, and function objects with values of V in them.    *)
Worths(L) == {Num(0), Num(1), Null} \cup {Fn(g) : g \in L}
IsFunc(g, V) ==
    /\ g = [kind |-> g.kind, address |-> g.address, cached |-> g.cached, env |-> g.env, snap |-> g.snap,
            turningPoint |-> g.turningPoint, item |-> g.item]
    /\ Pair(g.address) /\ g.cached \in Seq(V) /\ AllSnapped(g.snap, V) /\ g.turningPoint \in Nat
    /\ g.kind = "cont" => Len(g.snap) # 0

(* No more frames survive than the snapshot has, or than the stack has     *)
(* always had since.                                                       *)
LEMMA PreservedIs ==
    ASSUME NEW f, NEW V, IsFunc(funcs[f], V)
    PROVE  /\ Preserved(f) \in Nat /\ Preserved(f) <= Len(funcs[f].snap) /\ Preserved(f) <= funcs[f].turningPoint
           /\ Len(funcs[f].snap) \in Nat
  BY DEF Preserved, IsFunc, AllSnapped

(* A continuation is called.                                               *)
LEMMA GoBackFares ==
    ASSUME NEW V, NEW home, Going(stack, V, home), stack.size # 0, NEW f, IsFunc(funcs[f], V), funcs[f].kind = "cont",
           Preserved(f) <= stack.size, home => AtHome(funcs[f].snap, stack, Preserved(f)), NEW n, NEW op
    PROVE  LET N == Len(funcs[f].snap)
               s == Finish(op, GoBack(f, n))
           IN /\ \E X : Fares(stack, s, IF TailOp(op) THEN 0 ELSE Preserved(f),
                              IF TailOp(op) THEN N ELSE N + 1, X, V, home)
              /\ ~ TailOp(op) => Wound(funcs[f].snap, Preserved(f), s)
<1> DEFINE u == Next1(stack)
           snap == PatchTraps(u, funcs[f].snap)
           low == Preserved(f)
           N == Len(funcs[f].snap)
           k == stack.size
           envs == [j \in 1 .. Len(snap) |-> NewKernel(j)]
           a == funcs[f].address
           e == NewKernel(Len(snap) + 1)
           main == <<"main", 0>>
           t == GoBack(f, n)
<1>1. Fares(stack, u, k, k, {}, V, home)
  BY Next1Fares
<1>2. k \in Nat /\ low \in Nat /\ N \in Nat /\ low <= N /\ N # 0 /\ low <= k /\ Pair(a) /\ Pair(main)
      /\ AllSnapped(funcs[f].snap, V)
  BY PreservedIs, GoingIs DEF IsFunc, Pair
<1>3. t = PushNew(SetTrap(Restore(Crush(u, low), snap, low, envs), snap), New(a, n, main, FALSE, e))
  BY DEF GoBack
<1> HIDE DEF u, main
<1>4. Going(u, V, home) /\ u.size = k
  BY <1>1 DEF Fares
<1>5. /\ AllSnapped(snap, V) /\ Len(snap) = N
      /\ \A j \in 1 .. N : snap[j].pc = funcs[f].snap[j].pc /\ snap[j].stack = funcs[f].snap[j].stack
  BY <1>2, <1>4, PatchIs, ZenonT(40) DEF Patched, N
<1> HIDE DEF snap, envs, low, e, N, a, k
<1>6. home => AtHome(snap, u, low)
  <2>1. AtHome(funcs[f].snap, stack, low) => AtHome(snap, u, low)
    <3>1. \A j \in 1 .. low : j \in 1 .. N /\ j \in 1 .. k
      BY <1>2
    <3>2. ASSUME AtHome(funcs[f].snap, stack, low), NEW j \in 1 .. low
          PROVE  snap[j].pc[1] = u.frame[Frames(u)[j]].start[1]
      <4>1. Frames(u)[j] = Frames(stack)[j] /\ u.frame[Frames(stack)[j]].start = stack.frame[Frames(stack)[j]].start
        BY <3>1, <1>1 DEF Fares
      <4>2. snap[j].pc = funcs[f].snap[j].pc
        BY <3>1, <1>5
      <4>3. funcs[f].snap[j].pc[1] = stack.frame[Frames(stack)[j]].start[1]
        BY <3>2 DEF AtHome
      <4> QED BY <4>1, <4>2, <4>3
    <3> QED BY <3>2 DEF AtHome
  <2> QED BY <2>1 DEF low
<1> HIDE DEF t
<1>7. Fares(u, t, low, N + 1, Envs(t), V, home) /\ Wound(snap, low, t)
  <2>1. Len(snap) # 0 /\ low <= Len(snap) /\ low <= u.size
    BY <1>2, <1>4, <1>5
  <2>2. LET y == PushNew(SetTrap(Restore(Crush(u, low), snap, low, envs), snap), New(a, n, main, FALSE, e))
        IN Fares(u, y, low, Len(snap) + 1, Envs(y), V, home) /\ Wound(snap, low, y)
    BY <1>2, <1>4, <1>5, <1>6, <2>1, WindFares
  <2> QED BY <1>3, <1>5, <2>2
<1>8. Fares(stack, t, low, N + 1, {} \cup Envs(t), V, home)
  BY <1>1, <1>2, <1>7, FaresTrans
<1>9. Wound(funcs[f].snap, low, t)
  BY <1>2, <1>5, <1>7 DEF Wound, N
<1> DEFINE X == {} \cup Envs(t)
<1>10. Fares(stack, Finish(op, t), IF TailOp(op) THEN 0 ELSE low, IF TailOp(op) THEN (N + 1) - 1 ELSE N + 1, X, V, home)
  <2>1. N + 1 \in Nat /\ N + 1 >= 2
    BY <1>2
  <2>2. Fares(stack, t, low, N + 1, X, V, home)
    BY <1>8
  <2> HIDE DEF X
  <2> QED BY ONLY <1>2, <2>1, <2>2, FinishFares
<1>11. (N + 1) - 1 = N
  BY <1>2
<1>12. ~ TailOp(op) => Finish(op, t) = t
  BY DEF Finish
<1> HIDE DEF X
<1> QED BY <1>9, <1>10, <1>11, <1>12 DEF t, N, low
=============================================================================
