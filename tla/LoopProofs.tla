------------------------------ MODULE LoopProofs ------------------------------
(***************************************************************************)
(* Theorems about the loop of the machine and the events that hosts raise. *)
(* Scheduler.tla: whatever the threads execute, the loop has a current     *)
(* thread at the head of each iteration, except after the last debugger    *)
(* thread has returned, and it ends only when no thread is left.  Below,   *)
(* ExternalEvents.tla: no argument of a call is lost, there is a thread    *)
(* for each raise, and a host thread that polls gets its calls through     *)
(* whole, whatever the other hosts do, whenever callbacks are installed    *)
(* and however often the loop ends and runs again.                         *)
(***************************************************************************)
EXTENDS Scheduler, ExternalEvents, SequenceTheorems, FiniteSetTheorems, TLAPS

(* A set of numbers has a first one.                                       *)
LEMMA First ==
    ASSUME NEW S \in SUBSET Nat, S # {}
    PROVE  FirstOf(S) \in S
<1> DEFINE R == {p \in Nat \X Nat : p[1] < p[2]}
<1>1. IsWellFoundedOn(R, Nat)
  BY NatLessThanWellFounded DEF OpToRel, IsWellFoundedOn
<1>2. PICK m \in S : \A n \in S : ~ (<<n, m>> \in R)
  BY <1>1, WFMin
<1>3. ASSUME NEW n \in S PROVE m <= n
  <2>1. m \in Nat /\ n \in Nat
    OBVIOUS
  <2>2. ~ (n < m)
    BY <1>2, <2>1
  <2> QED BY <2>1, <2>2
<1> QED BY <1>3 DEF FirstOf

(* A list of threads without repetitions, and what happens to it.          *)
List(list) == list \in Seq(Tid) /\ IsInjective(list)

LEMMA Elements ==
    ASSUME NEW list \in Seq(Tid)
    PROVE  /\ ToSet(list) \subseteq Tid
           /\ \A t : t \in ToSet(list) <=> \E i \in 1 .. Len(list) : list[i] = t
           /\ list = <<>> <=> ToSet(list) = {}
           /\ list # <<>> => list[1] \in ToSet(list)
<1>1. Len(list) \in Nat /\ DOMAIN list = 1 .. Len(list) /\ \A i \in 1 .. Len(list) : list[i] \in Tid
  OBVIOUS
<1>2. list # <<>> => 1 \in 1 .. Len(list)
  <2>1. Len(list) = 0 => list = <<>>
    OBVIOUS
  <2> QED BY <1>1, <2>1
<1>3. list = <<>> => ToSet(list) = {}
  BY DEF ToSet
<1> QED BY <1>1, <1>2, <1>3 DEF ToSet

LEMMA Placed ==
    ASSUME NEW list \in Seq(Tid), NEW t \in ToSet(list)
    PROVE  Place(t, list) \in 1 .. Len(list) /\ list[Place(t, list)] = t
<1>1. \E i \in DOMAIN list : list[i] = t
  BY DEF ToSet
<1> QED BY <1>1 DEF Place

LEMMA Appended ==
    ASSUME NEW list, List(list), NEW t \in Tid, t \notin ToSet(list)
    PROVE  /\ List(Append(list, t)) /\ ToSet(Append(list, t)) = ToSet(list) \union {t}
           /\ list \o <<t>> = Append(list, t) /\ Append(list, t) # <<>>
<1> DEFINE new == Append(list, t)
<1>1. /\ new \in Seq(Tid) /\ new # <<>> /\ Len(new) = Len(list) + 1 /\ Len(list) \in Nat
      /\ \A i \in 1 .. Len(list) : new[i] = list[i]
      /\ new[Len(list) + 1] = t /\ list \o <<t>> = new
  BY AppendProperties, AppendIsConcat DEF List
<1> HIDE DEF new
<1>2. \A i \in 1 .. Len(list) : list[i] # t
  BY Elements DEF List
<1>3. \A i \in 1 .. Len(new) : i \in 1 .. Len(list) \/ i = Len(list) + 1
  BY <1>1
<1>4. IsInjective(new)
  <2>1. SUFFICES ASSUME NEW a \in 1 .. Len(new), NEW b \in 1 .. Len(new), new[a] = new[b]
                 PROVE  a = b
    BY <1>1 DEF IsInjective
  <2>2. CASE a \in 1 .. Len(list) /\ b \in 1 .. Len(list)
    <3>1. list[a] = list[b] /\ DOMAIN list = 1 .. Len(list)
      BY <1>1, <2>1, <2>2 DEF List
    <3> QED BY <2>2, <3>1 DEF List, IsInjective
  <2>3. CASE a = Len(list) + 1 \/ b = Len(list) + 1
    BY <1>1, <1>2, <1>3, <2>1, <2>3
  <2> QED BY <1>3, <2>2, <2>3
<1>5. \A u : u \in ToSet(new) <=> u \in ToSet(list) \/ u = t
  <2>1. \A u : u \in ToSet(new) <=> \E i \in 1 .. Len(new) : new[i] = u
    BY <1>1, Elements
  <2>2. \A u : u \in ToSet(list) <=> \E i \in 1 .. Len(list) : list[i] = u
    BY Elements DEF List
  <2>3. Len(list) + 1 \in 1 .. Len(new) /\ \A i \in 1 .. Len(list) : i \in 1 .. Len(new)
    BY <1>1
  <2>4. ASSUME NEW u, u \in ToSet(new) PROVE u \in ToSet(list) \/ u = t
    BY <1>1, <1>3, <2>1, <2>2, <2>4
  <2>5. ASSUME NEW u, u \in ToSet(list) \/ u = t PROVE u \in ToSet(new)
    BY <1>1, <2>1, <2>2, <2>3, <2>5
  <2> QED BY <2>4, <2>5
<1> QED BY <1>1, <1>4, <1>5 DEF List, new

LEMMA Removed ==
    ASSUME NEW list, List(list), NEW t \in ToSet(list)
    PROVE  List(Without(t, list)) /\ ToSet(Without(t, list)) = ToSet(list) \ {t}
<1> DEFINE p == Place(t, list)
           n == Len(list)
           rest == Without(t, list)
           from(i) == IF i < p THEN i ELSE i + 1
<1>1. p \in 1 .. n /\ list[p] = t /\ n \in Nat /\ list \in Seq(Tid)
  BY Placed DEF List
<1> HIDE DEF p
<1>2. /\ SubSeq(list, 1, p - 1) \in Seq(Tid) /\ Len(SubSeq(list, 1, p - 1)) = p - 1
      /\ \A i \in 1 .. p - 1 : SubSeq(list, 1, p - 1)[i] = list[i]
  BY <1>1
<1>3. /\ SubSeq(list, p + 1, n) \in Seq(Tid) /\ Len(SubSeq(list, p + 1, n)) = n - p
      /\ \A i \in 1 .. n - p : SubSeq(list, p + 1, n)[i] = list[i + p]
  BY <1>1
<1>4. rest = SubSeq(list, 1, p - 1) \o SubSeq(list, p + 1, n)
  BY DEF Without, RemoveAt, p
<1> HIDE DEF rest
<1>5. /\ rest \in Seq(Tid) /\ Len(rest) = n - 1
      /\ \A i \in 1 .. n - 1 : rest[i] = list[from(i)]
  <2> DEFINE a == SubSeq(list, 1, p - 1)
             b == SubSeq(list, p + 1, n)
  <2> HIDE DEF a, b
  <2>1. a \in Seq(Tid) /\ b \in Seq(Tid) /\ rest = a \o b
        /\ Len(a) = p - 1 /\ Len(b) = n - p
        /\ (\A i \in 1 .. p - 1 : a[i] = list[i]) /\ \A i \in 1 .. n - p : b[i] = list[i + p]
    BY <1>2, <1>3, <1>4 DEF a, b
  <2>2. /\ rest \in Seq(Tid) /\ Len(rest) = Len(a) + Len(b)
        /\ \A i \in 1 .. Len(a) + Len(b) : rest[i] = IF i <= Len(a) THEN a[i] ELSE b[i - Len(a)]
    BY <2>1, ConcatProperties
  <2>3. Len(a) + Len(b) = n - 1
    BY <1>1, <2>1
  <2>4. ASSUME NEW i \in 1 .. n - 1 PROVE rest[i] = list[from(i)]
    <3>1. CASE i < p
      BY <1>1, <2>1, <2>2, <2>3, <3>1
    <3>2. CASE ~ (i < p)
      <4>1. i - (p - 1) \in 1 .. n - p /\ (i - (p - 1)) + p = i + 1 /\ ~ (i <= p - 1)
        BY <1>1, <3>2
      <4> QED BY <2>1, <2>2, <2>3, <3>2, <4>1
    <3> QED BY <3>1, <3>2
  <2> QED BY <2>2, <2>3, <2>4
<1>6. \A i \in 1 .. n - 1 : from(i) \in 1 .. n /\ from(i) # p
  BY <1>1
<1>7. \A i, j \in 1 .. n - 1 : from(i) = from(j) => i = j
  BY <1>1
<1>8. \A k \in 1 .. n : k # p => \E i \in 1 .. n - 1 : from(i) = k
  <2>1. ASSUME NEW k \in 1 .. n, k # p PROVE \E i \in 1 .. n - 1 : from(i) = k
    <3>1. CASE k < p
      BY <1>1, <3>1
    <3>2. CASE k > p
      <4>1. k - 1 \in 1 .. n - 1 /\ from(k - 1) = k
        BY <1>1, <3>2
      <4> QED BY <4>1
    <3> QED BY <1>1, <2>1, <3>1, <3>2
  <2> QED BY <2>1
<1> HIDE DEF from, n
<1>9. \A i, j \in 1 .. n : list[i] = list[j] => i = j
  BY <1>1 DEF List, IsInjective, n
<1>10. IsInjective(rest)
  <2>1. DOMAIN rest = 1 .. n - 1
    BY <1>5
  <2>2. ASSUME NEW i \in 1 .. n - 1, NEW j \in 1 .. n - 1, rest[i] = rest[j] PROVE i = j
    BY <1>5, <1>6, <1>7, <1>9, <2>2
  <2> QED BY <2>1, <2>2 DEF IsInjective
<1>11. \A u : u \in ToSet(rest) <=> \E i \in 1 .. n - 1 : rest[i] = u
  BY <1>5, Elements
<1>12. \A u : u \in ToSet(list) <=> \E i \in 1 .. n : list[i] = u
  BY <1>1, Elements DEF n
<1>13. ASSUME NEW u, u \in ToSet(rest) PROVE u \in ToSet(list) /\ u # t
  BY <1>1, <1>5, <1>6, <1>9, <1>11, <1>12, <1>13
<1>14. ASSUME NEW u, u \in ToSet(list), u # t PROVE u \in ToSet(rest)
  <2>1. PICK k \in 1 .. n : list[k] = u
    BY <1>12, <1>14
  <2>2. PICK i \in 1 .. n - 1 : from(i) = k
    BY <1>1, <1>8, <1>14, <2>1
  <2> QED BY <1>5, <1>11, <2>1, <2>2
<1> QED BY <1>5, <1>10, <1>13, <1>14 DEF List, rest

(* The next thread is one of the list, if the old one is; it is the old    *)
(* one only if no other is eligible.                                       *)
LEMMA NextThreadInList ==
    ASSUME NEW list \in Seq(Tid), NEW old, NEW types, NEW dbg
    PROVE  LET next == NextThread(old, list, types, dbg)
           IN  \/ next \in ToSet(list) /\ next # old
               \/ /\ next = old
                  /\ \A t \in ToSet(list) :
                        t # old => types[t] # IF dbg THEN "DEBUGGER" ELSE "NORMAL"
<1> DEFINE others == Others(old, list, types, dbg)
           behind == {i \in others : i > Place(old, list)}
           chosen == IF behind # {} THEN behind ELSE others
<1>1. others \in SUBSET Nat /\ \A i \in others : list[i] \in ToSet(list) /\ list[i] # old
  BY DEF Others, ToSet
<1>2. chosen \in SUBSET Nat /\ chosen \subseteq others /\ (others # {} => chosen # {})
  BY <1>1
<1>3. CASE others = {}
  <2>1. \A t \in ToSet(list) : t # old => types[t] # IF dbg THEN "DEBUGGER" ELSE "NORMAL"
    BY <1>3 DEF Others, ToSet
  <2> QED BY <1>3, <2>1 DEF NextThread
<1>4. CASE others # {}
  <2>1. NextThread(old, list, types, dbg) = list[FirstOf(chosen)]
    BY <1>4 DEF NextThread
  <2> HIDE DEF chosen
  <2>2. FirstOf(chosen) \in others
    BY <1>2, <1>4, First
  <2> QED BY <1>1, <2>1, <2>2
<1> QED BY <1>3, <1>4

-----------------------------------------------------------------------------
(* An id that no thread has is kept at the values of a new thread, and     *)
(* before the debugger starts there is no debugger thread.                 *)
UnbornAreNormal == \A t \in Tid \ Alive : type[t] = "NORMAL"
NoDebuggerYet == ~debug => \A t \in Tid : type[t] = "NORMAL"

SchedInv == LoopConsistent /\ UnbornAreNormal /\ NoDebuggerYet

Types == [Tid -> {"NORMAL", "DEBUGGER"}]
States == [Tid -> {"NORMAL", "SUSPENDED"}]
Retries == {None} \union {WaitFor(u) : u \in Tid \union {Ended}} \union {LockOf(m) : m \in Mutexes}

(* An instruction may leave this behind for the rest of the iteration.     *)
Lost(list, types, dbg) == dbg /\ \A t \in ToSet(list) : types[t] = "NORMAL"
Left(list, cur, types, dbg) ==
    /\ List(list)
    /\ types \in Types /\ \A t \in Tid : t \notin Alive /\ t \notin ToSet(list) => types[t] = "NORMAL"
    /\ list = <<>> \/ cur \in ToSet(list) \/ Lost(list, types, dbg)

(* The thread of a destructor has an id that no other has. *)
LEMMA Destructor ==
    ASSUME NEW list, List(list), NEW extra \in MayDestruct(list)
    PROVE  \/ extra = <<>> /\ list \o extra = list
           \/ \E t \in Tid : /\ t \notin Alive /\ t \notin ToSet(list) /\ extra = <<t>>
                             /\ list \o extra = Append(list, t) /\ List(Append(list, t))
                             /\ ToSet(Append(list, t)) = ToSet(list) \union {t}
                             /\ Append(list, t) # <<>>
<1>1. CASE extra = <<>>
  BY <1>1, ConcatEmptySeq DEF List
<1>2. CASE extra # <<>>
  <2>1. Unused(list) # {} /\ extra = <<NewId(list)>>
    BY <1>2 DEF MayDestruct
  <2>2. Unused(list) \in SUBSET Nat
    BY SchedulerAssumption DEF Unused, Tid
  <2>3. NewId(list) \in Unused(list)
    BY <2>1, <2>2, First DEF NewId
  <2>4. NewId(list) \in Tid /\ NewId(list) \notin Alive /\ NewId(list) \notin ToSet(list)
    BY <2>3 DEF Unused
  <2> QED BY <2>1, <2>4, Appended
<1> QED BY <1>1, <1>2

(* The rest of the iteration keeps a current thread. *)
LEMMA EndKeeps ==
    ASSUME NEW list, NEW cur, NEW blocked, NEW types, NEW dbg, step \in 0 .. TimeSlice,
           ended \in BOOLEAN,
           Left(list, cur, types, dbg), EndIteration(list, cur, blocked, types, dbg)
    PROVE  /\ List(threads')
           /\ \A t \in Tid : t \in ToSet(threads') => t \in ToSet(list) \/ types[t] = "NORMAL"
           /\ ToSet(list) \subseteq ToSet(threads')
           /\ tp' \in Tid \union {Ended, NULL}
           /\ step' \in 0 .. TimeSlice
           /\ ended' \in BOOLEAN
           /\ status' \in {"running", "done"}
           /\ status' = "done" => threads' = <<>>
           /\ status' = "running" => \/ tp' \in ToSet(threads')
                                     \/ Lost(threads', types, dbg)
<1>0. List(list)
  BY DEF Left
<1>d. \A x \in MayDestruct(list) :
        \/ x = <<>> /\ list \o x = list
        \/ \E t \in Tid : /\ t \notin Alive /\ t \notin ToSet(list) /\ x = <<t>>
                          /\ list \o x = Append(list, t) /\ List(Append(list, t))
                          /\ ToSet(Append(list, t)) = ToSet(list) \union {t}
                          /\ Append(list, t) # <<>>
  BY <1>0, Destructor
<1> DEFINE end(last, extra) ==
      LET list1 == list \o last
          cur1 == IF list = <<>> THEN Begin(list1) ELSE cur
          expired == step + 1 >= TimeSlice
          next == IF list1 # <<>> /\ cur1 \notin ToSet(list1) THEN Ended
                  ELSE IF list1 # <<>> /\ (blocked \/ expired)
                  THEN NextThread(cur1, list1, types, dbg) ELSE cur1
      IN /\ threads' = list1 \o extra
         /\ tp' = next
         /\ step' = IF ~expired THEN step + 1 ELSE IF blocked THEN TimeSlice ELSE 0
         /\ ended' = (ended \/ ~(Alive \subseteq ToSet(list)))
         /\ status' = IF list1 = <<>> THEN "done" ELSE "running"
<1>1. PICK last \in IF list = <<>> THEN MayDestruct(list) ELSE {<<>>} :
      \E extra \in {<<>>} \union MayDestruct(list \o last) :
          end(last, extra) /\ (list \o last = <<>> => extra = <<>>)
  BY DEF EndIteration
<1> DEFINE list1 == list \o last
           cur1 == IF list = <<>> THEN Begin(list1) ELSE cur
           expired == step + 1 >= TimeSlice
           next == IF list1 # <<>> /\ cur1 \notin ToSet(list1) THEN Ended
                   ELSE IF list1 # <<>> /\ (blocked \/ expired)
                   THEN NextThread(cur1, list1, types, dbg) ELSE cur1
<1>2. PICK extra \in {<<>>} \union MayDestruct(list1) :
          /\ threads' = list1 \o extra
          /\ tp' = next
          /\ step' = IF ~expired THEN step + 1 ELSE IF blocked THEN TimeSlice ELSE 0
          /\ ended' = (ended \/ ~(Alive \subseteq ToSet(list)))
          /\ status' = IF list1 = <<>> THEN "done" ELSE "running"
          /\ list1 = <<>> => extra = <<>>
  BY <1>1
<1> HIDE DEF end
<1>3. List(list) /\ list \in Seq(Tid) /\ list \o <<>> = list
  BY ConcatEmptySeq DEF Left, List
<1>4. /\ List(list1) /\ ToSet(list) \subseteq ToSet(list1)
      /\ \A t \in ToSet(list1) : t \in ToSet(list) \/ types[t] = "NORMAL"
      /\ \A t \in Tid : t \notin Alive /\ t \notin ToSet(list1) => types[t] = "NORMAL"
      /\ list # <<>> => list1 = list
  <2>1. CASE last = <<>>
    BY <1>3, <2>1 DEF Left
  <2>2. CASE last # <<>>
    <3>1. list = <<>> /\ last \in MayDestruct(list)
      BY <2>2
    <3>2. \E t \in Tid : /\ t \notin Alive /\ t \notin ToSet(list) /\ last = <<t>>
                         /\ list \o last = Append(list, t) /\ List(Append(list, t))
                         /\ ToSet(Append(list, t)) = ToSet(list) \union {t}
                         /\ Append(list, t) # <<>>
      BY <1>d, <2>2, <3>1
    <3>3. PICK t \in Tid : /\ t \notin Alive /\ t \notin ToSet(list)
                           /\ list1 = Append(list, t) /\ List(Append(list, t))
                           /\ ToSet(Append(list, t)) = ToSet(list) \union {t}
      BY <3>2
    <3> HIDE DEF list1
    <3> QED BY <3>1, <3>3 DEF Left
  <2> QED BY <2>1, <2>2
<1>5. list1 = <<>> \/ cur1 \in ToSet(list1) \/ Lost(list1, types, dbg)
  <2>1. CASE list = <<>>
    <3> HIDE DEF list1
    <3>1. list1 # <<>> => Begin(list1) \in ToSet(list1)
      BY <1>4, Elements DEF Begin, List
    <3> QED BY <2>1, <3>1
  <2>2. CASE list # <<>>
    BY <1>4, <2>2 DEF Left
  <2> QED BY <2>1, <2>2
<1>6. list1 = <<>> => cur1 = NULL
  <2>1. list1 = <<>> => list = <<>>
    BY <1>4
  <2> QED BY <2>1 DEF Begin
<1> HIDE DEF list1, cur1
<1>7. /\ list1 # <<>> => next \in ToSet(list1) \/ (next = Ended /\ Lost(list1, types, dbg))
      /\ next \in Tid \union {Ended, NULL}
  <2>1. ToSet(list1) \subseteq Tid
    BY <1>4, Elements DEF List
  <2>2. cur1 \in ToSet(list1) => NextThread(cur1, list1, types, dbg) \in ToSet(list1)
    BY <1>4, NextThreadInList DEF List
  <2> QED BY <1>5, <1>6, <2>1, <2>2
<1> HIDE DEF next
<1>8. /\ List(threads') /\ ToSet(list1) \subseteq ToSet(threads')
      /\ \A t \in ToSet(threads') : t \in ToSet(list1) \/ types[t] = "NORMAL"
      /\ list1 = <<>> => threads' = <<>>
  <2>1. list1 \o <<>> = list1
    BY <1>4, ConcatEmptySeq DEF List
  <2>2. CASE extra = <<>>
    BY <1>2, <1>4, <2>1, <2>2
  <2>3. CASE extra # <<>>
    <3>1. PICK t \in Tid : /\ t \notin Alive /\ t \notin ToSet(list1)
                           /\ list1 \o extra = Append(list1, t) /\ List(Append(list1, t))
                           /\ ToSet(Append(list1, t)) = ToSet(list1) \union {t}
      BY <1>2, <1>4, <2>3, Destructor
    <3>2. types[t] = "NORMAL"
      BY <1>4, <3>1
    <3> QED BY <1>2, <2>3, <3>1, <3>2
  <2> QED BY <2>2, <2>3
<1>9. step' \in 0 .. TimeSlice
  BY <1>2, SchedulerAssumption
<1>10. ended' \in BOOLEAN
  BY <1>2
<1>11. status' \in {"running", "done"} /\ (status' = "done" => threads' = <<>>)
  BY <1>2, <1>8
<1>12. status' = "running" => tp' \in ToSet(threads') \/ Lost(threads', types, dbg)
  BY <1>2, <1>7, <1>8 DEF Lost
<1> QED BY <1>2, <1>4, <1>7, <1>8, <1>9, <1>10, <1>11, <1>12

-----------------------------------------------------------------------------
LEMMA SchedInit == LoopInit => SchedInv
<1> SUFFICES ASSUME LoopInit PROVE SchedInv
  OBVIOUS
<1>1. 0 \in Tid /\ 0 \in 0 .. TimeSlice
  BY SchedulerAssumption DEF Tid
<1>2. threads = <<0>> /\ threads \in Seq(Tid) /\ IsInjective(threads) /\ 0 \in Alive
  BY <1>1 DEF LoopInit, IsInjective, Alive, ToSet
<1>3. LoopTypeOK
  BY <1>1, <1>2 DEF LoopInit, LoopTypeOK
<1> QED BY <1>1, <1>2, <1>3 DEF LoopInit, SchedInv, LoopConsistent, CurrentThreadExists, DoneWhenEmpty,
                                UnbornAreNormal, NoDebuggerYet

(* An instruction that leaves what Left says keeps the invariant.          *)
LEMMA InstructionStep ==
    ASSUME SchedInv, NEW list, NEW cur, NEW blocked, NEW st, NEW ty, NEW re,
           EndIteration(list, cur, blocked, ty, debug'), Keep(list, st, ty, re),
           Left(list, cur, ty, debug'),
           st \in States, re \in [Tid -> Retries],
           mutex' \in [Mutexes -> {"LOCKED", "UNLOCKED"}],
           debug' \in BOOLEAN,
           ~debug' => \A t \in Tid : ty[t] = "NORMAL"
    PROVE  SchedInv'
<1>1. step \in 0 .. TimeSlice /\ ended \in BOOLEAN
  BY DEF SchedInv, LoopConsistent, LoopTypeOK
<1>2. /\ List(threads')
      /\ \A t \in Tid : t \in ToSet(threads') => t \in ToSet(list) \/ ty[t] = "NORMAL"
      /\ ToSet(list) \subseteq ToSet(threads')
      /\ tp' \in Tid \union {Ended, NULL}
      /\ step' \in 0 .. TimeSlice
      /\ ended' \in BOOLEAN
      /\ status' \in {"running", "done"}
      /\ status' = "done" => threads' = <<>>
      /\ status' = "running" => tp' \in ToSet(threads') \/ Lost(threads', ty, debug')
  BY <1>1, EndKeeps
<1>3. state' \in States /\ type' \in Types
      /\ \A t \in Tid : type'[t] = IF t \in ToSet(list) THEN ty[t] ELSE "NORMAL"
  BY DEF Keep, Left, States, Types
<1>4. retry' \in [Tid -> Retries]
  <2>1. None \in Retries /\ WaitFor(Ended) \in Retries
    BY DEF Retries
  <2> QED BY <2>1 DEF Keep
<1>5. LoopTypeOK'
  BY <1>2, <1>3, <1>4 DEF LoopTypeOK, List, States, Types, Retries
<1>6. CurrentThreadExists'
  BY <1>2, <1>3, Elements DEF CurrentThreadExists, Lost, Alive, List
<1>7. DoneWhenEmpty'
  BY <1>2 DEF DoneWhenEmpty
<1>8. UnbornAreNormal'
  BY <1>2, <1>3 DEF UnbornAreNormal, Alive
<1>9. NoDebuggerYet'
  BY <1>3 DEF NoDebuggerYet
<1> QED BY <1>5, <1>6, <1>7, <1>8, <1>9 DEF SchedInv, LoopConsistent

LEMMA SchedStep == SchedInv /\ [LoopNext]_loopVars => SchedInv'
<1> SUFFICES ASSUME SchedInv, [LoopNext]_loopVars PROVE SchedInv'
  OBVIOUS
<1>a. /\ LoopTypeOK /\ UnbornAreNormal /\ NoDebuggerYet
      /\ CurrentThreadExists /\ DoneWhenEmpty
  BY DEF SchedInv, LoopConsistent
<1>b. /\ List(threads) /\ Alive = ToSet(threads) /\ Alive \subseteq Tid /\ threads \in Seq(Tid)
      /\ state \in States /\ type \in Types
      /\ retry \in [Tid -> Retries] /\ mutex \in [Mutexes -> {"LOCKED", "UNLOCKED"}]
      /\ debug \in BOOLEAN
  BY <1>a, Elements DEF LoopTypeOK, Alive, List, States, Types, Retries
<1>r. None \in Retries /\ (\A u \in Tid \union {Ended} : WaitFor(u) \in Retries)
      /\ \A m \in Mutexes : LockOf(m) \in Retries
  BY DEF Retries
(* What the instruction that is executed leaves, if it keeps the types:    *)
(* some of the list, and a thread of it.                                   *)
<1>c. ASSUME NEW list, NEW cur, List(list), ToSet(list) \subseteq Alive,
             list = <<>> \/ cur \in ToSet(list) \/ Lost(list, type, debug)
      PROVE  Left(list, cur, type, debug)
  BY <1>a, <1>b, <1>c DEF Left, UnbornAreNormal
<1>d. ~debug => \A t \in Tid : type[t] = "NORMAL"
  BY <1>a DEF NoDebuggerYet
(* An instruction that ends no thread and starts none.                     *)
<1>e. ASSUME NEW cur \in Alive, NEW blocked, NEW st \in States, NEW re \in [Tid -> Retries],
             EndIteration(threads, cur, blocked, type, debug), Keep(threads, st, type, re),
             mutex' \in [Mutexes -> {"LOCKED", "UNLOCKED"}], debug' = debug
      PROVE  SchedInv'
  <2>1. Left(threads, cur, type, debug)
    BY <1>b, <1>c
  <2> QED BY <1>b, <1>d, <1>e, <2>1, InstructionStep
<1>1. CASE UNCHANGED loopVars
  BY <1>1 DEF loopVars, SchedInv, LoopConsistent, LoopTypeOK, CurrentThreadExists, DoneWhenEmpty,
              UnbornAreNormal, NoDebuggerYet, Alive
<1>2. CASE Compute
  <2>1. /\ tp \in Alive /\ EndIteration(threads, tp, FALSE, type, debug)
        /\ Keep(threads, state, type, retry) /\ UNCHANGED <<mutex, debug>>
    BY <1>2 DEF Compute, Executes
  <2> QED BY <1>b, <1>e, <2>1
<1>3. CASE Fork
  <2> DEFINE new == NewId(<<>>)
             list == Append(threads, new)
             types == [type EXCEPT ![new] = type[tp]]
  <2>1. /\ tp \in Alive /\ Unused(<<>>) # {}
        /\ EndIteration(list, new, FALSE, types, debug)
        /\ Keep(list, state, types, retry)
        /\ UNCHANGED <<mutex, debug>>
    BY <1>3 DEF Fork, Executes
  <2>2. new \in Tid /\ new \notin Alive
    <3>1. Unused(<<>>) \in SUBSET Nat
      BY SchedulerAssumption DEF Unused, Tid
    <3> QED BY <2>1, <3>1, First DEF NewId, Unused
  <2> HIDE DEF new
  <2>3. List(list) /\ ToSet(list) = Alive \union {new}
    BY <1>b, <2>2, Appended
  <2> HIDE DEF list
  <2>4. types \in Types /\ types[new] = type[tp] /\ \A t \in Tid : t # new => types[t] = type[t]
    BY <1>b, <2>1, <2>2 DEF Types
  <2>5. Left(list, new, types, debug)
    BY <1>a, <2>2, <2>3, <2>4 DEF Left, UnbornAreNormal
  <2>6. ~debug => \A t \in Tid : types[t] = "NORMAL"
    <3>1. tp \in Tid
      BY <1>b, <2>1
    <3> QED BY <1>d, <2>2, <2>4, <3>1
  <2> HIDE DEF types
  <2> QED BY <1>b, <2>1, <2>5, <2>6, InstructionStep
<1>4. ASSUME NEW u \in Tid \union {Ended}, Wait(u) PROVE SchedInv'
  <2>1. tp \in Alive /\ UNCHANGED <<mutex, debug>>
    BY <1>4 DEF Wait, Executes
  <2>2. [retry EXCEPT ![tp] = WaitFor(u)] \in [Tid -> Retries]
        /\ [retry EXCEPT ![tp] = None] \in [Tid -> Retries]
    BY <1>b, <1>r
  <2>3. CASE u \in Alive
    <3> DEFINE p == Place(tp, threads)
               next == IF p < Len(threads) THEN threads[p + 1] ELSE tp
    <3>1. /\ EndIteration(threads, next, FALSE, type, debug)
          /\ Keep(threads, state, type, [retry EXCEPT ![tp] = WaitFor(u)])
      BY <1>4, <2>3 DEF Wait
    <3>2. next \in Alive
      <4>1. p \in 1 .. Len(threads) /\ Len(threads) \in Nat
        BY <1>b, <2>1, Placed
      <4>2. p < Len(threads) => p + 1 \in 1 .. Len(threads)
        BY <4>1
      <4> HIDE DEF p
      <4> QED BY <1>b, <2>1, <4>2, Elements
    <3> HIDE DEF next
    <3> QED BY <1>b, <1>e, <2>1, <2>2, <3>1, <3>2
  <2>4. CASE u \notin Alive
    <3>1. /\ EndIteration(threads, tp, FALSE, type, debug)
          /\ Keep(threads, state, type, [retry EXCEPT ![tp] = None])
      BY <1>4, <2>4 DEF Wait
    <3> QED BY <1>b, <1>e, <2>1, <2>2, <3>1
  <2> QED BY <2>3, <2>4
<1>5. CASE Exit
  <2> DEFINE rest == Without(tp, threads)
  <2>1. /\ tp \in Alive /\ EndIteration(rest, Begin(rest), FALSE, type, debug)
        /\ Keep(rest, state, type, retry)
        /\ UNCHANGED <<mutex, debug>>
    BY <1>5 DEF Exit, Executes
  <2>2. List(rest) /\ ToSet(rest) = Alive \ {tp}
    BY <1>b, <2>1, Removed
  <2> HIDE DEF rest
  <2>3. rest = <<>> \/ Begin(rest) \in ToSet(rest)
    BY <2>2, Elements DEF Begin, List
  <2>4. Left(rest, Begin(rest), type, debug)
    BY <1>c, <2>2, <2>3
  <2> QED BY <1>b, <1>d, <2>1, <2>4, InstructionStep
<1>6. CASE Return
  <2> DEFINE rest == Without(tp, threads)
             next == NextThread(tp, threads, type, debug)
  <2>1. /\ tp \in Alive /\ EndIteration(rest, next, FALSE, type, debug)
        /\ Keep(rest, state, type, retry)
        /\ UNCHANGED <<mutex, debug>>
    BY <1>6 DEF Return, Executes
  <2>2. \/ next \in Alive /\ next # tp
        \/ /\ next = tp
           /\ \A t \in Alive : t # tp => type[t] # IF debug THEN "DEBUGGER" ELSE "NORMAL"
    BY <1>b, NextThreadInList
  <2>3. List(rest) /\ ToSet(rest) = Alive \ {tp}
    BY <1>b, <2>1, Removed
  <2> HIDE DEF rest, next
  <2>4. rest = <<>> \/ next \in ToSet(rest) \/ Lost(rest, type, debug)
    <3>1. ASSUME next = tp, rest # <<>>,
                 \A t \in Alive : t # tp => type[t] # IF debug THEN "DEBUGGER" ELSE "NORMAL"
          PROVE  Lost(rest, type, debug)
      <4>1. \A t \in ToSet(rest) : t \in Tid /\ type[t] # IF debug THEN "DEBUGGER" ELSE "NORMAL"
        BY <1>b, <2>3, <3>1
      <4>2. PICK t \in ToSet(rest) : TRUE
        BY <2>3, <3>1, Elements DEF List
      <4>3. debug
        BY <1>d, <4>1, <4>2
      <4> QED BY <1>b, <4>1, <4>3 DEF Lost, Types
    <3> QED BY <2>2, <2>3, <3>1
  <2>5. Left(rest, next, type, debug)
    BY <1>c, <2>3, <2>4
  <2> QED BY <1>b, <1>d, <2>1, <2>5, InstructionStep
<1>7. CASE Halt
  <2>1. /\ EndIteration(<<>>, NULL, FALSE, type, debug)
        /\ Keep(<<>>, state, type, retry) /\ UNCHANGED <<mutex, debug>>
    BY <1>7 DEF Halt
  <2>2. List(<<>>) /\ ToSet(<<>>) \subseteq Alive
    <3>1. <<>> \in Seq(Tid) /\ DOMAIN <<>> = {}
      OBVIOUS
    <3>2. ToSet(<<>>) = {}
      BY <3>1, Elements
    <3> QED BY <3>1, <3>2 DEF List, IsInjective
  <2>3. Left(<<>>, NULL, type, debug)
    BY <1>c, <2>2
  <2> QED BY <1>b, <1>d, <2>1, <2>3, InstructionStep
<1>8. ASSUME NEW name, NEW u \in Tid \union {Ended}, NEW s \in {"NORMAL", "SUSPENDED"},
             SetState(name, u, s)
      PROVE  SchedInv'
  <2>1. tp \in Alive /\ UNCHANGED <<mutex, debug>> /\ status = "running"
    BY <1>8 DEF SetState, Executes
  <2>2. CASE u \in Alive
    <3>1. /\ EndIteration(threads, tp, FALSE, type, debug)
          /\ Keep(threads, [state EXCEPT ![u] = s], type, retry)
      BY <1>8, <2>2 DEF SetState
    <3>2. [state EXCEPT ![u] = s] \in States
      BY <1>b DEF States
    <3> QED BY <1>b, <1>e, <2>1, <3>1, <3>2
  <2>3. CASE u \notin Alive
    <3>1. status' = "failed" /\ UNCHANGED <<threads, tp, state, type, retry, step, ended>>
      BY <1>8, <2>3 DEF SetState
    <3> QED BY <1>a, <2>1, <3>1
            DEF SchedInv, LoopConsistent, LoopTypeOK, CurrentThreadExists, DoneWhenEmpty,
                UnbornAreNormal, NoDebuggerYet, Alive
  <2> QED BY <2>2, <2>3
<1>9. ASSUME NEW m \in Mutexes, MutexLock(m) PROVE SchedInv'
  <2>1. tp \in Alive /\ UNCHANGED debug
    BY <1>9 DEF MutexLock, Executes
  <2>2. [retry EXCEPT ![tp] = LockOf(m)] \in [Tid -> Retries]
        /\ [retry EXCEPT ![tp] = None] \in [Tid -> Retries]
    BY <1>b, <1>r
  <2>3. mutex' \in [Mutexes -> {"LOCKED", "UNLOCKED"}]
    BY <1>9, <1>b DEF MutexLock
  <2>4. PICK blocked \in BOOLEAN, re \in [Tid -> Retries] :
          EndIteration(threads, tp, blocked, type, debug) /\ Keep(threads, state, type, re)
    BY <1>9, <2>2 DEF MutexLock
  <2> QED BY <1>b, <1>e, <2>1, <2>3, <2>4
<1>10. ASSUME NEW m \in Mutexes, MutexUnlock(m) PROVE SchedInv'
  <2>1. /\ tp \in Alive /\ UNCHANGED debug
        /\ mutex' = [mutex EXCEPT ![m] = "UNLOCKED"]
        /\ EndIteration(threads, tp, FALSE, type, debug)
        /\ Keep(threads, state, type, retry)
    BY <1>10 DEF MutexUnlock, Executes
  <2>2. mutex' \in [Mutexes -> {"LOCKED", "UNLOCKED"}]
    BY <1>b, <2>1
  <2> QED BY <1>b, <1>e, <2>1, <2>2
<1>11. CASE DebugStart
  <2> DEFINE types == [type EXCEPT ![tp] = "DEBUGGER"]
  <2>1. /\ tp \in Alive /\ debug' = TRUE
        /\ EndIteration(threads, tp, FALSE, types, TRUE)
        /\ Keep(threads, state, types, retry)
        /\ UNCHANGED mutex
    BY <1>11 DEF DebugStart, Executes
  <2>2. tp \in Tid
    BY <1>b, <2>1
  <2>3. types \in Types /\ \A t \in Tid : t # tp => types[t] = type[t]
    BY <1>b, <2>2 DEF Types
  <2> HIDE DEF types
  <2>4. Left(threads, tp, types, TRUE)
    BY <1>a, <1>b, <2>1, <2>3 DEF Left, UnbornAreNormal
  <2> QED BY <1>b, <2>1, <2>4, InstructionStep
<1>12. CASE SkipSuspended
  <2>1. /\ tp \in Alive /\ tp' = NextThread(tp, threads, type, debug)
        /\ UNCHANGED <<threads, state, type, retry, mutex, step, debug, ended, status>>
    BY <1>12 DEF SkipSuspended
  <2>2. tp' \in Alive
    BY <1>b, <2>1, NextThreadInList
  <2> QED BY <1>a, <1>b, <2>1, <2>2
          DEF SchedInv, LoopConsistent, LoopTypeOK, CurrentThreadExists, DoneWhenEmpty,
              UnbornAreNormal, NoDebuggerYet, Alive
<1>13. CASE ExternalEvent
  <2> DEFINE new == NewId(<<>>)
  <2>1. /\ status = "running" /\ Unused(<<>>) # {}
        /\ threads' = Append(threads, new) /\ tp' = new
        /\ UNCHANGED <<state, type, retry, mutex, step, debug, ended, status>>
    BY <1>13 DEF ExternalEvent
  <2>2. new \in Tid /\ new \notin Alive
    <3>1. Unused(<<>>) \in SUBSET Nat
      BY SchedulerAssumption DEF Unused, Tid
    <3> QED BY <2>1, <3>1, First DEF NewId, Unused
  <2> HIDE DEF new
  <2>3. List(threads') /\ Alive' = Alive \union {new}
    BY <1>b, <2>1, <2>2, Appended DEF Alive
  <2>4. LoopTypeOK'
    BY <1>a, <2>1, <2>2, <2>3 DEF LoopTypeOK, List
  <2>5. UnbornAreNormal' /\ NoDebuggerYet'
    BY <1>a, <2>1, <2>3 DEF UnbornAreNormal, NoDebuggerYet
  <2> QED BY <2>1, <2>3, <2>4, <2>5
          DEF SchedInv, LoopConsistent, CurrentThreadExists, DoneWhenEmpty
<1> QED BY <1>1, <1>2, <1>3, <1>4, <1>5, <1>6, <1>7, <1>8, <1>9, <1>10, <1>11, <1>12, <1>13
        DEF LoopNext, Iterate

(* The loop never dereferences a current thread that is gone, but for the  *)
(* one case in debug mode, and ends only when no thread is left            *)
(* (virtual_machine_module_run_function and next_thread, vm/vm.c).         *)
THEOREM LoopStaysConsistent == LoopSpec => []LoopConsistent
<1>1. SchedInv => LoopConsistent
  BY DEF SchedInv
<1> QED BY SchedInit, SchedStep, <1>1, PTL DEF LoopSpec

(* Without a debugger the loop always has a current thread.                *)
THEOREM CurrentThreadUnlessDebugging ==
    LoopSpec => [](status = "running" /\ ~debug => tp \in Alive)
<1>1. SchedInv => (status = "running" /\ ~debug => tp \in Alive)
  BY DEF SchedInv, LoopConsistent, CurrentThreadExists
<1> QED BY SchedInit, SchedStep, <1>1, PTL DEF LoopSpec
-------------------------------------------------------------------------------
Arg == Hosts \X Nat \X Nat
Event == [id : Ids, raised : Nat, args : Seq(Arg)]

(* What the types leave out: nothing is remembered of events that are not  *)
(* installed.                                                              *)
Blank ==
    \A i \in Entry : i > Len(events) =>
        started[i] = <<>> /\ pushed[i] = <<>> /\ delivered[i] = <<>> /\ raises[i] = 0
Base == TypeOK /\ CapturedIsRaised /\ Blank

(* The list of events and its entries. *)
LEMMA Typed ==
    ASSUME TypeOK
    PROVE  /\ events \in Seq(Event) /\ Len(events) \in 0 .. MaxInstalls
           /\ DOMAIN events = 1 .. Len(events)
           /\ \A i \in 1 .. Len(events) : i \in Entry /\ events[i] \in Event
           /\ \A h \in Hosts : host[h] \in [id : Ids, call : 0 .. MaxCalls,
                                            args : 0 .. ArgsPerCall, clear : BOOLEAN]
<1>1. events \in Seq(Event) /\ Len(events) <= MaxInstalls
  BY DEF TypeOK, Event, Arg
<1>2. Len(events) \in Nat /\ DOMAIN events = 1 .. Len(events)
  BY <1>1, LenProperties
<1>3. \A i \in 1 .. Len(events) : i \in Entry /\ events[i] \in Event
  BY <1>1, <1>2, ElementOfSeq, EventsAssumption DEF Entry
<1>4. \A h \in Hosts : host[h] \in [id : Ids, call : 0 .. MaxCalls,
                                    args : 0 .. ArgsPerCall, clear : BOOLEAN]
  BY DEF TypeOK
<1> QED BY <1>1, <1>2, <1>3, <1>4, EventsAssumption

(* What a library call, an installation and the start of a thread do to    *)
(* the list.                                                               *)
LEMMA Changed ==
    ASSUME TypeOK, NEW i \in 1 .. Len(events), NEW e \in Event,
           events' = [events EXCEPT ![i] = e]
    PROVE  /\ events' \in Seq(Event) /\ Len(events') = Len(events)
           /\ DOMAIN events' = DOMAIN events
           /\ \A j \in 1 .. Len(events) : events'[j] = IF j = i THEN e ELSE events[j]
<1>1. events \in Seq(Event)
  BY Typed
<1>2. /\ events' \in Seq(Event) /\ Len(events') = Len(events)
      /\ \A j \in 1 .. Len(events) : events'[j] = IF j = i THEN e ELSE events[j]
  BY <1>1, ExceptSeq
<1> QED BY <1>1, <1>2, LenProperties

LEMMA Longer ==
    ASSUME TypeOK, NEW e \in Event, events' = Append(events, e)
    PROVE  /\ events' \in Seq(Event) /\ Len(events') = Len(events) + 1
           /\ DOMAIN events' = 1 .. Len(events) + 1
           /\ \A j \in 1 .. Len(events) : events'[j] = events[j]
           /\ events'[Len(events) + 1] = e
<1>1. events \in Seq(Event)
  BY Typed
<1>2. /\ events' \in Seq(Event) /\ Len(events') = Len(events) + 1
      /\ \A j \in 1 .. Len(events) : events'[j] = events[j]
      /\ events'[Len(events) + 1] = e
  BY <1>1, AppendProperties
<1> QED BY <1>1, <1>2, LenProperties
-----------------------------------------------------------------------------
LEMMA BaseInit == Init => Base
<1> SUFFICES ASSUME Init PROVE Base
  OBVIOUS
<1>1. PICK id \in [Hosts -> Ids] :
          host = [h \in Hosts |-> [id |-> id[h], call |-> 0, args |-> 0,
                                   clear |-> h \notin Pollers]]
  BY DEF Init
<1>2. \A S : <<>> \in Seq(S) /\ Len(<<>>) = 0
  BY EmptySeq
<1>3. TypeOK
  <2>1. events \in Seq([id : Ids, raised : Nat, args : Seq(Hosts \X Nat \X Nat)])
    BY <1>2 DEF Init
  <2>2. Len(events) <= MaxInstalls
    BY <1>2, EventsAssumption DEF Init
  <2>3. host \in [Hosts -> [id : Ids, call : 0 .. MaxCalls, args : 0 .. ArgsPerCall,
                            clear : BOOLEAN]]
    BY <1>1, EventsAssumption
  <2> QED BY <1>2, <2>1, <2>2, <2>3 DEF Init, TypeOK
<1> QED BY <1>3 DEF Init, Base, Blank, CapturedIsRaised

(* A call of a host on an event that is installed changes one entry; what  *)
(* is remembered of the entry changes with it.                             *)
LEMMA EntryStep ==
    ASSUME Base, NEW i \in 1 .. Len(events), NEW e \in Event,
           events' = [events EXCEPT ![i] = e],
           pushed' \in [Entry -> Seq(Arg)], delivered' \in [Entry -> Seq(Arg)],
           raises' \in [Entry -> Nat], started' \in [Entry -> Seq(Seq(Arg))],
           \A j \in Entry : j # i => /\ started'[j] = started[j]
                                     /\ pushed'[j] = pushed[j]
                                     /\ delivered'[j] = delivered[j]
                                     /\ raises'[j] = raises[j],
           host' \in [Hosts -> [id : Ids, call : 0 .. MaxCalls, args : 0 .. ArgsPerCall,
                                clear : BOOLEAN]],
           UNCHANGED <<loop, vmerr>>, captured' \in {0, captured},
           captured' = i => e.raised > 0
    PROVE  Base'
<1>1. /\ events' \in Seq(Event) /\ Len(events') = Len(events)
      /\ DOMAIN events' = DOMAIN events
  BY Changed DEF Base
<1>2. TypeOK'
  <2>1. events' \in Seq([id : Ids, raised : Nat, args : Seq(Hosts \X Nat \X Nat)])
    BY <1>1 DEF Event, Arg
  <2>2. Len(events') <= MaxInstalls /\ captured' \in {0} \union DOMAIN events'
        /\ vmerr' \in {"none", "set", "seen"}
        /\ loop' \in {"head", "instruction", "ended"}
    BY <1>1 DEF Base, TypeOK
  <2> QED BY <2>1, <2>2 DEF TypeOK, Arg
<1>3. Blank'
  <2>1. Len(events) \in Nat /\ Len(events') = Len(events)
    BY <1>1, Typed DEF Base
  <2>2. \A j \in Entry : j > Len(events) => j # i
    BY <2>1 DEF Entry
  <2> QED BY <2>1, <2>2 DEF Base, Blank
<1>4. CapturedIsRaised'
  <2>1. ASSUME captured # 0 PROVE captured \in 1 .. Len(events) /\ events[captured].raised > 0
    BY <2>1, Typed DEF Base, TypeOK, CapturedIsRaised
  <2>2. \A j \in 1 .. Len(events) : events'[j] = IF j = i THEN e ELSE events[j]
    BY Changed DEF Base
  <2> QED BY <2>1, <2>2 DEF CapturedIsRaised
<1> QED BY <1>2, <1>3, <1>4 DEF Base

(* A call on an event that is not there sets the error. *)
LEMMA ErrorStep ==
    ASSUME Base, NEW id, NotInstalled(id), UNCHANGED <<captured, loop, started, delivered>>,
           host' \in [Hosts -> [id : Ids, call : 0 .. MaxCalls, args : 0 .. ArgsPerCall,
                                clear : BOOLEAN]]
    PROVE  Base'
<1> USE DEF NotInstalled
<1>1. TypeOK'
  <2>1. vmerr' \in {"none", "set", "seen"}
    BY DEF Base, TypeOK
  <2>2. UNCHANGED <<events, captured, loop, started, pushed, delivered, raises>>
    OBVIOUS
  <2> QED BY <2>1, <2>2 DEF Base, TypeOK
<1>2. Blank' /\ CapturedIsRaised'
  BY DEF Base, Blank, CapturedIsRaised
<1> QED BY <1>1, <1>2 DEF Base

LEMMA BaseStep == Base /\ [Next]_vars => Base'
<1> SUFFICES ASSUME Base, [Next]_vars PROVE Base'
  OBVIOUS
<1> DEFINE Host == [id : Ids, call : 0 .. MaxCalls, args : 0 .. ArgsPerCall, clear : BOOLEAN]
<1>a. TypeOK /\ CapturedIsRaised /\ Blank
  BY DEF Base
<1>b. /\ DOMAIN events = 1 .. Len(events) /\ Len(events) \in 0 .. MaxInstalls
      /\ \A i \in 1 .. Len(events) : i \in Entry /\ events[i] \in Event
  BY <1>a, Typed
<1>c. host \in [Hosts -> Host] /\ ArgsPerCall \in Nat /\ MaxCalls \in Nat
  BY <1>a, EventsAssumption DEF TypeOK
<1>d. /\ pushed \in [Entry -> Seq(Arg)] /\ delivered \in [Entry -> Seq(Arg)]
      /\ raises \in [Entry -> Nat] /\ started \in [Entry -> Seq(Seq(Arg))]
  BY <1>a DEF TypeOK, Arg
<1>1. CASE UNCHANGED vars
  BY <1>1 DEF vars, vmVars, history, Base, TypeOK, CapturedIsRaised, Blank
<1>2. ASSUME NEW h \in Hosts, ArgsCount(h) PROVE Base'
  <2>1. UNCHANGED <<captured, loop, started, delivered>>
    BY <1>2 DEF ArgsCount
  <2>2. CASE NotInstalled(host[h].id) /\ UNCHANGED host
    BY <1>c, <2>1, <2>2, ErrorStep
  <2>3. CASE UNCHANGED <<events, vmerr, pushed, raises>>
             /\ host' = [host EXCEPT ![h].clear = TRUE]
    <3>1. host' \in [Hosts -> Host]
      BY <1>c, <2>3
    <3>2. UNCHANGED <<events, captured, loop, started, vmerr, pushed, delivered, raises>>
      BY <2>1, <2>3
    <3> QED BY <3>1, <3>2 DEF Base, TypeOK, CapturedIsRaised, Blank
  <2> QED BY <1>2, <2>2, <2>3 DEF ArgsCount
<1>3. ASSUME NEW h \in Hosts, ArgPush(h) PROVE Base'
  <2> DEFINE value == <<h, host[h].call, host[h].args>>
  <2>1. /\ UNCHANGED <<captured, loop, started, delivered>> /\ host[h].args < ArgsPerCall
        /\ host' = [host EXCEPT ![h].args = @ + 1]
    BY <1>3 DEF ArgPush
  <2>2. value \in Arg
    BY <1>c DEF Arg
  <2>3. host' \in [Hosts -> Host]
    <3>1. host[h].args + 1 \in 0 .. ArgsPerCall
      BY <1>c, <2>1
    <3> QED BY <1>c, <2>1, <3>1
  <2>4. CASE NotInstalled(host[h].id)
    BY <2>1, <2>3, <2>4, ErrorStep
  <2>5. ASSUME NEW i \in DOMAIN events,
               events' = [events EXCEPT ![i].args = Append(@, value)],
               pushed' = [pushed EXCEPT ![i] = Append(@, value)],
               UNCHANGED <<vmerr, raises>>
        PROVE  Base'
    <3> DEFINE e == [events[i] EXCEPT !.args = Append(events[i].args, value)]
    <3>1. i \in 1 .. Len(events) /\ i \in Entry /\ events[i] \in Event
      BY <1>b
    <3>2. Append(events[i].args, value) \in Seq(Arg) /\ Append(pushed[i], value) \in Seq(Arg)
      BY <1>d, <2>2, <3>1, AppendProperties DEF Event
    <3>3. e \in Event
      BY <3>1, <3>2 DEF Event
    <3>4. events' = [events EXCEPT ![i] = e] /\ e.raised = events[i].raised
      BY <2>5, <3>1 DEF Event
    <3>7. captured' = i => e.raised > 0
      BY <1>a, <2>1, <3>1, <3>4 DEF CapturedIsRaised, Entry
    <3>5. pushed' \in [Entry -> Seq(Arg)]
          /\ \A j \in Entry : j # i => pushed'[j] = pushed[j]
      BY <1>d, <2>5, <3>1, <3>2
    <3>6. \A j \in Entry : j # i => /\ started'[j] = started[j]
                                   /\ pushed'[j] = pushed[j]
                                   /\ delivered'[j] = delivered[j]
                                   /\ raises'[j] = raises[j]
      BY <2>1, <2>5, <3>5
    <3>8. /\ delivered' \in [Entry -> Seq(Arg)] /\ raises' \in [Entry -> Nat]
          /\ started' \in [Entry -> Seq(Seq(Arg))]
          /\ UNCHANGED <<loop, vmerr>> /\ captured' \in {0, captured}
      BY <1>d, <2>1, <2>5
    <3> HIDE DEF e
    <3> QED BY <2>3, <3>1, <3>3, <3>4, <3>5, <3>6, <3>7, <3>8, EntryStep
  <2> QED BY <1>3, <2>4, <2>5 DEF ArgPush
<1>4. ASSUME NEW h \in Hosts, Raise(h) PROVE Base'
  <2> DEFINE call == IF host[h].call = MaxCalls THEN 0 ELSE host[h].call + 1
  <2>1. /\ UNCHANGED <<captured, loop, started, delivered>>
        /\ host' = [host EXCEPT ![h].call = call, ![h].args = 0, ![h].clear = h \notin Pollers]
    BY <1>4 DEF Raise
  <2>2. host' \in [Hosts -> Host]
    <3>1. call \in 0 .. MaxCalls /\ 0 \in 0 .. ArgsPerCall /\ (h \notin Pollers) \in BOOLEAN
      BY <1>c
    <3> HIDE DEF call
    <3> QED BY <1>c, <2>1, <3>1
  <2>3. CASE NotInstalled(host[h].id)
    BY <2>1, <2>2, <2>3, ErrorStep
  <2>4. ASSUME NEW i \in DOMAIN events,
               events' = [events EXCEPT ![i].raised = @ + 1],
               raises' = [raises EXCEPT ![i] = @ + 1],
               UNCHANGED <<vmerr, pushed>>
        PROVE  Base'
    <3> DEFINE e == [events[i] EXCEPT !.raised = events[i].raised + 1]
    <3>1. i \in 1 .. Len(events) /\ i \in Entry /\ events[i] \in Event
      BY <1>b
    <3>2. e \in Event
      BY <3>1 DEF Event
    <3>3. events' = [events EXCEPT ![i] = e] /\ e.raised > 0
      BY <2>4, <3>1 DEF Event
    <3>4. raises' \in [Entry -> Nat] /\ \A j \in Entry : j # i => raises'[j] = raises[j]
      BY <1>d, <2>4, <3>1
    <3> HIDE DEF e
    <3>5. /\ pushed' \in [Entry -> Seq(Arg)] /\ delivered' \in [Entry -> Seq(Arg)]
          /\ started' \in [Entry -> Seq(Seq(Arg))]
          /\ UNCHANGED <<loop, vmerr>> /\ captured' \in {0, captured}
      BY <1>d, <2>1, <2>4
    <3>6. \A j \in Entry : j # i => /\ started'[j] = started[j]
                                   /\ pushed'[j] = pushed[j]
                                   /\ delivered'[j] = delivered[j]
                                   /\ raises'[j] = raises[j]
      BY <2>1, <2>4, <3>4
    <3> QED BY <2>2, <3>1, <3>2, <3>3, <3>4, <3>5, <3>6, EntryStep
  <2> QED BY <1>4, <2>3, <2>4 DEF Raise
<1>5. ASSUME NEW id \in Ids, Install(id) PROVE Base'
  <2> DEFINE e == [id |-> id, raised |-> 0, args |-> <<>>]
  <2>1. /\ events' = Append(events, e) /\ Len(events) < MaxInstalls
        /\ UNCHANGED <<captured, loop, host, vmerr, history>>
    BY <1>5 DEF Install
  <2>2. e \in Event
    BY EmptySeq DEF Event
  <2>3. /\ events' \in Seq(Event) /\ Len(events') = Len(events) + 1
        /\ DOMAIN events' = 1 .. Len(events) + 1
    BY <1>a, <2>1, <2>2, Longer
  <2>4. events' \in Seq([id : Ids, raised : Nat, args : Seq(Hosts \X Nat \X Nat)])
    BY <2>3 DEF Event, Arg
  <2>5. captured' \in {0} \union DOMAIN events' /\ Len(events') <= MaxInstalls
    BY <1>a, <1>b, <2>1, <2>3, EventsAssumption DEF TypeOK
  <2>6. TypeOK'
    BY <1>a, <2>1, <2>4, <2>5 DEF TypeOK, history
  <2>7. \A j \in 1 .. Len(events) : events'[j] = events[j]
    BY <1>a, <2>1, <2>2, Longer
  <2>8. CapturedIsRaised'
    BY <1>a, <1>b, <2>1, <2>7 DEF TypeOK, CapturedIsRaised
  <2>10. Blank'
    <3>1. UNCHANGED history
      BY <2>1 DEF history
    <3>2. \A i \in Entry : i > Len(events') => i > Len(events)
      BY <1>b, <2>3, EventsAssumption DEF Entry
    <3> QED BY <1>a, <3>1, <3>2 DEF Blank, history
  <2> QED BY <2>6, <2>8, <2>10 DEF Base
<1>6. CASE Capture
  <2>1. captured' \in DOMAIN events /\ events[captured'].raised # 0
        /\ UNCHANGED <<events, loop, host, vmerr, history>>
    BY <1>6 DEF Capture
  <2>2. events[captured'].raised > 0
    BY <1>b, <2>1 DEF Event
  <2> QED BY <2>1, <2>2 DEF Base, TypeOK, CapturedIsRaised, Blank, history
<1>7. CASE StartThread
  <2> DEFINE i == captured
             e == [events[i] EXCEPT !.raised = events[i].raised - 1, !.args = <<>>]
  <2>1. captured # 0 /\ captured' = 0 /\ UNCHANGED <<loop, host, vmerr, pushed, raises>>
    BY <1>7 DEF StartThread
  <2>2. i \in 1 .. Len(events) /\ i \in Entry /\ events[i] \in Event /\ events[i].raised > 0
    BY <1>a, <1>b, <2>1 DEF TypeOK, CapturedIsRaised
  <2>3. e \in Event
    <3>1. events[i].raised - 1 \in Nat /\ <<>> \in Seq(Arg)
      BY <2>2, EmptySeq DEF Event
    <3> QED BY <2>2, <3>1 DEF Event
  <2>4. events' = [events EXCEPT ![i] = e]
    BY <1>7 DEF StartThread
  <2>5. delivered' = [delivered EXCEPT ![i] = delivered[i] \o events[i].args]
    BY <1>7 DEF StartThread
  <2>6. delivered[i] \o events[i].args \in Seq(Arg)
    BY <1>d, <2>2, ConcatProperties DEF Event
  <2>7. delivered' \in [Entry -> Seq(Arg)]
        /\ \A j \in Entry : j # i => delivered'[j] = delivered[j]
    BY <1>d, <2>5, <2>6
  <2>8. started' \in [Entry -> Seq(Seq(Arg))]
        /\ \A j \in Entry : j # i => started'[j] = started[j]
    <3>1. started' = [started EXCEPT ![i] = Append(started[i], events[i].args)]
      BY <1>7 DEF StartThread
    <3>2. Append(started[i], events[i].args) \in Seq(Seq(Arg))
      BY <1>d, <2>2, AppendProperties DEF Event
    <3> QED BY <1>d, <2>2, <3>1, <3>2
  <2>9. /\ pushed' \in [Entry -> Seq(Arg)] /\ raises' \in [Entry -> Nat]
        /\ \A j \in Entry : pushed'[j] = pushed[j] /\ raises'[j] = raises[j]
        /\ host' \in [Hosts -> Host] /\ UNCHANGED <<loop, vmerr>> /\ captured' \in {0, captured}
        /\ captured' # i
    BY <1>c, <1>d, <2>1
  <2> HIDE DEF e, i
  <2> QED BY <2>2, <2>3, <2>4, <2>7, <2>8, <2>9, EntryStep
<1>8. CASE NoneRaised \/ SeeError \/ NextIteration \/ LoopEnds \/ RunFunction
  <2>1. /\ UNCHANGED <<events, captured, host, history>>
        /\ loop' \in {"head", "instruction", "ended"} /\ vmerr' \in {"none", "set", "seen"}
    BY <1>a, <1>8
       DEF NoneRaised, SeeError, NextIteration, LoopEnds, RunFunction, TypeOK
  <2> QED BY <1>a, <2>1 DEF Base, TypeOK, CapturedIsRaised, Blank, history
<1>9. ASSUME NEW i \in Entry, Forget(i) PROVE Base'
  <2>1. UNCHANGED <<vmVars, host, vmerr>> /\ i \in 1 .. Len(events) /\ events[i] \in Event
    BY <1>b, <1>9 DEF Forget
  <2>2. /\ started' = [started EXCEPT ![i] = <<>>] /\ pushed' = [pushed EXCEPT ![i] = events[i].args]
        /\ delivered' = [delivered EXCEPT ![i] = <<>>] /\ raises' = [raises EXCEPT ![i] = events[i].raised]
    BY <1>9 DEF Forget
  <2>3. events[i].args \in Seq(Arg) /\ events[i].raised \in Nat
        /\ \A S : <<>> \in Seq(S)
    BY <2>1, EmptySeq DEF Event
  <2>4. /\ started' \in [Entry -> Seq(Seq(Arg))] /\ pushed' \in [Entry -> Seq(Arg)]
        /\ delivered' \in [Entry -> Seq(Arg)] /\ raises' \in [Entry -> Nat]
    BY <1>d, <2>2, <2>3
  <2>5. TypeOK' /\ CapturedIsRaised'
    BY <1>a, <2>1, <2>4 DEF TypeOK, CapturedIsRaised, vmVars, Arg
  <2>6. Blank'
    BY <1>a, <1>b, <1>d, <2>1, <2>2 DEF Blank, vmVars
  <2> QED BY <2>5, <2>6 DEF Base
<1> QED BY <1>1, <1>2, <1>3, <1>4, <1>5, <1>6, <1>7, <1>8, <1>9 DEF Next, Loop, HostCall

LEMMA BaseAlways == Spec => []Base
<1> QED BY BaseInit, BaseStep, PTL DEF Spec

-----------------------------------------------------------------------------
(* The arguments and the threads agree with what was pushed and raised.    *)
HistoryInv == Base /\ NoArgumentLost /\ ThreadsMatchRaises

LEMMA HistoryInit == Init => HistoryInv
BY BaseInit DEF Init, HistoryInv, NoArgumentLost, ThreadsMatchRaises

LEMMA ConcatAppend ==
    ASSUME NEW S, NEW s \in Seq(S), NEW t \in Seq(S), NEW v \in S
    PROVE  s \o Append(t, v) = Append(s \o t, v)
<1>1. <<v>> \in Seq(S) /\ s \o t \in Seq(S)
  BY ConcatProperties
<1>2. Append(t, v) = t \o <<v>> /\ Append(s \o t, v) = (s \o t) \o <<v>>
  BY <1>1, AppendIsConcat
<1> QED BY <1>1, <1>2, ConcatAssociative

(* What changes neither threads nor arguments nor raises. *)
LEMMA QuietStep ==
    ASSUME HistoryInv, Base', UNCHANGED <<events, started, pushed, delivered, raises>>
    PROVE  HistoryInv'
BY DEF HistoryInv, NoArgumentLost, ThreadsMatchRaises

LEMMA HistoryStep == HistoryInv /\ [Next]_vars => HistoryInv'
<1> SUFFICES ASSUME HistoryInv, [Next]_vars PROVE HistoryInv'
  OBVIOUS
<1>a. Base /\ NoArgumentLost /\ ThreadsMatchRaises /\ Base'
  BY BaseStep DEF HistoryInv
<1>b. /\ DOMAIN events = 1 .. Len(events) /\ Len(events) \in 0 .. MaxInstalls
      /\ \A i \in 1 .. Len(events) : i \in Entry /\ events[i] \in Event
  BY <1>a, Typed DEF Base
<1>c. /\ pushed \in [Entry -> Seq(Arg)] /\ delivered \in [Entry -> Seq(Arg)]
      /\ raises \in [Entry -> Nat]
      /\ \A h \in Hosts : <<h, host[h].call, host[h].args>> \in Arg
  <2>1. \A h \in Hosts : host[h].call \in Nat /\ host[h].args \in Nat
    BY <1>a, Typed, EventsAssumption DEF Base
  <2> QED BY <1>a, <2>1 DEF Base, TypeOK, Arg
<1>d. \A i \in 1 .. Len(events) :
          /\ delivered[i] \o events[i].args = pushed[i]
          /\ raises[i] = events[i].raised + Len(started[i])
  BY <1>a, <1>b DEF NoArgumentLost, ThreadsMatchRaises
<1>e. /\ started \in [Entry -> Seq(Seq(Arg))]
      /\ \A i \in Entry : Len(started[i]) \in Nat
  <2>1. started \in [Entry -> Seq(Seq(Arg))]
    BY <1>a DEF Base, TypeOK, Arg
  <2> QED BY <2>1, LenProperties
(* The entry that a step changes, and the others. *)
<1>f. ASSUME NEW i \in 1 .. Len(events), NEW e \in Event, events' = [events EXCEPT ![i] = e],
             delivered'[i] \o e.args = pushed'[i],
             raises'[i] = e.raised + Len(started'[i]),
             \A j \in Entry \ {i} : /\ pushed'[j] = pushed[j] /\ delivered'[j] = delivered[j]
                                    /\ raises'[j] = raises[j]
                                    /\ started'[j] = started[j]
      PROVE  HistoryInv'
  <2>1. DOMAIN events' = 1 .. Len(events)
        /\ \A j \in 1 .. Len(events) : events'[j] = IF j = i THEN e ELSE events[j]
    BY <1>a, <1>b, <1>f, Changed DEF Base
  <2>2. \A j \in 1 .. Len(events) : delivered'[j] \o events'[j].args = pushed'[j]
    BY <1>b, <1>d, <1>f, <2>1
  <2>3. \A j \in 1 .. Len(events) : raises'[j] = events'[j].raised + Len(started'[j])
    BY <1>b, <1>d, <1>f, <2>1
  <2> QED BY <1>a, <2>1, <2>2, <2>3 DEF HistoryInv, NoArgumentLost, ThreadsMatchRaises
<1>1. CASE UNCHANGED vars
  BY <1>a, <1>1, QuietStep DEF vars, vmVars, history
<1>2. ASSUME NEW h \in Hosts, ArgsCount(h) PROVE HistoryInv'
  BY <1>a, <1>2, QuietStep DEF ArgsCount, NotInstalled
<1>3. ASSUME NEW h \in Hosts, ArgPush(h) PROVE HistoryInv'
  <2> DEFINE value == <<h, host[h].call, host[h].args>>
  <2>1. UNCHANGED <<captured, loop, started, delivered>>
    BY <1>3 DEF ArgPush
  <2>2. CASE NotInstalled(host[h].id)
    BY <1>a, <2>1, <2>2, QuietStep DEF NotInstalled
  <2>3. ASSUME NEW i \in DOMAIN events,
               events' = [events EXCEPT ![i].args = Append(@, value)],
               pushed' = [pushed EXCEPT ![i] = Append(@, value)],
               UNCHANGED <<vmerr, raises>>
        PROVE  HistoryInv'
    <3> DEFINE e == [events[i] EXCEPT !.args = Append(events[i].args, value)]
    <3>1. i \in 1 .. Len(events) /\ i \in Entry /\ events[i] \in Event /\ value \in Arg
      BY <1>b, <1>c
    <3>2. events[i].args \in Seq(Arg) /\ Append(events[i].args, value) \in Seq(Arg)
      BY <3>1, AppendProperties DEF Event
    <3>3. /\ e \in Event /\ events' = [events EXCEPT ![i] = e]
          /\ e.args = Append(events[i].args, value) /\ e.raised = events[i].raised
      BY <2>3, <3>1, <3>2 DEF Event
    <3>4. delivered[i] \o Append(events[i].args, value) = Append(pushed[i], value)
      <4>1. /\ delivered[i] \in Seq(Arg) /\ delivered[i] \o events[i].args = pushed[i]
        BY <1>c, <1>d, <3>1
      <4>2. value \in Arg /\ events[i].args \in Seq(Arg)
        BY <3>1, <3>2
      <4> HIDE DEF value, e
      <4>3. \A s, t \in Seq(Arg), v \in Arg : s \o Append(t, v) = Append(s \o t, v)
        BY ConcatAppend
      <4>4. delivered[i] \o Append(events[i].args, value)
            = Append(delivered[i] \o events[i].args, value)
        BY <4>1, <4>2, <4>3
      <4> QED BY <4>1, <4>4
    <3>5. /\ delivered'[i] \o e.args = pushed'[i]
          /\ \A j \in Entry \ {i} : pushed'[j] = pushed[j] /\ delivered'[j] = delivered[j]
      BY <1>c, <2>1, <2>3, <3>1, <3>3, <3>4
    <3>6. /\ raises'[i] = e.raised + Len(started'[i])
          /\ \A j \in Entry \ {i} : raises'[j] = raises[j] /\ started'[j] = started[j]
      BY <1>d, <2>1, <2>3, <3>1, <3>3
    <3> HIDE DEF e
    <3> QED BY <1>f, <3>1, <3>3, <3>5, <3>6
  <2> QED BY <1>3, <2>2, <2>3 DEF ArgPush
<1>4. ASSUME NEW h \in Hosts, Raise(h) PROVE HistoryInv'
  <2>1. UNCHANGED <<captured, loop, started, delivered>>
    BY <1>4 DEF Raise
  <2>2. CASE NotInstalled(host[h].id)
    BY <1>a, <2>1, <2>2, QuietStep DEF NotInstalled
  <2>3. ASSUME NEW i \in DOMAIN events,
               events' = [events EXCEPT ![i].raised = @ + 1],
               raises' = [raises EXCEPT ![i] = @ + 1],
               UNCHANGED <<vmerr, pushed>>
        PROVE  HistoryInv'
    <3> DEFINE e == [events[i] EXCEPT !.raised = events[i].raised + 1]
    <3>1. i \in 1 .. Len(events) /\ i \in Entry /\ events[i] \in Event
      BY <1>b
    <3>2. /\ e \in Event /\ events' = [events EXCEPT ![i] = e]
          /\ e.args = events[i].args /\ e.raised = events[i].raised + 1
      BY <2>3, <3>1 DEF Event
    <3>3. /\ delivered'[i] \o e.args = pushed'[i]
          /\ \A j \in Entry \ {i} : pushed'[j] = pushed[j] /\ delivered'[j] = delivered[j]
      BY <1>d, <2>1, <2>3, <3>1, <3>2
    <3>4. /\ raises'[i] = e.raised + Len(started'[i])
          /\ \A j \in Entry \ {i} : raises'[j] = raises[j] /\ started'[j] = started[j]
      <4>1. raises[i] + 1 = (events[i].raised + 1) + Len(started[i])
        <5>1. Len(started[i]) \in Nat /\ events[i].raised \in Nat
          BY <1>e, <3>1 DEF Event
        <5>2. raises[i] = events[i].raised + Len(started[i])
          BY <1>d, <3>1
        <5> QED BY <5>1, <5>2
      <4> QED BY <1>c, <2>1, <2>3, <3>1, <3>2, <4>1
    <3> HIDE DEF e
    <3> QED BY <1>f, <3>1, <3>2, <3>3, <3>4
  <2> QED BY <1>4, <2>2, <2>3 DEF Raise
<1>5. ASSUME NEW id \in Ids, Install(id) PROVE HistoryInv'
  <2> DEFINE e == [id |-> id, raised |-> 0, args |-> <<>>]
             n == Len(events) + 1
  <2>1. /\ events' = Append(events, e) /\ n \in Entry
        /\ UNCHANGED <<started, pushed, delivered, raises>>
    BY <1>5, <1>b, EventsAssumption DEF Install, history, Entry
  <2>2. e \in Event
    BY EmptySeq DEF Event
  <2>3. /\ DOMAIN events' = 1 .. n
        /\ \A j \in 1 .. Len(events) : events'[j] = events[j]
        /\ events'[n] = e
    BY <1>a, <2>1, <2>2, Longer DEF Base
  <2>4. started[n] = <<>> /\ pushed[n] = <<>> /\ delivered[n] = <<>> /\ raises[n] = 0
    BY <1>a, <1>b, <2>1 DEF Base, Blank
  <2>6. <<>> \o <<>> = <<>> /\ Len(<<>>) = 0
    BY EmptySeq, ConcatEmptySeq
  <2>7. /\ \A j \in 1 .. n : j \in 1 .. Len(events) \/ j = n
        /\ e.args = <<>> /\ e.raised = 0
    BY <1>b
  <2> HIDE DEF e, n
  <2>8. ASSUME NEW j \in 1 .. n
        PROVE  /\ delivered[j] \o events'[j].args = pushed[j]
               /\ raises[j] = events'[j].raised + Len(started[j])
    <3>1. CASE j \in 1 .. Len(events)
      BY <1>d, <2>3, <3>1
    <3>2. CASE j = n
      <4>1. events'[j].args = <<>> /\ events'[j].raised = 0
        BY <2>3, <2>7, <3>2
      <4>2. raises[n] = 0 + Len(started[n])
        BY <2>4, <2>6
      <4>3. delivered[n] \o <<>> = pushed[n]
        BY <2>4, <2>6
      <4> QED BY <3>2, <4>1, <4>2, <4>3
    <3> QED BY <2>7, <3>1, <3>2
  <2> QED BY <1>a, <2>1, <2>3, <2>8
          DEF HistoryInv, NoArgumentLost, ThreadsMatchRaises
<1>6. CASE Capture
  BY <1>a, <1>6, QuietStep DEF Capture, history
<1>7. CASE StartThread
  <2>0. PICK i \in 1 .. Len(events) :
            i = captured /\ i \in Entry /\ events[i] \in Event /\ events[i].raised > 0
    BY <1>7, <1>a, <1>b DEF StartThread, Base, TypeOK, CapturedIsRaised
  <2> DEFINE e == [events[i] EXCEPT !.raised = events[i].raised - 1, !.args = <<>>]
  <2>1. /\ captured # 0 /\ UNCHANGED <<pushed, raises>> /\ started' = [started EXCEPT ![i] = Append(started[i], events[i].args)]
        /\ delivered' = [delivered EXCEPT ![i] = delivered[i] \o events[i].args]
    BY <1>7, <2>0 DEF StartThread
  <2>2. i \in 1 .. Len(events) /\ i \in Entry /\ events[i] \in Event /\ events[i].raised > 0
    BY <2>0
  <2>3. events[i].raised - 1 \in Nat /\ <<>> \in Seq(Arg) /\ events[i].args \in Seq(Arg)
    BY <2>2, EmptySeq DEF Event
  <2>4. /\ e \in Event /\ events' = [events EXCEPT ![i] = e]
        /\ e.args = <<>> /\ e.raised = events[i].raised - 1
    BY <1>7, <2>0, <2>2, <2>3 DEF StartThread, Event
  <2>5. delivered[i] \o events[i].args = pushed[i] /\ pushed[i] \in Seq(Arg)
    BY <1>c, <1>d, <2>2
  <2>6. /\ delivered'[i] \o e.args = pushed'[i]
        /\ \A j \in Entry \ {i} : pushed'[j] = pushed[j] /\ delivered'[j] = delivered[j]
    <3>1. pushed[i] \o <<>> = pushed[i]
      BY <2>5, ConcatEmptySeq
    <3> QED BY <1>c, <2>1, <2>2, <2>4, <2>5, <3>1
  <2>7. /\ Len(started'[i]) = Len(started[i]) + 1
        /\ \A j \in Entry \ {i} : started'[j] = started[j]
    <3>1. Len(Append(started[i], events[i].args)) = Len(started[i]) + 1
      BY <1>e, <2>2, <2>3, AppendProperties
    <3> QED BY <1>e, <2>1, <2>2, <3>1
  <2>8. raises[i] = (events[i].raised - 1) + (Len(started[i]) + 1)
    <3>1. Len(started[i]) \in Nat /\ events[i].raised \in Nat
      BY <1>e, <2>2 DEF Event
    <3>2. raises[i] = events[i].raised + Len(started[i])
      BY <1>d, <2>2
    <3>3. \A m, n \in Nat : m + n = (m - 1) + (n + 1)
      OBVIOUS
    <3> HIDE DEF e
    <3> QED BY <3>1, <3>2, <3>3
  <2>9. /\ raises'[i] = e.raised + Len(started'[i])
        /\ \A j \in Entry \ {i} : raises'[j] = raises[j] /\ started'[j] = started[j]
    BY <2>1, <2>4, <2>7, <2>8
  <2> HIDE DEF e
  <2> QED BY <1>f, <2>2, <2>4, <2>6, <2>9
<1>8. CASE NoneRaised \/ SeeError \/ NextIteration \/ LoopEnds \/ RunFunction
  BY <1>a, <1>8, QuietStep
     DEF NoneRaised, SeeError, NextIteration, LoopEnds, RunFunction, history
<1>9. ASSUME NEW i \in Entry, Forget(i) PROVE HistoryInv'
  <2>1. UNCHANGED <<vmVars, host, vmerr>> /\ i \in 1 .. Len(events) /\ events[i] \in Event
    BY <1>b, <1>9 DEF Forget
  <2>2. /\ started'[i] = <<>> /\ pushed'[i] = events[i].args /\ delivered'[i] = <<>>
        /\ raises'[i] = events[i].raised
        /\ \A j \in Entry \ {i} : /\ started'[j] = started[j] /\ pushed'[j] = pushed[j]
                                  /\ delivered'[j] = delivered[j] /\ raises'[j] = raises[j]
    BY <1>c, <1>e, <1>9 DEF Forget
  <2>3. <<>> \o events[i].args = events[i].args /\ events[i].raised + 0 = events[i].raised
        /\ Len(<<>>) = 0
    BY <2>1, ConcatEmptySeq, EmptySeq DEF Event
  <2>4. \A j \in 1 .. Len(events) : delivered'[j] \o events[j].args = pushed'[j]
    BY <1>b, <1>d, <2>1, <2>2, <2>3
  <2>5. \A j \in 1 .. Len(events) : raises'[j] = events[j].raised + Len(started'[j])
    BY <1>b, <1>d, <2>1, <2>2, <2>3
  <2> QED BY <1>a, <1>b, <2>1, <2>4, <2>5
          DEF HistoryInv, NoArgumentLost, ThreadsMatchRaises, vmVars
<1> QED BY <1>1, <1>2, <1>3, <1>4, <1>5, <1>6, <1>7, <1>8, <1>9 DEF Next, Loop, HostCall

(* No argument is lost, duplicated or reordered between the call that      *)
(* pushes it and the thread that gets it (external_event_arg_push_* and    *)
(* the second locked section of the loop).                                 *)
THEOREM ArgumentsArrive == Spec => []NoArgumentLost
<1>1. HistoryInv => NoArgumentLost
  BY DEF HistoryInv
<1> QED BY HistoryInit, HistoryStep, <1>1, PTL DEF Spec

(* What is captured outside the lock is raised when the loop comes back to *)
(* it, and there is a thread for each raise.                               *)
THEOREM StaysConsistent == Spec => []Consistent
<1>1. HistoryInv => Consistent
  BY DEF HistoryInv, Base, Consistent
<1> QED BY HistoryInit, HistoryStep, <1>1, PTL DEF Spec

-----------------------------------------------------------------------------
(* The first n arguments of a call, and whole calls.                       *)
Begun(h, c, n) == [a \in 1 .. n |-> <<h, c, a - 1>>]
WholeCall(h, args) == \E c \in 0 .. MaxCalls : args = Begun(h, c, ArgsPerCall)
Whole(h, calls) == \A k \in DOMAIN calls : WholeCall(h, calls[k])

(* The event of a host that polls goes round: nothing is pending; the host *)
(* has found that and pushes; it has raised the event, and does not find   *)
(* it free until the thread has the arguments.  If calls have no           *)
(* arguments, any number of raises may be pending.                         *)
Round(h, e) ==
    \/ ArgsPerCall = 0 /\ e.args = <<>>
    \/ host[h].clear /\ e.raised = 0 /\ e.args = Begun(h, host[h].call, host[h].args)
    \/ ~host[h].clear /\ e.raised = 0 /\ e.args = <<>>
    \/ ~host[h].clear /\ e.raised = 1 /\ WholeCall(h, e.args)

(* The callbacks that are hidden by an earlier one of that id get nothing, *)
(* and a host finds the event free only if there is one.                   *)
PollInv(h) ==
    /\ host[h].clear => \E i \in DOMAIN events : IsLookup(host[h].id, i)
    /\ ~host[h].clear => host[h].args = 0
    /\ \A i \in Installed(host[h].id) :
         IF IsLookup(host[h].id, i) THEN Round(h, events[i])
         ELSE events[i].raised = 0 /\ events[i].args = <<>>
    /\ \A i \in Installed(host[h].id) : Whole(h, started[i])

CallsInv == Base /\ \A h \in Pollers : HasEventForItself(h) => PollInv(h)

LEMMA CallsInit == Init => CallsInv
<1> SUFFICES ASSUME Init PROVE CallsInv
  OBVIOUS
<1>1. PICK id \in [Hosts -> Ids] :
          host = [h \in Hosts |-> [id |-> id[h], call |-> 0, args |-> 0,
                                   clear |-> h \notin Pollers]]
  BY DEF Init
<1>2. \A h \in Pollers : ~host[h].clear /\ host[h].args = 0
  BY <1>1, EventsAssumption
<1>3. DOMAIN events = {}
  BY EmptySeq DEF Init
<1> QED BY BaseInit, <1>2, <1>3 DEF CallsInv, PollInv, Installed

(* The last argument of a call makes it whole. *)
LEMMA BegunLonger ==
    ASSUME NEW h \in Hosts, NEW c \in Nat, NEW n \in Nat
    PROVE  /\ Begun(h, c, n) \in Seq(Arg)
           /\ Append(Begun(h, c, n), <<h, c, n>>) = Begun(h, c, n + 1)
<1> DEFINE s == Begun(h, c, n)
           l == Begun(h, c, n + 1)
           v == <<h, c, n>>
<1>1. \A m \in Nat : Begun(h, c, m) \in [1 .. m -> Arg]
  BY DEF Begun, Arg
<1>2. /\ s \in Seq(Arg) /\ Len(s) = n /\ v \in Arg
      /\ l \in Seq(Arg) /\ Len(l) = n + 1
  <2>1. \A m \in Nat : Begun(h, c, m) \in Seq(Arg)
    BY <1>1, SeqDef
  <2>2. \A m \in Nat : Len(Begun(h, c, m)) = m
    BY <2>1, LenProperties DEF Begun
  <2>3. v \in Arg
    BY DEF Arg
  <2> QED BY <2>1, <2>2, <2>3
<1>3. /\ Append(s, v) \in Seq(Arg) /\ Len(Append(s, v)) = n + 1
      /\ \A a \in 1 .. n : Append(s, v)[a] = s[a]
      /\ Append(s, v)[n + 1] = v
  BY <1>2, AppendProperties
<1>4. \A a \in 1 .. n + 1 : Append(s, v)[a] = l[a]
  <2>1. \A a \in 1 .. n : s[a] = <<h, c, a - 1>> /\ l[a] = <<h, c, a - 1>>
    BY DEF Begun
  <2>2. l[n + 1] = <<h, c, n>>
    BY DEF Begun
  <2> HIDE DEF s, l
  <2>3. \A a \in 1 .. n + 1 : a \in 1 .. n \/ a = n + 1
    OBVIOUS
  <2> QED BY <1>3, <2>1, <2>2, <2>3
<1> HIDE DEF s, l, v
<1>5. Append(s, v) = l
  BY <1>2, <1>3, <1>4, SeqEqual
<1> QED BY <1>2, <1>5 DEF s, l, v

(* A step that changes at most one entry, and not its id.                  *)
LEMMA IdsStay ==
    ASSUME Base, NEW i \in 1 .. Len(events), NEW e \in Event,
           events' = [events EXCEPT ![i] = e], e.id = events[i].id
    PROVE  /\ \A id : Installed(id)' = Installed(id)
           /\ \A id, j : IsLookup(id, j)' <=> IsLookup(id, j)
           /\ \A j \in DOMAIN events : events'[j] = (IF j = i THEN e ELSE events[j])
                                       /\ events'[j].id = events[j].id
           /\ DOMAIN events' = DOMAIN events /\ DOMAIN events = 1 .. Len(events)
<1>1. /\ DOMAIN events' = DOMAIN events /\ DOMAIN events = 1 .. Len(events)
      /\ \A j \in 1 .. Len(events) : events'[j] = IF j = i THEN e ELSE events[j]
  BY Changed, Typed DEF Base
<1>2. \A j \in DOMAIN events : events'[j].id = events[j].id
  BY <1>1
<1>3. \A id : Installed(id)' = Installed(id)
  BY <1>1, <1>2 DEF Installed
<1> QED BY <1>1, <1>2, <1>3 DEF IsLookup

(* Nothing of this host has changed, or the history of an event is gone. *)
LEMMA PollSame ==
    ASSUME NEW h, PollInv(h), events' = events, host'[h] = host[h],
           \A i \in DOMAIN events : started'[i] \in {started[i], <<>>}
    PROVE  PollInv(h)'
<1>1. \A i \in Installed(host[h].id) : Whole(h, started[i])'
  <2>1. DOMAIN <<>> = {}
    BY EmptySeq
  <2> QED BY <2>1 DEF PollInv, Installed, Whole, WholeCall
<1>2. (/\ host[h].clear => \E i \in DOMAIN events : IsLookup(host[h].id, i)
       /\ ~host[h].clear => host[h].args = 0
       /\ \A i \in Installed(host[h].id) :
            IF IsLookup(host[h].id, i) THEN Round(h, events[i])
            ELSE events[i].raised = 0 /\ events[i].args = <<>>)'
  <2>1. /\ \A id : Installed(id)' = Installed(id)
        /\ \A id, i : IsLookup(id, i)' <=> IsLookup(id, i)
    BY DEF Installed, IsLookup
  <2>2. \A e : Round(h, e)' <=> Round(h, e)
    BY DEF Round, WholeCall, Begun
  <2>3. /\ host[h].clear => \E i \in DOMAIN events : IsLookup(host[h].id, i)
        /\ ~host[h].clear => host[h].args = 0
        /\ \A i \in Installed(host[h].id) :
             IF IsLookup(host[h].id, i) THEN Round(h, events[i])
             ELSE events[i].raised = 0 /\ events[i].args = <<>>
    BY DEF PollInv
  <2> QED BY <2>1, <2>2, <2>3
<1> QED BY <1>1, <1>2 DEF PollInv, Installed

(* An entry of another id has changed. *)
LEMMA PollOther ==
    ASSUME Base, NEW h, PollInv(h), NEW i \in 1 .. Len(events), NEW e \in Event,
           events' = [events EXCEPT ![i] = e], e.id = events[i].id,
           e.id # host[h].id, host'[h] = host[h],
           \A j \in DOMAIN events \ {i} : started'[j] = started[j]
    PROVE  PollInv(h)'
<1>1. /\ \A id : Installed(id)' = Installed(id)
      /\ \A id, j : IsLookup(id, j)' <=> IsLookup(id, j)
      /\ \A j \in DOMAIN events : events'[j] = (IF j = i THEN e ELSE events[j])
                                  /\ events'[j].id = events[j].id
      /\ DOMAIN events' = DOMAIN events
  BY IdsStay
<1>2. \A j \in Installed(host[h].id) : j \in DOMAIN events /\ events'[j] = events[j]
  BY <1>1 DEF Installed
<1>3. \A j \in Installed(host[h].id) :
         IF IsLookup(host[h].id, j) THEN Round(h, events[j])
         ELSE events[j].raised = 0 /\ events[j].args = <<>>
  BY DEF PollInv
<1>4. (\A j \in Installed(host[h].id) :
         IF IsLookup(host[h].id, j) THEN Round(h, events[j])
         ELSE events[j].raised = 0 /\ events[j].args = <<>>)'
  BY <1>1, <1>2, <1>3 DEF Round, WholeCall
<1>5. (\A j \in Installed(host[h].id) : Whole(h, started[j]))'
  <2>1. \A j \in Installed(host[h].id) : j \in DOMAIN events \ {i}
    BY DEF Installed
  <2> QED BY <1>1, <2>1 DEF PollInv, Whole, WholeCall
<1>6. (/\ host[h].clear => \E j \in DOMAIN events : IsLookup(host[h].id, j)
       /\ ~host[h].clear => host[h].args = 0)'
  BY <1>1 DEF PollInv
<1> QED BY <1>4, <1>5, <1>6 DEF PollInv

(* The entry of this host has changed, to another place of its round, and  *)
(* the threads that were started since have whole calls.                   *)
LEMMA PollOwn ==
    ASSUME Base, NEW h, PollInv(h), NEW i \in 1 .. Len(events), NEW e \in Event,
           events' = [events EXCEPT ![i] = e], e.id = events[i].id,
           IsLookup(host[h].id, i), Round(h, e)', host'[h].id = host[h].id,
           ~host'[h].clear => host'[h].args = 0,
           Whole(h, started'[i]), \A j \in DOMAIN events \ {i} : started'[j] = started[j]
    PROVE  PollInv(h)'
<1>1. /\ \A id : Installed(id)' = Installed(id)
      /\ \A id, j : IsLookup(id, j)' <=> IsLookup(id, j)
      /\ \A j \in DOMAIN events : events'[j] = (IF j = i THEN e ELSE events[j])
                                  /\ events'[j].id = events[j].id
      /\ DOMAIN events' = DOMAIN events /\ DOMAIN events = 1 .. Len(events)
  BY IdsStay
<1>2. ASSUME NEW j \in Installed(host[h].id)
      PROVE  (IF IsLookup(host[h].id, j) THEN Round(h, events[j])
              ELSE events[j].raised = 0 /\ events[j].args = <<>>)'
  <2>1. j \in DOMAIN events
    BY DEF Installed
  <2>2. CASE j = i
    BY <1>1, <2>1, <2>2
  <2>3. CASE j # i
    <3>1. events'[j] = events[j] /\ ~IsLookup(host[h].id, j)
      <4>1. \A l \in Installed(host[h].id) : i <= l
        BY DEF IsLookup
      <4>2. IsLookup(host[h].id, j) => j <= i
        BY DEF IsLookup
      <4>3. i \in Int /\ j \in Int
        BY <1>1, <2>1
      <4> QED BY <1>1, <2>1, <2>3, <4>1, <4>2, <4>3
    <3> QED BY <1>1, <3>1 DEF PollInv
  <2> QED BY <2>2, <2>3
<1>3. (\A j \in Installed(host[h].id) : Whole(h, started[j]))'
  <2>1. \A j \in Installed(host[h].id) : j \in DOMAIN events
    BY DEF Installed
  <2> QED BY <1>1, <2>1 DEF PollInv, Whole, WholeCall
<1>4. (/\ host[h].clear => \E j \in DOMAIN events : IsLookup(host[h].id, j)
       /\ ~host[h].clear => host[h].args = 0)'
  BY <1>1
<1> QED BY <1>1, <1>2, <1>3, <1>4 DEF PollInv

(* Another host, or the loop for another id, has changed an entry.         *)
LEMMA LookedUpId ==
    ASSUME NEW id, NEW i, IsLookup(id, i)
    PROVE  i \in DOMAIN events /\ events[i].id = id
BY DEF IsLookup, Installed

LEMMA CallsStep == CallsInv /\ [Next]_vars => CallsInv'
<1> SUFFICES ASSUME CallsInv, [Next]_vars PROVE CallsInv'
  OBVIOUS
<1>a. Base /\ Base'
  BY BaseStep DEF CallsInv
<1>b. /\ DOMAIN events = 1 .. Len(events) /\ Len(events) \in 0 .. MaxInstalls
      /\ \A i \in 1 .. Len(events) : i \in Entry /\ events[i] \in Event
      /\ \A g \in Hosts : host[g] \in [id : Ids, call : 0 .. MaxCalls,
                                       args : 0 .. ArgsPerCall, clear : BOOLEAN]
      /\ DOMAIN host = Hosts
  BY <1>a, Typed DEF Base, TypeOK
<1>c. \A g \in Hosts : host'[g].id = host[g].id
  <2>1. CASE UNCHANGED host
    BY <2>1
  <2>2. ASSUME NEW g \in Hosts, HostCall(g) PROVE \A f \in Hosts : host'[f].id = host[f].id
    <3>1. CASE ArgsCount(g)
      <4>1. UNCHANGED host \/ host' = [host EXCEPT ![g].clear = TRUE]
        BY <3>1 DEF ArgsCount
      <4> QED BY <1>b, <4>1
    <3>2. CASE ArgPush(g)
      BY <1>b, <3>2 DEF ArgPush
    <3>3. CASE Raise(g)
      BY <1>b, <3>3 DEF Raise
    <3> QED BY <2>2, <3>1, <3>2, <3>3 DEF HostCall
  <2>3. UNCHANGED host \/ \E g \in Hosts : HostCall(g)
    BY DEF Next, Loop, Capture, StartThread, NoneRaised, SeeError, NextIteration, LoopEnds,
           RunFunction, Install, Forget, vars
  <2> QED BY <2>1, <2>2, <2>3
<1> SUFFICES ASSUME NEW h \in Pollers, HasEventForItself(h)' PROVE PollInv(h)'
  BY <1>a DEF CallsInv
<1>d. h \in Hosts /\ HasEventForItself(h) /\ PollInv(h)
  BY <1>c, EventsAssumption DEF CallsInv, HasEventForItself
(* What another host does to its event leaves this one alone. *)
<1>e. ASSUME NEW g \in Hosts \ {h}, NEW i \in DOMAIN events, IsLookup(host[g].id, i),
             NEW e \in Event, events' = [events EXCEPT ![i] = e], e.id = events[i].id,
             started' = started, host'[h] = host[h]
      PROVE  PollInv(h)'
  <2>1. e.id # host[h].id
    BY <1>d, <1>e, LookedUpId DEF HasEventForItself
  <2> QED BY <1>a, <1>b, <1>d, <1>e, <2>1, PollOther
<1>1. CASE UNCHANGED vars
  BY <1>1, <1>d, PollSame DEF vars, vmVars, history
<1>2. ASSUME NEW g \in Hosts, ArgsCount(g) PROVE PollInv(h)'
  <2>1. events' = events /\ started' = started
    BY <1>2 DEF ArgsCount, NotInstalled
  <2>2. CASE host'[h] = host[h]
    BY <1>d, <2>1, <2>2, PollSame
  <2>3. CASE host'[h] # host[h]
    <3>0. /\ \E i \in DOMAIN events : IsLookup(host[g].id, i) /\ events[i].args = <<>>
          /\ host' = [host EXCEPT ![g].clear = TRUE] /\ ~host[g].clear /\ host[g].args = 0
      BY <1>2, <2>3 DEF ArgsCount
    <3>1. g = h /\ host' = [host EXCEPT ![h].clear = TRUE]
          /\ ~host[h].clear /\ host[h].args = 0
          /\ \E i \in DOMAIN events : IsLookup(host[h].id, i) /\ events[i].args = <<>>
      <4>1. g = h
        BY <1>b, <1>d, <2>3, <3>0
      <4> QED BY <3>0, <4>1
    <3>2. PICK i \in DOMAIN events : IsLookup(host[h].id, i) /\ events[i].args = <<>>
      BY <3>1
    <3>3. host'[h].clear /\ host'[h].args = 0 /\ host'[h].id = host[h].id
      BY <1>b, <1>d, <3>1
    <3>4. Begun(h, host'[h].call, 0) = <<>>
      BY DEF Begun
    <3>5. i \in Installed(host[h].id) /\ Round(h, events[i])
      BY <1>d, <3>2 DEF PollInv, IsLookup
    <3>6. Round(h, events[i])'
      <4>1. CASE ArgsPerCall = 0
        BY <2>1, <3>2, <4>1 DEF Round
      <4>2. CASE ArgsPerCall # 0
        <5>1. \A c : Begun(h, c, ArgsPerCall) # <<>>
          <6>1. ArgsPerCall \in Nat \ {0} /\ Len(<<>>) = 0
            BY <4>2, EventsAssumption, EmptySeq
          <6>2. \A c : DOMAIN Begun(h, c, ArgsPerCall) = 1 .. ArgsPerCall
            BY DEF Begun
          <6>3. 1 \in 1 .. ArgsPerCall /\ DOMAIN <<>> = {}
            BY <6>1
          <6> QED BY <6>2, <6>3
        <5>2. events[i].raised = 0
          BY <3>1, <3>2, <3>5, <4>2, <5>1 DEF Round, WholeCall
        <5> QED BY <2>1, <3>2, <3>3, <3>4, <5>2 DEF Round
      <4> QED BY <4>1, <4>2
    <3>7. events[i] \in Event /\ i \in 1 .. Len(events)
          /\ events' = [events EXCEPT ![i] = events[i]]
      <4>1. events \in Seq(Event)
        BY <1>a, Typed DEF Base
      <4> QED BY <1>b, <2>1, <3>2, <4>1, LenProperties
    <3>8. PICK e \in Event : e = events[i] /\ events' = events /\ events' = [events EXCEPT ![i] = e]
      BY <2>1, <3>7
    <3>9. Round(h, e)'
      BY <3>6, <3>8
    <3>10. Whole(h, started'[i]) /\ \A j \in DOMAIN events \ {i} : started'[j] = started[j]
      BY <1>d, <2>1, <3>5 DEF PollInv
    <3> QED BY <1>a, <1>d, <3>2, <3>3, <3>7, <3>8, <3>9, <3>10, PollOwn
  <2> QED BY <2>2, <2>3
<1>3. ASSUME NEW g \in Hosts, ArgPush(g) PROVE PollInv(h)'
  <2> DEFINE value == <<g, host[g].call, host[g].args>>
  <2>1. /\ started' = started /\ host[g].clear
        /\ host' = [host EXCEPT ![g].args = @ + 1] /\ host[g].args < ArgsPerCall
    BY <1>3 DEF ArgPush
  <2>2. CASE NotInstalled(host[g].id)
    <3>1. events' = events /\ Installed(host[g].id) = {}
      BY <2>2 DEF NotInstalled
    <3>2. g # h
      BY <1>d, <2>1, <3>1 DEF PollInv, IsLookup
    <3>3. host'[h] = host[h]
      BY <1>b, <1>d, <2>1, <3>2
    <3> QED BY <1>d, <2>1, <3>1, <3>3, PollSame
  <2>3. ASSUME NEW i \in DOMAIN events, IsLookup(host[g].id, i),
               events' = [events EXCEPT ![i].args = Append(@, value)]
        PROVE  PollInv(h)'
    <3>1. /\ i \in 1 .. Len(events) /\ events[i] \in Event
          /\ Append(events[i].args, value) \in Seq(Arg)
      <4>1. value \in Arg
        BY <1>b, EventsAssumption DEF Arg
      <4>2. events[i] \in Event /\ events[i].args \in Seq(Arg)
        BY <1>b DEF Event
      <4> QED BY <1>b, <4>1, <4>2, AppendProperties
    <3>2. PICK e \in Event : e = [events[i] EXCEPT !.args = Append(events[i].args, value)]
      BY <3>1 DEF Event
    <3>3. /\ events' = [events EXCEPT ![i] = e] /\ e.id = events[i].id
          /\ e.raised = events[i].raised /\ e.args = Append(events[i].args, value)
      BY <2>3, <3>1, <3>2 DEF Event
    <3>4. CASE g # h
      <4>1. host'[h] = host[h]
        BY <1>b, <1>d, <2>1, <3>4
      <4> QED BY <1>e, <2>1, <2>3, <3>3, <3>4, <4>1
    <3>5. CASE g = h
      <4>1. /\ host'[h].clear /\ host'[h].call = host[h].call
            /\ host'[h].args = host[h].args + 1 /\ host'[h].id = host[h].id
        BY <1>b, <1>d, <2>1, <3>5
      <4>2. i \in Installed(host[h].id) /\ Round(h, events[i]) /\ ArgsPerCall # 0
        <5>1. host[h].args \in Nat
          BY <1>b, <1>d, EventsAssumption
        <5> QED BY <1>d, <2>1, <2>3, <3>5, <5>1 DEF PollInv, IsLookup
      <4>3. events[i].raised = 0 /\ events[i].args = Begun(h, host[h].call, host[h].args)
        BY <2>1, <3>5, <4>2 DEF Round
      <4>4. Append(Begun(h, host[h].call, host[h].args), <<h, host[h].call, host[h].args>>)
            = Begun(h, host[h].call, host[h].args + 1)
        <5>1. host[h].call \in Nat /\ host[h].args \in Nat
          BY <1>b, <1>d, EventsAssumption
        <5> QED BY <1>d, <5>1, BegunLonger
      <4>5. e.args = Begun(h, host'[h].call, host'[h].args) /\ e.raised = 0
        BY <3>3, <3>5, <4>1, <4>3, <4>4
      <4>6. Round(h, e)'
        BY <4>1, <4>5 DEF Round
      <4>7. Whole(h, started'[i]) /\ \A j \in DOMAIN events \ {i} : started'[j] = started[j]
        BY <1>d, <2>1, <4>2 DEF PollInv
      <4> QED BY <1>a, <1>d, <2>3, <3>1, <3>3, <3>5, <4>1, <4>6, <4>7, PollOwn
    <3> QED BY <3>4, <3>5
  <2> QED BY <1>3, <2>2, <2>3 DEF ArgPush
<1>4. ASSUME NEW g \in Hosts, Raise(g) PROVE PollInv(h)'
  <2>1. /\ started' = started /\ host[g].clear
        /\ host[g].args = ArgsPerCall
        /\ host' = [host EXCEPT ![g].call = IF @ = MaxCalls THEN 0 ELSE @ + 1, ![g].args = 0, ![g].clear = g \notin Pollers]
    BY <1>4 DEF Raise
  <2>2. CASE NotInstalled(host[g].id)
    <3>1. events' = events /\ Installed(host[g].id) = {}
      BY <2>2 DEF NotInstalled
    <3>2. g # h
      BY <1>d, <2>1, <3>1 DEF PollInv, IsLookup
    <3>3. host'[h] = host[h]
      BY <1>b, <1>d, <2>1, <3>2
    <3> QED BY <1>d, <2>1, <3>1, <3>3, PollSame
  <2>3. ASSUME NEW i \in DOMAIN events, IsLookup(host[g].id, i),
               events' = [events EXCEPT ![i].raised = @ + 1]
        PROVE  PollInv(h)'
    <3>1. i \in 1 .. Len(events) /\ events[i] \in Event
      BY <1>b
    <3>2. PICK e \in Event : e = [events[i] EXCEPT !.raised = events[i].raised + 1]
      <4>1. [events[i] EXCEPT !.raised = events[i].raised + 1] \in Event
        <5>1. events[i].raised + 1 \in Nat
          BY <3>1 DEF Event
        <5> QED BY <3>1, <5>1 DEF Event
      <4> QED BY <4>1
    <3>3. /\ events' = [events EXCEPT ![i] = e] /\ e.id = events[i].id
          /\ e.raised = events[i].raised + 1 /\ e.args = events[i].args
      BY <2>3, <3>1, <3>2 DEF Event
    <3>4. CASE g # h
      <4>1. host'[h] = host[h]
        BY <1>b, <1>d, <2>1, <3>4
      <4> QED BY <1>e, <2>1, <2>3, <3>3, <3>4, <4>1
    <3>5. CASE g = h
      <4>1. ~host'[h].clear /\ host'[h].args = 0 /\ host'[h].id = host[h].id
        BY <1>b, <1>d, <2>1, <3>5
      <4>2. i \in Installed(host[h].id) /\ Round(h, events[i])
        BY <1>d, <2>3, <3>5 DEF PollInv, IsLookup
      <4>3. \/ ArgsPerCall = 0 /\ e.args = <<>>
            \/ /\ events[i].raised = 0
               /\ e.args = Begun(h, host[h].call, ArgsPerCall)
        BY <2>1, <3>3, <3>5, <4>2 DEF Round
      <4>4. events[i].raised = 0 => e.raised = 1
        BY <3>3
      <4>5. host[h].call \in 0 .. MaxCalls
        BY <1>b, <1>d
      <4>6. Round(h, e)'
        BY <4>1, <4>3, <4>4, <4>5 DEF Round, WholeCall
      <4>7. Whole(h, started'[i]) /\ \A j \in DOMAIN events \ {i} : started'[j] = started[j]
        BY <1>d, <2>1, <4>2 DEF PollInv
      <4> QED BY <1>a, <1>d, <2>3, <3>1, <3>3, <3>5, <4>1, <4>6, <4>7, PollOwn
    <3> QED BY <3>4, <3>5
  <2> QED BY <1>4, <2>2, <2>3 DEF Raise
<1>5. ASSUME NEW id \in Ids, Install(id) PROVE PollInv(h)'
  <2>1. PICK e \in Event : e = [id |-> id, raised |-> 0, args |-> <<>>]
    BY EmptySeq DEF Event
  <2>2. events' = Append(events, e) /\ host' = host /\ started' = started
    BY <1>5, <2>1 DEF Install, history
  <2>3. /\ DOMAIN events' = 1 .. Len(events) + 1
        /\ \A j \in 1 .. Len(events) : events'[j] = events[j]
        /\ events'[Len(events) + 1] = e
    BY <1>a, <2>2, Longer DEF Base
  <2>n. PICK n \in Nat : n = Len(events) + 1
    BY <1>b
  <2>o. PICK own \in Ids : own = host[h].id /\ own = host'[h].id
    BY <1>b, <1>d, <2>2
  <2>4. /\ n \notin DOMAIN events /\ \A j \in DOMAIN events : j \in Int /\ j < n
        /\ \A j \in DOMAIN events' : j \in DOMAIN events \/ j = n
        /\ \A j \in DOMAIN events : events'[j] = events[j] /\ j \in DOMAIN events'
        /\ n \in DOMAIN events' /\ n \in Int
    BY <1>b, <2>3, <2>n
  <2>5. e.id = id /\ e.raised = 0 /\ e.args = <<>> /\ events'[n] = e
    BY <2>1, <2>3, <2>n
  <2>6. Installed(own)' = Installed(own) \union (IF id = own THEN {n} ELSE {})
    BY <2>2, <2>4, <2>5 DEF Installed
  <2>7. \A j \in Installed(own) : j \in DOMAIN events
    BY DEF Installed
  <2>8. \A j \in Installed(own) : IsLookup(own, j)' <=> IsLookup(own, j)
    BY <2>2, <2>4, <2>6, <2>7 DEF IsLookup
  <2>9. ASSUME NEW j \in Installed(own)
        PROVE  (IF IsLookup(own, j) THEN Round(h, events[j])
                ELSE events[j].raised = 0 /\ events[j].args = <<>>)'
    <3>1. events'[j] = events[j] /\ (IsLookup(own, j)' <=> IsLookup(own, j))
      BY <2>4, <2>7, <2>8
    <3>2. IF IsLookup(own, j) THEN Round(h, events[j])
          ELSE events[j].raised = 0 /\ events[j].args = <<>>
      BY <1>d, <2>o DEF PollInv
    <3> QED BY <2>2, <3>1, <3>2 DEF Round, WholeCall
  <2>10. (IF IsLookup(own, n) THEN Round(h, events[n])
          ELSE events[n].raised = 0 /\ events[n].args = <<>>)' \/ id # own
    <3>1. ASSUME id = own, IsLookup(own, n)' PROVE ~host[h].clear
      <4>1. \A j \in Installed(own) : n <= j
        BY <2>6, <3>1 DEF IsLookup
      <4>2. Installed(own) = {}
        BY <2>4, <2>7, <4>1
      <4> QED BY <1>d, <2>o, <4>2 DEF PollInv, IsLookup
    <3> QED BY <2>2, <2>5, <3>1 DEF Round
  <2>11. (host[h].clear => \E j \in DOMAIN events : IsLookup(own, j))'
    <3>1. ASSUME host[h].clear PROVE \E j \in DOMAIN events : IsLookup(own, j)'
      <4>1. PICK j \in DOMAIN events : IsLookup(own, j)
        BY <1>d, <2>o, <3>1 DEF PollInv
      <4>2. j \in Installed(own)
        BY <4>1 DEF IsLookup
      <4> QED BY <2>8, <4>1, <4>2
    <3> QED BY <2>2, <2>4, <3>1
  <2>12. \A j \in Installed(own)' : Whole(h, started[j])
    <3>1. started[n] = <<>> /\ DOMAIN <<>> = {}
      <4>1. Len(events) < MaxInstalls /\ n > Len(events)
        BY <1>5, <1>b, <2>n DEF Install
      <4>2. n \in Entry
        BY <1>b, <4>1, <2>n, EventsAssumption DEF Entry
      <4> QED BY <1>a, <4>1, <4>2, EmptySeq DEF Base, Blank
    <3>2. Whole(h, started[n])
      BY <3>1 DEF Whole
    <3>3. \A j \in Installed(own) : Whole(h, started[j])
      BY <1>d, <2>o DEF PollInv
    <3> QED BY <2>6, <3>2, <3>3
  <2>13. (~host[h].clear => host[h].args = 0)'
    BY <1>d, <2>2 DEF PollInv
  <2> QED BY <2>o, <2>2, <2>6, <2>9, <2>10, <2>11, <2>12, <2>13 DEF PollInv, Whole, WholeCall
<1>6. CASE Capture
  BY <1>6, <1>d, PollSame DEF Capture, history
<1>7. CASE StartThread
  <2>0. PICK i \in DOMAIN events :
            i = captured /\ i \in 1 .. Len(events) /\ events[i] \in Event /\ events[i].raised > 0
    BY <1>7, <1>a, <1>b DEF StartThread, Base, TypeOK, CapturedIsRaised
  <2>2. PICK e \in Event : e = [events[i] EXCEPT !.raised = events[i].raised - 1, !.args = <<>>]
    <3>1. events[i].raised - 1 \in Nat /\ <<>> \in Seq(Arg)
      BY <2>0, EmptySeq DEF Event
    <3>2. [events[i] EXCEPT !.raised = events[i].raised - 1, !.args = <<>>] \in Event
      BY <2>0, <3>1 DEF Event
    <3> QED BY <3>2
  <2>3. /\ events' = [events EXCEPT ![i] = e] /\ e.id = events[i].id
        /\ e.raised = events[i].raised - 1 /\ e.args = <<>>
    BY <1>7, <2>0, <2>2 DEF StartThread, Event
  <2>4. /\ host' = host /\ started' = [started EXCEPT ![i] = Append(started[i], events[i].args)]
        /\ started \in [Entry -> Seq(Seq(Arg))] /\ i \in Entry
    BY <1>7, <1>a, <1>b, <2>0 DEF StartThread, Base, TypeOK, Arg
  <2>5. started[i] \in Seq(Seq(Arg)) /\ events[i].args \in Seq(Arg)
    BY <2>0, <2>4 DEF Event
  <2>6. /\ \A j \in DOMAIN events \ {i} : started'[j] = started[j]
        /\ started'[i] = Append(started[i], events[i].args)
    BY <1>b, <2>4
  <2>7. CASE events[i].id = host[h].id
    <3>1. i \in Installed(host[h].id)
      BY <2>7 DEF Installed
    <3>2. IsLookup(host[h].id, i) /\ Round(h, events[i])
      BY <1>d, <2>0, <3>1 DEF PollInv
    <3>3. WholeCall(h, events[i].args)
      <4>1. CASE ArgsPerCall = 0 /\ events[i].args = <<>>
        <5>1. Begun(h, 0, ArgsPerCall) = <<>> /\ 0 \in 0 .. MaxCalls
          BY <4>1, EventsAssumption DEF Begun
        <5> QED BY <4>1, <5>1 DEF WholeCall
      <4> QED BY <2>0, <3>2, <4>1 DEF Round
    <3>4. Round(h, e)'
      <4>1. CASE ArgsPerCall = 0
        BY <2>3, <4>1 DEF Round
      <4>2. CASE ArgsPerCall # 0
        BY <2>0, <2>3, <2>4, <3>2, <4>2 DEF Round
      <4> QED BY <4>1, <4>2
    <3>5. host'[h].id = host[h].id /\ (~host'[h].clear => host'[h].args = 0)
      BY <1>d, <2>4 DEF PollInv
    <3>6. Whole(h, started'[i])
      <4>1. Whole(h, started[i])
        BY <1>d, <3>1 DEF PollInv
      <4>2. /\ DOMAIN started[i] = 1 .. Len(started[i]) /\ Len(started[i]) \in Nat
            /\ DOMAIN started'[i] = 1 .. Len(started[i]) + 1
            /\ \A k \in 1 .. Len(started[i]) : started'[i][k] = started[i][k]
            /\ started'[i][Len(started[i]) + 1] = events[i].args
        BY <2>5, <2>6, AppendProperties, LenProperties
      <4>3. \A k \in DOMAIN started'[i] : k \in DOMAIN started[i] \/ k = Len(started[i]) + 1
        BY <4>2
      <4> QED BY <3>3, <4>1, <4>2, <4>3 DEF Whole
    <3> QED BY <1>a, <1>d, <2>0, <2>3, <2>6, <3>2, <3>4, <3>5, <3>6, PollOwn
  <2>8. CASE events[i].id # host[h].id
    BY <1>a, <1>d, <2>0, <2>3, <2>4, <2>6, <2>8, PollOther
  <2> QED BY <2>7, <2>8
<1>8. CASE NoneRaised \/ SeeError \/ NextIteration \/ LoopEnds \/ RunFunction
  <2>1. UNCHANGED <<events, started, host>>
    BY <1>8 DEF NoneRaised, SeeError, NextIteration, LoopEnds, RunFunction, history
  <2> QED BY <1>d, <2>1, PollSame
<1>9. ASSUME NEW i \in Entry, Forget(i) PROVE PollInv(h)'
  <2>1. UNCHANGED <<events, host>> /\ started' = [started EXCEPT ![i] = <<>>]
    BY <1>9 DEF Forget, vmVars
  <2>2. started \in [Entry -> Seq(Seq(Arg))]
    BY <1>a DEF Base, TypeOK, Arg
  <2>3. \A j \in DOMAIN events : started'[j] \in {started[j], <<>>}
    BY <1>b, <2>1, <2>2
  <2> QED BY <1>d, <2>1, <2>3, PollSame
<1> QED BY <1>1, <1>2, <1>3, <1>4, <1>5, <1>6, <1>7, <1>8, <1>9 DEF Next, Loop, HostCall

(* A host that pushes the arguments of its next call only after it was     *)
(* told that none are pending, and has its event for itself, gets every    *)
(* call through whole: the thread the loop starts has the arguments of one *)
(* call and no other (multiple_event_arg_push and its kin in               *)
(* core/multiple.c, capture and start in vm/vm.c).                 *)
THEOREM PollersCallsArrive == Spec => []CallsIntact
<1>1. ASSUME CallsInv,
             NEW i \in DOMAIN events, NEW h \in Pollers,
             HasEventForItself(h), events[i].id = host[h].id,
             NEW k \in DOMAIN started[i]
      PROVE  \E c \in 0 .. MaxCalls :
                started[i][k] = [a \in 1 .. ArgsPerCall |-> <<h, c, a - 1>>]
  <2>1. PollInv(h)
    BY <1>1 DEF CallsInv
  <2>2. i \in Installed(host[h].id)
    BY <1>1 DEF Installed
  <2>3. Whole(h, started[i])
    BY <2>1, <2>2 DEF PollInv
  <2>4. PICK c \in 0 .. MaxCalls : started[i][k] = Begun(h, c, ArgsPerCall)
    BY <2>3 DEF Whole, WholeCall
  <2> QED BY <2>4 DEF Begun
<1>2. CallsInv => CallsIntact
  BY <1>1 DEF CallsIntact
<1> QED BY CallsInit, CallsStep, <1>2, PTL DEF Spec
=============================================================================
