-------------------------- MODULE LifecycleProofs --------------------------
(* Proofs about Lifecycle.tla: whatever a directory of files declares and  *)
(* whatever its functions leave behind, the modules are what the imports   *)
(* lead to, their functions run in their order, nothing is used that is    *)
(* not there, payloads are released once, and the machine ends clean.      *)
EXTENDS Lifecycle, SequenceTheorems, FiniteSetTheorems, TLAPS

Stages == {"create", "load", "init", "autorun", "main", "collect", "destroy", "ended"}

(* The machine is whole and not yet being destroyed.                       *)
Complete == stage \in {"load", "init", "autorun", "main", "collect"}
Early == stage = "create" \/ Complete

(* -- Modules and functions ----------------------------------------------- *)

Files == {Blank} \union UNION {p.files : p \in Programs}
Names == {Blank, NoName} \union
    UNION {{p.declares[f] : f \in DOMAIN p.declares} : p \in Programs}
Module == [id : Nat, file : Files, name : Names, exports : SUBSET Functions]

Start == [at |-> 1, next |-> "predefined"]

Control ==
    /\ program \in Programs /\ stage \in Stages
    /\ failed \in BOOLEAN /\ occurred \in BOOLEAN
    /\ todo \in Seq(Part \union {"close"})
    /\ modules \in Seq(Module)
    /\ \A i \in 1 .. Len(modules) : modules[i].id = i - 1
    /\ modules # <<>> => modules[1] = BlankModule
    /\ fn # NULL => stage \in {"init", "autorun", "main"} /\ cursor.at \in 2 .. (Len(modules) + 1)
    /\ cursor \in [at : Nat \ {0}, next : Functions \union {"nothing"}]
    /\ stage = "create" =>
        /\ \A i, j \in 1 .. Len(todo) : todo[i] = todo[j] => i = j
        /\ modules = IF "builtin_types" \in ToSet(todo) THEN <<>> ELSE <<BlankModule>>
    /\ stage \in {"create", "load"} => cursor = Start /\ ran = <<>>
    /\ stage \in {"load", "init", "autorun", "main"} => Len(modules) >= 2
    /\ stage = "collect" => Len(modules) >= 1
    /\ stage = "init" => cursor.next \in {"predefined", "init"}
    /\ stage = "autorun" => cursor.next = "autorun"
    /\ stage = "main" => cursor.at = 2 /\ cursor.next \in {"main", "nothing"}

(* The functions that have been looked up.                                 *)
Passed(r) ==
    \/ /\ r[1] \in {"predefined", "init"}
       /\ \/ stage # "init" \/ r[2] < cursor.at
          \/ r = <<"predefined", cursor.at>> /\ cursor.next = "init"
    \/ /\ r[1] = "autorun" /\ stage # "init"
       /\ stage # "autorun" \/ r[2] < cursor.at
    \/ /\ r[1] = "main" /\ r[2] = 2 /\ stage \notin {"init", "autorun"}
       /\ stage # "main" \/ cursor.next = "nothing"

Exported == {r \in Functions \X (1 .. Len(modules)) : r[1] \in modules[r[2]].exports}

RanInv ==
    /\ ran \in Seq(Functions \X Nat)
    /\ \A i, j \in 1 .. Len(ran) : i < j => Earlier(ran[i], ran[j])
    /\ stage \in {"init", "autorun", "main"} \/ (stage = "collect" /\ ~ failed)
       => ToSet(ran) = {r \in Exported : Passed(r)}

(* -- Objects ------------------------------------------------------------- *)

TypeNames == UNION {p.classes \union {p.data[l] : l \in DOMAIN p.data} : p \in Programs}
Holders == {NULL} \union UNION {{m[1] : m \in p.methods} : p \in Programs}
Type == [name : TypeNames, native : BOOLEAN, methods : Seq([name : {"method"}, def : Holders]),
         constructor : Holders, destructor : Holders, destroy : Libraries \union {NULL}]

Held ==
    /\ types \in Seq(Type)
    /\ class \in [Instances -> [inner : BOOLEAN, type : Nat, destructing : BOOLEAN,
                                destructed : BOOLEAN]]
    /\ payload \in [Raws -> Libraries \union {NULL}]
    /\ place \in [Objects -> {"none", "thread", "module", "global", "gone"} \union Instances]
    /\ waiting \subseteq Instances
    /\ released \in [Raws -> Nat]
    /\ \A i \in Instances : place[i] \notin Instances
    /\ \A r \in Raws : released[r] = IF place[r] = "gone" THEN 1 ELSE 0
    /\ \A r \in Raws : place[r] # "none" => payload[r] # NULL
    /\ \A r \in Raws : place[r] \in Instances => class[place[r]].inner
    /\ \A r, s \in Raws : place[r] \in Instances /\ place[r] = place[s] => r = s
    /\ \A i \in Instances : class[i].inner \/ class[i].destructing => class[i].type \in 1 .. Len(types)
    /\ \A i \in Instances : class[i].destructing => types[class[i].type].destructor # NULL
    /\ \A i \in waiting : class[i].inner /\ class[i].destructing /\ ~ class[i].destructed
    /\ \A i \in lost : i \in Instances /\ class[i].inner /\ class[i].destructing
    /\ \A i \in Instances : place[i] = "none" => ~ class[i].inner /\ ~ class[i].destructing
    /\ Early => \A i \in Instances : place[i] \in Places \union {"thread"} => class[i].inner
    /\ stage = "create" => \A o \in Objects : place[o] = "none"

(* Between functions only instances that are pending are out of reach, of  *)
(* those that a collection still comes to.                                 *)
Quiet ==
    Early /\ fn = NULL /\ ~ failed =>
        waiting = {} /\ \A i \in Registered : place[i] \notin Places => Pending(i)

(* -- Parts --------------------------------------------------------------- *)

(* Every b in s comes after an a; no b comes after an a.                   *)
Precedes(s, a, b) == \A j \in 1 .. Len(s) : s[j] = b => \E i \in 1 .. (j - 1) : s[i] = a
NotAfter(s, a, b) == \A i, j \in 1 .. Len(s) : i < j => ~ (s[i] = a /\ s[j] = b)

Making ==
    /\ Part \ {"builtin_types"} \subseteq alive \union ToSet(todo)
    /\ alive \intersect ToSet(todo) = {}
    /\ "close" \notin ToSet(todo)
    /\ "resource" \in alive \/ \A b \in Pooled : b \notin alive /\ Precedes(todo, "resource", b)
    /\ open = {} /\ types = <<>> /\ occurred = FALSE

(* What destroys objects, and so needs the pools and the libraries.        *)
Users == {"threads", "modules", "globals", "gc_stub"}

Closing ==
    /\ \A b \in Pooled \union {"gc_stub"} :
        NotAfter(todo, "resource", b) /\ (b \in ToSet(todo) => "resource" \in alive)
    /\ NotAfter(todo, "data_types", "gc_stub")
    /\ "gc_stub" \in ToSet(todo) => "data_types" \in alive
    /\ modules = <<>> \/ Precedes(todo, "modules", "gc_stub")
    /\ waiting = {} \/ Precedes(todo, "threads", "gc_stub")
    /\ \A b \in Users : NotAfter(todo, "close", b)
    /\ ToSet(todo) \intersect Users # {} => \A r \in Raws : payload[r] \in open \union {NULL}
    /\ NotAfter(todo, "threads", "threads")
    /\ "threads" \in ToSet(todo) => Head(todo) = "threads"
    /\ \A o \in Objects :
        /\ place[o] = "thread" => "threads" \in ToSet(todo)
        /\ place[o] = "module" => "modules" \in ToSet(todo)
        /\ place[o] = "global" => "globals" \in ToSet(todo)
    /\ LET left == IF occurred THEN {"gc_stub", "resource", "mutexes", "semaphores"} ELSE {}
       IN /\ left \subseteq alive /\ left \intersect ToSet(todo) = {}
          /\ alive \subseteq left \union ToSet(todo) \union
                (IF "builtins" \in ToSet(todo) THEN {"builtin_types"} ELSE {})
    /\ "close" \in ToSet(todo) \/ occurred \/ open = {} \/ program.keep_dll
    /\ "gc_stub" \in ToSet(todo) \/ occurred \/
        \A r \in Raws : place[r] \notin Instances \ Keepers

(* Libraries in use have their type, with what releases its objects.       *)
Registry(t, libs) ==
    /\ \A k \in 1 .. Len(t) : t[k].destroy \in libs \union {NULL}
    /\ \A l \in libs : /\ l \in Libraries /\ l \in DOMAIN program.data
                       /\ FindType(t, program.data[l]) # 0
                       /\ t[FindType(t, program.data[l])].destroy # NULL

Libs == Registry(types, open) /\ \A r \in Raws : payload[r] \in open \union {NULL}

PartsInv ==
    /\ alive \subseteq Part /\ stale = {}
    /\ stage = "create" => Making
    /\ Complete => Part \ {"builtin_types"} \subseteq alive
    /\ Early => Libs
    /\ stage = "destroy" => Closing
    /\ LeftAtEnd
    /\ stage = "ended" => \A o \in Objects : place[o] \notin Places \union {"thread"}
    /\ stage = "ended" /\ ~ occurred =>
        \A r \in Raws : place[r] \notin Instances \ Keepers

LifeInv == Control /\ RanInv /\ Held /\ Quiet /\ PartsInv
-----------------------------------------------------------------------------
LEMMA Taken ==
    ASSUME NEW S, NEW s \in Seq(S), s # <<>>
    PROVE  /\ Tail(s) \in Seq(S) /\ Head(s) \in S /\ Head(s) = s[1]
           /\ Len(s) \in Nat \ {0} /\ Len(Tail(s)) \in Nat /\ Len(Tail(s)) = Len(s) - 1
           /\ \A i \in 1 .. Len(Tail(s)) : Tail(s)[i] = s[i + 1] /\ i + 1 \in 1 .. Len(s)
           /\ \A i \in 1 .. Len(s) : i # 1 => s[i] = Tail(s)[i - 1] /\ i - 1 \in 1 .. Len(Tail(s))
           /\ ToSet(s) = {Head(s)} \union ToSet(Tail(s))
<1>1. /\ Tail(s) \in Seq(S) /\ Head(s) \in S /\ Len(Tail(s)) = Len(s) - 1
      /\ \A i \in 1 .. Len(Tail(s)) : Tail(s)[i] = s[i + 1]
  BY HeadTailProperties
<1>2. Head(s) = s[1]
  OBVIOUS
<1>3. Len(s) \in Nat \ {0} /\ Len(Tail(s)) \in Nat
  BY <1>1, EmptySeq, LenProperties
<1>4. \A i \in 1 .. Len(Tail(s)) : i + 1 \in 1 .. Len(s)
  BY <1>1, <1>3
<1>5. \A i \in 1 .. Len(s) : i # 1 => i - 1 \in 1 .. Len(Tail(s)) /\ (i - 1) + 1 = i
  BY <1>1, <1>3
<1>6. DOMAIN s = 1 .. Len(s) /\ DOMAIN Tail(s) = 1 .. Len(Tail(s)) /\ 1 \in 1 .. Len(s)
  BY <1>1, <1>3, LenProperties
<1>7. ToSet(s) = {Head(s)} \union ToSet(Tail(s))
  <2>1. ASSUME NEW a \in ToSet(s) PROVE a \in {Head(s)} \union ToSet(Tail(s))
    <3>1. PICK i \in 1 .. Len(s) : a = s[i]
      BY <1>6 DEF ToSet
    <3>2. CASE i = 1
      BY <3>1, <3>2, <1>2
    <3>3. CASE i # 1
      BY <3>1, <3>3, <1>1, <1>5, <1>6 DEF ToSet
    <3> QED BY <3>2, <3>3
  <2>2. ASSUME NEW a \in {Head(s)} \union ToSet(Tail(s)) PROVE a \in ToSet(s)
    BY <1>1, <1>2, <1>4, <1>6 DEF ToSet
  <2> QED BY <2>1, <2>2
<1> QED BY <1>1, <1>2, <1>3, <1>4, <1>5, <1>7

(* What is in a sequence.                                                  *)
LEMMA Within ==
    ASSUME NEW S, NEW s \in Seq(S)
    PROVE  /\ Len(s) \in Nat /\ DOMAIN s = 1 .. Len(s) /\ ToSet(s) \subseteq S
           /\ \A a : a \in ToSet(s) <=> \E i \in 1 .. Len(s) : s[i] = a
           /\ s # <<>> => Len(s) # 0
<1>1. Len(s) \in Nat /\ DOMAIN s = 1 .. Len(s) /\ s \in [1 .. Len(s) -> S]
  BY LenProperties
<1>2. \A a : a \in ToSet(s) <=> \E i \in 1 .. Len(s) : s[i] = a
  BY <1>1 DEF ToSet
<1>3. s # <<>> => Len(s) # 0
  BY EmptySeq
<1> QED BY <1>1, <1>2, <1>3

LEMMA Orders ==
    ASSUME NEW S, NEW s \in Seq(S), s # <<>>, NEW a, NEW b
    PROVE  /\ NotAfter(s, a, b) => NotAfter(Tail(s), a, b)
           /\ NotAfter(s, a, b) /\ Head(s) = a => b \notin ToSet(Tail(s))
           /\ Precedes(s, a, b) => Head(s) # b
           /\ Precedes(s, a, b) /\ Head(s) # a => Precedes(Tail(s), a, b)
<1>1. /\ Tail(s) \in Seq(S) /\ Head(s) = s[1]
      /\ Len(s) \in Nat \ {0} /\ Len(Tail(s)) \in Nat /\ Len(Tail(s)) = Len(s) - 1
      /\ \A i \in 1 .. Len(Tail(s)) : Tail(s)[i] = s[i + 1] /\ i + 1 \in 1 .. Len(s)
      /\ \A i \in 1 .. Len(s) : i # 1 => s[i] = Tail(s)[i - 1] /\ i - 1 \in 1 .. Len(Tail(s))
  BY Taken
<1>2. \A c : c \in ToSet(Tail(s)) <=> \E i \in 1 .. Len(Tail(s)) : Tail(s)[i] = c
  <2>1. Tail(s) \in Seq(S)
    BY <1>1
  <2> QED BY <2>1, Within
<1>3. NotAfter(s, a, b) => NotAfter(Tail(s), a, b)
  <2> SUFFICES ASSUME NotAfter(s, a, b), NEW i \in 1 .. Len(Tail(s)), NEW j \in 1 .. Len(Tail(s)),
                      i < j, Tail(s)[i] = a, Tail(s)[j] = b
               PROVE  FALSE
    BY DEF NotAfter
  <2>1. i + 1 \in 1 .. Len(s) /\ j + 1 \in 1 .. Len(s) /\ i + 1 < j + 1
    BY <1>1
  <2> QED BY <1>1, <2>1 DEF NotAfter
<1>4. ASSUME NotAfter(s, a, b), Head(s) = a, b \in ToSet(Tail(s)) PROVE FALSE
  <2>1. PICK i \in 1 .. Len(Tail(s)) : Tail(s)[i] = b
    BY <1>2, <1>4
  <2>2. 1 \in 1 .. Len(s) /\ i + 1 \in 1 .. Len(s) /\ 1 < i + 1 /\ s[i + 1] = b
    BY <1>1, <2>1
  <2> QED BY <1>1, <1>4, <2>2 DEF NotAfter
<1>5. ASSUME Precedes(s, a, b), Head(s) = b PROVE FALSE
  <2>1. 1 \in 1 .. Len(s) /\ 1 .. (1 - 1) = {}
    BY <1>1
  <2> QED BY <1>1, <1>5, <2>1 DEF Precedes
<1>6. ASSUME Precedes(s, a, b), Head(s) # a PROVE Precedes(Tail(s), a, b)
  <2> SUFFICES ASSUME NEW j \in 1 .. Len(Tail(s)), Tail(s)[j] = b
               PROVE  \E i \in 1 .. (j - 1) : Tail(s)[i] = a
    BY DEF Precedes
  <2>1. j + 1 \in 1 .. Len(s) /\ s[j + 1] = b
    BY <1>1
  <2>2. PICK i \in 1 .. ((j + 1) - 1) : s[i] = a
    BY <1>6, <2>1 DEF Precedes
  <2>3. i # 1 /\ i \in 1 .. Len(s)
    BY <1>1, <1>6, <2>1, <2>2
  <2>4. i - 1 \in 1 .. (j - 1) /\ Tail(s)[i - 1] = a
    BY <1>1, <2>2, <2>3
  <2> QED BY <2>4
<1> QED BY <1>3, <1>4, <1>5, <1>6

(* What is looked for is at the place that is found, and that place does   *)
(* not change when more follows.                                           *)
LEMMA Least ==
    ASSUME NEW S \in SUBSET Nat, S # {}
    PROVE  Min(S) \in S /\ \A n \in S : Min(S) <= n
<1> DEFINE R == {p \in Nat \X Nat : p[1] < p[2]}
<1>1. IsWellFoundedOn(R, Nat)
  BY NatLessThanWellFounded DEF OpToRel, IsWellFoundedOn
<1>2. PICK m \in S : \A n \in S : ~ (<<n, m>> \in R)
  BY <1>1, WFMin
<1>3. ASSUME NEW n \in S PROVE m <= n
  <2>1. m \in Nat /\ n \in Nat
    OBVIOUS
  <2>2. ~ (n < m)
    BY <1>2, <2>1
  <2> QED BY <2>1, <2>2
<1> QED BY <1>3 DEF Min
-----------------------------------------------------------------------------
(* The three orders.                                                       *)
LEMMA Parts ==
    /\ Part = {"gc_stub", "resource", "modules", "shared_libraries", "threads", "globals",
               "builtins", "builtin_types", "data_types", "events", "mutexes", "semaphores",
               "debugger"}
    /\ MakingOrder \in Seq(Part \union {"close"}) /\ ToSet(MakingOrder) = Part
    /\ \A i, j \in 1 .. Len(MakingOrder) : MakingOrder[i] = MakingOrder[j] => i = j
    /\ \A b \in Pooled : Precedes(MakingOrder, "resource", b)
<1>1. /\ Len(MakingOrder) = 13 /\ DOMAIN MakingOrder = 1 .. 13
      /\ MakingOrder[1] = "gc_stub" /\ MakingOrder[2] = "resource"
      /\ MakingOrder[3] = "modules" /\ MakingOrder[4] = "shared_libraries"
      /\ MakingOrder[5] = "threads" /\ MakingOrder[6] = "globals"
      /\ MakingOrder[7] = "builtins" /\ MakingOrder[8] = "builtin_types"
      /\ MakingOrder[9] = "data_types" /\ MakingOrder[10] = "events"
      /\ MakingOrder[11] = "mutexes" /\ MakingOrder[12] = "semaphores"
      /\ MakingOrder[13] = "debugger"
  BY DEF MakingOrder
<1>2. \A i \in 1 .. 13 : \/ i = 1 \/ i = 2 \/ i = 3 \/ i = 4 \/ i = 5 \/ i = 6 \/ i = 7
                         \/ i = 8 \/ i = 9 \/ i = 10 \/ i = 11 \/ i = 12 \/ i = 13
  OBVIOUS
<1>3. \A a : a \in Part <=> \E i \in 1 .. 13 : a = MakingOrder[i]
  BY <1>1 DEF Part, ToSet
<1>4. Part = {"gc_stub", "resource", "modules", "shared_libraries", "threads", "globals",
               "builtins", "builtin_types", "data_types", "events", "mutexes", "semaphores",
               "debugger"}
  <2>1. ASSUME NEW a \in Part
        PROVE  a \in {"gc_stub", "resource", "modules", "shared_libraries", "threads", "globals",
               "builtins", "builtin_types", "data_types", "events", "mutexes", "semaphores",
               "debugger"}
    BY <1>1, <1>2, <1>3
  <2>2. ASSUME NEW a \in {"gc_stub", "resource", "modules", "shared_libraries", "threads", "globals",
               "builtins", "builtin_types", "data_types", "events", "mutexes", "semaphores",
               "debugger"}
        PROVE  a \in Part
    <3>1. /\ 1 \in 1 .. 13 /\ 2 \in 1 .. 13 /\ 3 \in 1 .. 13 /\ 4 \in 1 .. 13 /\ 5 \in 1 .. 13
          /\ 6 \in 1 .. 13 /\ 7 \in 1 .. 13 /\ 8 \in 1 .. 13 /\ 9 \in 1 .. 13 /\ 10 \in 1 .. 13
          /\ 11 \in 1 .. 13 /\ 12 \in 1 .. 13 /\ 13 \in 1 .. 13
      OBVIOUS
    <3> QED BY <1>1, <1>3, <3>1
  <2> QED BY <2>1, <2>2
<1>5. \A i, j \in 1 .. 13 : MakingOrder[i] = MakingOrder[j] => i = j
  BY <1>1, <1>2
<1>6. \A b \in Pooled : Precedes(MakingOrder, "resource", b)
  <2> SUFFICES ASSUME NEW j \in 1 .. 13, MakingOrder[j] \in Pooled PROVE 2 \in 1 .. (j - 1)
    BY <1>1 DEF Precedes
  <2>1. j # 1 /\ j # 2
    BY <1>1 DEF Pooled
  <2> QED BY <2>1
<1>7. MakingOrder \in [1 .. 13 -> Part \union {"close"}]
  BY <1>1, <1>3 DEF MakingOrder
<1>8. MakingOrder \in Seq(Part \union {"close"})
  BY <1>7, SeqDef
<1> QED BY <1>1, <1>4, <1>5, <1>6, <1>8 DEF Part

LEMMA Undone ==
    ASSUME NEW parts, "resource" \in parts \/ parts \intersect Pooled = {}
    PROVE  /\ ToSet(UndoOrder) \union {"builtin_types"} = Part \ {"gc_stub"}
           /\ Missing(parts, UndoOrder) = {}
<1>1. /\ Len(UndoOrder) = 11 /\ DOMAIN UndoOrder = 1 .. 11
      /\ UndoOrder[1] = "threads" /\ UndoOrder[2] = "globals" /\ UndoOrder[3] = "builtins"
      /\ UndoOrder[4] = "events" /\ UndoOrder[5] = "mutexes" /\ UndoOrder[6] = "semaphores"
      /\ UndoOrder[7] = "shared_libraries" /\ UndoOrder[8] = "modules"
      /\ UndoOrder[9] = "data_types" /\ UndoOrder[10] = "resource" /\ UndoOrder[11] = "debugger"
  BY DEF UndoOrder
<1>2. \A i \in 1 .. 11 : \/ i = 1 \/ i = 2 \/ i = 3 \/ i = 4 \/ i = 5 \/ i = 6 \/ i = 7
                         \/ i = 8 \/ i = 9 \/ i = 10 \/ i = 11
  OBVIOUS
<1>3. \A a : a \in ToSet(UndoOrder) <=> \E i \in 1 .. 11 : a = UndoOrder[i]
  BY <1>1 DEF ToSet
<1>4. ToSet(UndoOrder) = Part \ {"gc_stub", "builtin_types"}
  <2>1. ASSUME NEW a \in ToSet(UndoOrder) PROVE a \in Part \ {"gc_stub", "builtin_types"}
    BY <1>1, <1>2, <1>3, Parts
  <2>2. ASSUME NEW a \in Part \ {"gc_stub", "builtin_types"} PROVE a \in ToSet(UndoOrder)
    <3>1. /\ 1 \in 1 .. 11 /\ 2 \in 1 .. 11 /\ 3 \in 1 .. 11 /\ 4 \in 1 .. 11 /\ 5 \in 1 .. 11
          /\ 6 \in 1 .. 11 /\ 7 \in 1 .. 11 /\ 8 \in 1 .. 11 /\ 9 \in 1 .. 11 /\ 10 \in 1 .. 11
          /\ 11 \in 1 .. 11
      OBVIOUS
    <3> QED BY <1>1, <1>3, <3>1, Parts
  <2> QED BY <2>1, <2>2
<1>5. Missing(parts, UndoOrder) = {}
  <2> SUFFICES ASSUME NEW x \in Missing(parts, UndoOrder) PROVE FALSE
    OBVIOUS
  <2>1. PICK i \in 1 .. 11 :
            /\ UndoOrder[i] \in parts
            /\ x \in Needed(UndoOrder[i]) \ (parts \ {UndoOrder[j] : j \in 1 .. (i - 1)})
    BY <1>1 DEF Missing
  <2>2. UndoOrder[i] \in Pooled /\ x = "resource"
    BY <2>1 DEF Needed
  <2>3. "resource" \in parts
    BY <2>1, <2>2
  <2>4. PICK j \in 1 .. (i - 1) : UndoOrder[j] = "resource"
    BY <2>1, <2>2, <2>3
  <2>5. j \in 1 .. 11 /\ j < i
    BY <2>4
  <2>6. j = 10
    BY <1>1, <1>2, <2>4, <2>5
  <2>7. i = 11
    BY <2>5, <2>6
  <2> QED BY <1>1, <2>2, <2>7 DEF Pooled
<1> QED BY <1>4, <1>5, Parts

(* What holds of the order in which the parts are destroyed.               *)
Closes(s) ==
    /\ s \in Seq(Part \union {"close"}) /\ s # <<>> /\ Head(s) = "threads"
    /\ \A b \in Pooled \union {"gc_stub"} : NotAfter(s, "resource", b)
    /\ \A b \in Users : NotAfter(s, "close", b)
    /\ NotAfter(s, "data_types", "gc_stub") /\ NotAfter(s, "threads", "threads")
    /\ Precedes(s, "modules", "gc_stub") /\ Precedes(s, "threads", "gc_stub")

LEMMA ClosesWhole ==
    /\ Closes(DestroyOrder(FALSE))
    /\ ToSet(DestroyOrder(FALSE)) = (Part \union {"close"}) \ {"builtin_types"}
<1> DEFINE s == DestroyOrder(FALSE)
<1>1. /\ Len(s) = 13 /\ DOMAIN s = 1 .. 13
      /\ s[1] = "threads" /\ s[2] = "modules" /\ s[3] = "globals" /\ s[4] = "builtins"
      /\ s[5] = "events" /\ s[6] = "mutexes" /\ s[7] = "semaphores" /\ s[8] = "gc_stub"
      /\ s[9] = "resource" /\ s[10] = "close" /\ s[11] = "data_types"
      /\ s[12] = "shared_libraries" /\ s[13] = "debugger"
  BY DEF DestroyOrder
<1>2. \A i \in 1 .. 13 : \/ i = 1 \/ i = 2 \/ i = 3 \/ i = 4 \/ i = 5 \/ i = 6 \/ i = 7
                         \/ i = 8 \/ i = 9 \/ i = 10 \/ i = 11 \/ i = 12 \/ i = 13
  OBVIOUS
<1>3. s \in [1 .. 13 -> Part \union {"close"}]
  BY Parts DEF DestroyOrder
<1>4. s \in Seq(Part \union {"close"})
  BY <1>3, SeqDef
<1>5. Head(s) = "threads" /\ s # <<>>
  BY <1>1 DEF DestroyOrder
<1> HIDE DEF s
<1>6. ToSet(s) = (Part \union {"close"}) \ {"builtin_types"}
  <2>1. \A a : a \in ToSet(s) <=> \E i \in 1 .. 13 : s[i] = a
    BY <1>1 DEF ToSet
  <2>2. ASSUME NEW a \in ToSet(s) PROVE a \in (Part \union {"close"}) \ {"builtin_types"}
    BY <1>1, <1>2, <2>1, Parts
  <2>3. ASSUME NEW a \in (Part \union {"close"}) \ {"builtin_types"} PROVE a \in ToSet(s)
    <3>1. /\ 1 \in 1 .. 13 /\ 2 \in 1 .. 13 /\ 3 \in 1 .. 13 /\ 4 \in 1 .. 13 /\ 5 \in 1 .. 13
          /\ 6 \in 1 .. 13 /\ 7 \in 1 .. 13 /\ 8 \in 1 .. 13 /\ 9 \in 1 .. 13 /\ 10 \in 1 .. 13
          /\ 11 \in 1 .. 13 /\ 12 \in 1 .. 13 /\ 13 \in 1 .. 13
      OBVIOUS
    <3> QED BY <1>1, <2>1, <3>1, Parts
  <2> QED BY <2>2, <2>3
<1>7. /\ \A j \in 1 .. 13 : s[j] = "threads" => j = 1
      /\ \A j \in 1 .. 13 : s[j] = "gc_stub" => j = 8
      /\ \A j \in 1 .. 13 : s[j] = "resource" => j = 9
      /\ \A j \in 1 .. 13 : s[j] = "close" => j = 10
      /\ \A j \in 1 .. 13 : s[j] = "data_types" => j = 11
      /\ \A j \in 1 .. 13 : s[j] \in Pooled \union Users => j <= 8
  BY <1>1, <1>2 DEF Pooled, Users
<1>8. 1 \in 1 .. (8 - 1) /\ 2 \in 1 .. (8 - 1)
  OBVIOUS
<1>9. Precedes(s, "modules", "gc_stub") /\ Precedes(s, "threads", "gc_stub")
  BY <1>1, <1>7, <1>8 DEF Precedes
<1>10. \A b \in Pooled \union Users : NotAfter(s, "resource", b) /\ NotAfter(s, "close", b)
  <2> SUFFICES ASSUME NEW i \in 1 .. 13, NEW j \in 1 .. 13, i < j, s[i] \in {"resource", "close"},
                      s[j] \in Pooled \union Users
               PROVE  FALSE
    BY <1>1 DEF NotAfter
  <2>1. i = 9 \/ i = 10
    BY <1>7
  <2>2. j <= 8
    BY <1>7
  <2> QED BY <2>1, <2>2
<1>11. NotAfter(s, "data_types", "gc_stub") /\ NotAfter(s, "threads", "threads")
  <2>1. \A i, j \in 1 .. 13 : i < j /\ s[i] = "data_types" => s[j] # "gc_stub"
    BY <1>7
  <2>2. \A i, j \in 1 .. 13 : i < j /\ s[i] = "threads" => s[j] # "threads"
    BY <1>7
  <2> QED BY <1>1, <2>1, <2>2 DEF NotAfter
<1>12. "gc_stub" \in Users
  BY DEF Users
<1> QED BY <1>4, <1>5, <1>6, <1>9, <1>10, <1>11, <1>12 DEF Closes, s

LEMMA ClosesAfterError ==
    /\ Closes(DestroyOrder(TRUE))
    /\ ToSet(DestroyOrder(TRUE)) =
           Part \ {"gc_stub", "resource", "mutexes", "semaphores", "builtin_types"}
<1> DEFINE s == DestroyOrder(TRUE)
<1>1. /\ Len(s) = 8 /\ DOMAIN s = 1 .. 8
      /\ s[1] = "threads" /\ s[2] = "modules" /\ s[3] = "globals" /\ s[4] = "builtins"
      /\ s[5] = "events" /\ s[6] = "data_types" /\ s[7] = "shared_libraries"
      /\ s[8] = "debugger"
  BY DEF DestroyOrder, AfterError
<1>2. \A i \in 1 .. 8 : \/ i = 1 \/ i = 2 \/ i = 3 \/ i = 4 \/ i = 5 \/ i = 6 \/ i = 7 \/ i = 8
  OBVIOUS
<1>3. s \in [1 .. 8 -> Part \union {"close"}]
  BY Parts DEF DestroyOrder, AfterError
<1>4. s \in Seq(Part \union {"close"})
  BY <1>3, SeqDef
<1>5. Head(s) = "threads" /\ s # <<>>
  BY <1>1 DEF DestroyOrder, AfterError
<1> HIDE DEF s
<1>6. ToSet(s) = Part \ {"gc_stub", "resource", "mutexes", "semaphores", "builtin_types"}
  <2>1. \A a : a \in ToSet(s) <=> \E i \in 1 .. 8 : s[i] = a
    BY <1>1 DEF ToSet
  <2>2. ASSUME NEW a \in ToSet(s)
        PROVE  a \in Part \ {"gc_stub", "resource", "mutexes", "semaphores", "builtin_types"}
    BY <1>1, <1>2, <2>1, Parts
  <2>3. ASSUME NEW a \in Part \ {"gc_stub", "resource", "mutexes", "semaphores", "builtin_types"}
        PROVE  a \in ToSet(s)
    <3>1. /\ 1 \in 1 .. 8 /\ 2 \in 1 .. 8 /\ 3 \in 1 .. 8 /\ 4 \in 1 .. 8 /\ 5 \in 1 .. 8
          /\ 6 \in 1 .. 8 /\ 7 \in 1 .. 8 /\ 8 \in 1 .. 8
      OBVIOUS
    <3> QED BY <1>1, <2>1, <3>1, Parts
  <2> QED BY <2>2, <2>3
<1>7. \A j \in 1 .. 8 : /\ s[j] \notin {"gc_stub", "resource", "close"}
                        /\ s[j] = "threads" => j = 1
  BY <1>1, <1>2
<1>8. \A i, j \in 1 .. 8 : i < j /\ s[i] = "threads" => s[j] # "threads"
  BY <1>7
<1> QED BY <1>1, <1>4, <1>5, <1>6, <1>7, <1>8 DEF Closes, NotAfter, Precedes, s
-----------------------------------------------------------------------------
(* What the steps of a function leave behind of the run.                   *)
InFunction ==
    /\ fn # NULL
    /\ UNCHANGED <<program, alive, todo, queue, modules, cursor, ran>>
    /\ \/ UNCHANGED <<stage, failed, occurred>> /\ fn' \in {NULL, fn}
       \/ stage' = "collect" /\ failed' = TRUE /\ fn' = NULL /\ occurred' \in BOOLEAN

LEMMA BodyStep == Destruct \/ EndOfThreads \/ Body => InFunction
<1> USE DEF InFunction, InBody, Unmoved, loading, running, objects, Fail
<1>1. ASSUME NEW i \in Instances, NEW b \in BOOLEAN, RunDestructor(i, b) PROVE InFunction
  BY <1>1 DEF RunDestructor
<1>2. ASSUME EndOfThreads PROVE InFunction
  BY <1>2 DEF EndOfThreads, Remaining
<1>3. ASSUME NEW l \in Libraries, OpenLibrary(l) PROVE InFunction
  BY <1>3 DEF OpenLibrary
<1>4. ASSUME NEW r \in Raws, NEW l \in Libraries, MakeRaw(r, l) PROVE InFunction
  BY <1>4 DEF MakeRaw
<1>5. ASSUME NEW r \in Raws, NEW i \in Instances, CLSPSET(r, i) PROVE InFunction
  BY <1>5 DEF CLSPSET
<1>6. ASSUME NEW c, CLSTYPEREG(c) PROVE InFunction
  BY <1>6 DEF CLSTYPEREG
<1>7. ASSUME NEW c, NEW m, CLSMADD(c, m[1], m[2]) PROVE InFunction
  BY <1>7 DEF CLSMADD
<1>8. ASSUME NEW i \in Instances, NEW c, CLSINSTMK(i, c) PROVE InFunction
  BY <1>8 DEF CLSINSTMK
<1>9. ASSUME NEW o \in Objects, DropObject(o) PROVE InFunction
  BY <1>9 DEF DropObject
<1>10. ASSUME NEW o \in Objects, NEW w \in Places, MoveTo(o, w) PROVE InFunction
  BY <1>10 DEF MoveTo
<1>11. ASSUME Collect PROVE InFunction
  BY <1>11 DEF Collect
<1>12. ASSUME NEW b \in BOOLEAN, Raise(b) PROVE InFunction
  BY <1>12 DEF Raise
<1> QED
  BY <1>1, <1>2, <1>3, <1>4, <1>5, <1>6, <1>7, <1>8, <1>9, <1>10, <1>11, <1>12 DEF Destruct, Body

LEMMA ControlInit == Init => Control
<1> SUFFICES ASSUME Init PROVE Control
  OBVIOUS
<1>1. \A S : <<>> \in Seq(S) /\ Len(<<>>) = 0
  BY EmptySeq
<1>2. todo \in Seq(Part \union {"close"}) /\ "builtin_types" \in ToSet(todo)
      /\ \A i, j \in 1 .. Len(todo) : todo[i] = todo[j] => i = j
  BY Parts DEF Init
<1>3. modules \in Seq(Module) /\ Len(modules) = 0 /\ modules = <<>>
  BY <1>1 DEF Init
<1>4. \A i \in 1 .. Len(modules) : modules[i].id = i - 1
  BY <1>3
<1>5. /\ program \in Programs /\ stage = "create" /\ failed = FALSE /\ occurred = FALSE
      /\ fn = NULL /\ cursor = Start /\ ran = <<>>
      /\ cursor \in [at : Nat \ {0}, next : Functions \union {"nothing"}]
  BY DEF Init, Start, Functions
<1> QED BY <1>2, <1>3, <1>4, <1>5 DEF Control, Stages

LEMMA NewModules ==
    ASSUME Control, NEW f, Loadable(program, f),
           modules' = Append(modules, NewModule(program, f, Len(modules)))
    PROVE  /\ modules' \in Seq(Module) /\ Len(modules') = Len(modules) + 1 /\ Len(modules) \in Nat
           /\ \A i \in 1 .. Len(modules') : modules'[i].id = i - 1
           /\ modules # <<>> => modules'[1] = modules[1] /\ modules' # <<>>
<1> DEFINE m == NewModule(program, f, Len(modules))
<1>1. modules \in Seq(Module) /\ program \in Programs /\ Len(modules) \in Nat
  BY LenProperties DEF Control
<1>2. f \in program.files /\ program.exports[f] \subseteq Functions /\ f \in Files
  BY <1>1, LifecycleAssumption DEF Loadable, Files
<1>3. ModuleName(program, f) \in Names
  BY <1>1 DEF ModuleName, Names
<1>4. m \in Module /\ m.id = Len(modules)
  BY <1>1, <1>2, <1>3 DEF NewModule, Module
<1> HIDE DEF m
<1>5. /\ modules' \in Seq(Module) /\ Len(modules') = Len(modules) + 1 /\ modules' # <<>>
      /\ \A i \in 1 .. Len(modules) : modules'[i] = modules[i]
      /\ modules'[Len(modules) + 1] = m
  <2>1. modules' = Append(modules, m)
    BY DEF m
  <2> QED BY <1>1, <1>4, <2>1, AppendProperties
<1>6. ASSUME NEW i \in 1 .. Len(modules') PROVE modules'[i].id = i - 1
  <2>1. CASE i \in 1 .. Len(modules)
    BY <1>5, <2>1 DEF Control
  <2>2. CASE i = Len(modules) + 1
    BY <1>1, <1>4, <1>5, <2>2
  <2> QED BY <1>1, <1>5, <2>1, <2>2
<1>7. modules # <<>> => 1 \in 1 .. Len(modules)
  BY <1>1, EmptySeq
<1> QED BY <1>1, <1>5, <1>6, <1>7

LEMMA Blanks == <<BlankModule>> \in Seq(Module) /\ Len(<<BlankModule>>) = 1 /\ <<BlankModule>>[1] = BlankModule
<1>1. BlankModule \in Module
  BY DEF BlankModule, Module, Files, Names
<1> QED BY <1>1, SeqDef

LEMMA MakingControl ==
    ASSUME Control, MakePart \/ LeaveTypesOut
    PROVE  Control'
<1>1. /\ stage = "create" /\ todo # <<>> /\ todo' = Tail(todo)
      /\ UNCHANGED <<program, stage, queue, cursor, fn, ran, failed, occurred>>
      /\ modules' = IF Head(todo) = "builtin_types" THEN <<BlankModule>> ELSE modules
  BY DEF MakePart, LeaveTypesOut, running
<1>2. /\ todo' \in Seq(Part \union {"close"}) /\ Head(todo) = todo[1]
      /\ Len(todo) \in Nat \ {0} /\ Len(todo') \in Nat /\ Len(todo') = Len(todo) - 1
      /\ \A i \in 1 .. Len(todo') : todo'[i] = todo[i + 1] /\ i + 1 \in 1 .. Len(todo)
      /\ ToSet(todo) = {Head(todo)} \union ToSet(todo')
  <2>1. todo \in Seq(Part \union {"close"}) /\ todo # <<>>
    BY <1>1 DEF Control
  <2> QED BY <1>1, <2>1, Taken
<1>3. \A i, j \in 1 .. Len(todo') : todo'[i] = todo'[j] => i = j
  <2> SUFFICES ASSUME NEW i \in 1 .. Len(todo'), NEW j \in 1 .. Len(todo'), todo'[i] = todo'[j]
               PROVE  i = j
    OBVIOUS
  <2>1. i + 1 = j + 1
    BY <1>1, <1>2 DEF Control
  <2> QED BY <2>1
<1>4. Head(todo) \notin ToSet(todo')
  <2> SUFFICES ASSUME Head(todo) \in ToSet(todo') PROVE FALSE
    OBVIOUS
  <2>1. PICK i \in 1 .. Len(todo') : todo'[i] = todo[1]
    BY <1>2, Within
  <2>2. i + 1 = 1
    BY <1>1, <1>2, <2>1 DEF Control
  <2> QED BY <2>2
<1>5. modules' = IF "builtin_types" \in ToSet(todo') THEN <<>> ELSE <<BlankModule>>
  BY <1>1, <1>2, <1>4 DEF Control
<1>6. /\ modules' \in Seq(Module)
      /\ modules' # <<>> => modules'[1] = BlankModule
      /\ \A i \in 1 .. Len(modules') : modules'[i].id = i - 1
  <2>1. <<>> \in Seq(Module) /\ Len(<<>>) = 0
    BY EmptySeq
  <2>2. BlankModule.id = 0
    BY DEF BlankModule
  <2>3. CASE modules' = <<>>
    BY <2>1, <2>3
  <2>4. CASE modules' = <<BlankModule>>
    BY <2>2, <2>4, Blanks
  <2> QED BY <1>5, <2>3, <2>4
<1>7. /\ program \in Programs /\ failed \in BOOLEAN /\ occurred \in BOOLEAN
      /\ fn = NULL /\ cursor = Start /\ ran = <<>>
      /\ cursor \in [at : Nat \ {0}, next : Functions \union {"nothing"}]
  BY <1>1 DEF Control
<1> QED BY ONLY <1>1, <1>2, <1>3, <1>5, <1>6, <1>7 DEF Control, Stages

LEMMA LoadingControl ==
    ASSUME Control, NEW f, NEW q, LoadFile(f, q),
           (stage = "create" /\ todo = <<>>) \/ stage = "load"
    PROVE  Control'
<1>1. UNCHANGED <<program, alive, todo, cursor, ran>>
  BY DEF LoadFile
<1>2. fn = NULL /\ Len(modules) \in Nat /\ Len(modules) >= 1
      /\ modules # <<>> /\ cursor = Start /\ cursor.next = "predefined"
  <2>1. ToSet(<<>>) = {}
    <3>1. DOMAIN <<>> = {}
      OBVIOUS
    <3> QED BY <3>1 DEF ToSet
  <2>2. CASE stage = "create"
    <3>1. modules = <<BlankModule>>
      BY <2>1, <2>2 DEF Control
    <3> QED BY <2>2, <3>1, Blanks DEF Control, Start
  <2>3. CASE stage = "load"
    <3>1. modules \in Seq(Module) /\ Len(modules) >= 2
      BY <2>3 DEF Control
    <3>2. Len(modules) \in Nat /\ Len(modules) # 0 /\ modules # <<>>
      BY <3>1, LenProperties, EmptySeq
    <3> QED BY <2>3, <3>1, <3>2 DEF Control, Start
  <2> QED BY <2>2, <2>3
<1>3. CASE Loadable(program, f)
  <2>1. /\ modules' = Append(modules, NewModule(program, f, Len(modules)))
        /\ stage' = "load" /\ UNCHANGED <<failed, fn, occurred>>
    BY <1>3 DEF LoadFile
  <2>2. /\ modules' \in Seq(Module) /\ Len(modules') = Len(modules) + 1
        /\ \A i \in 1 .. Len(modules') : modules'[i].id = i - 1
        /\ modules'[1] = modules[1] /\ Len(modules') >= 2
    BY <1>2, <1>3, <2>1, NewModules
  <2> QED BY <1>1, <1>2, <2>1, <2>2 DEF Control, Stages
<1>4. CASE ~ Loadable(program, f)
  <2>1. stage' = "collect" /\ failed' = TRUE /\ fn' = NULL /\ occurred' = FALSE /\ UNCHANGED modules
    BY <1>4 DEF LoadFile, Fail, loading
  <2> QED BY <1>1, <1>2, <2>1 DEF Control, Stages
<1> QED BY <1>3, <1>4

(* The blank module exports nothing, so that no function is of it.         *)
LEMMA RunsIn ==
    ASSUME Control, RunFunction
    PROVE  cursor.at \in 2 .. Len(modules)
<1>1. cursor.at \in 1 .. Len(modules) /\ cursor.next \in modules[cursor.at].exports
  BY DEF RunFunction, InPass, Current, Control
<1>2. modules # <<>> /\ Len(modules) \in Nat
  <2>1. modules \in Seq(Module)
    BY DEF Control
  <2> QED BY <1>1, <2>1, LenProperties, EmptySeq
<1>3. modules[1].exports = {}
  BY <1>2 DEF Control, BlankModule
<1> QED BY <1>1, <1>2, <1>3

LEMMA PassControl ==
    ASSUME Control, Pass
    PROVE  Control'
<1> USE DEF running, loading, Stages, Fail
<1>0. /\ Len(modules) \in Nat
      /\ cursor = [at |-> cursor.at, next |-> cursor.next]
      /\ cursor.at \in Nat \ {0} /\ cursor.next \in Functions \union {"nothing"}
  <2>1. modules \in Seq(Module) /\ cursor \in [at : Nat \ {0}, next : Functions \union {"nothing"}]
    BY DEF Control
  <2> QED BY <2>1, LenProperties
<1>1. CASE RunFunction \/ PassOver
  <2>1. /\ stage \in {"init", "autorun"}
        /\ UNCHANGED <<program, stage, todo, modules, failed, occurred>>
        /\ cursor' = IF stage = "init" THEN AfterInit(cursor) ELSE [cursor EXCEPT !.at = @ + 1]
    BY <1>1 DEF RunFunction, PassOver, InPass, Advance
  <2>2. /\ cursor' \in [at : Nat \ {0}, next : Functions \union {"nothing"}]
        /\ cursor'.at \in {cursor.at, cursor.at + 1}
        /\ stage = "init" => cursor'.next \in {"predefined", "init"}
        /\ stage = "autorun" => cursor'.next = cursor.next
    BY <1>0, <2>1 DEF AfterInit, Functions
  <2>3. fn' # NULL => cursor'.at \in 2 .. (Len(modules) + 1)
    <3>1. CASE RunFunction
      BY <1>0, <2>2, <3>1, RunsIn
    <3>2. CASE PassOver
      BY <3>2 DEF PassOver, InPass
    <3> QED BY <1>1, <3>1, <3>2
  <2>4. fn' = NULL \/ stage' \in {"init", "autorun", "main"}
    BY <2>1
  <2> HIDE DEF Fail
  <2> QED BY <2>1, <2>2, <2>3, <2>4 DEF Control
<1>2. CASE EndOfPass
  BY <1>0, <1>2 DEF EndOfPass, Control, Functions
<1>3. CASE RunMain
  <2>1. /\ stage = "main" /\ fn = NULL /\ cursor.at = 2 /\ Len(modules) >= 2
        /\ UNCHANGED <<program, todo, modules>>
        /\ cursor' = cursor \/ cursor' = [cursor EXCEPT !.next = "nothing"]
    BY <1>3 DEF RunMain, Control
  <2>2. /\ cursor' \in [at : Nat \ {0}, next : Functions \union {"nothing"}]
        /\ cursor'.at = 2 /\ cursor'.next \in {cursor.next, "nothing"}
    BY <1>0, <2>1
  <2>3. /\ stage' \in {"main", "collect"}
        /\ fn' # NULL => stage' = "main"
        /\ failed' \in BOOLEAN /\ occurred' \in BOOLEAN
    BY <1>3, <2>1 DEF RunMain, Control
  <2> HIDE DEF Fail
  <2> QED BY <1>0, <2>1, <2>2, <2>3 DEF Control
<1>4. CASE EndOfMain
  BY <1>0, <1>4 DEF EndOfMain, Control
<1> QED BY <1>1, <1>2, <1>3, <1>4 DEF Pass

LEMMA ControlStep == Control /\ [Next]_vars => Control'
<1> SUFFICES ASSUME Control, [Next]_vars PROVE Control'
  OBVIOUS
<1>0. /\ modules \in Seq(Module) /\ todo \in Seq(Part \union {"close"})
      /\ <<>> \in Seq(Module) /\ Len(<<>>) = 0
  BY EmptySeq DEF Control
<1>1. CASE MakePart \/ LeaveTypesOut
  BY <1>1, MakingControl
<1>2. CASE MakeNothing
  <2>1. /\ stage = "create" /\ stage' = "ended" /\ failed' = TRUE /\ modules' = <<>>
        /\ UNCHANGED <<program, todo, cursor, fn, occurred>>
    BY <1>2 DEF MakeNothing, running
  <2> QED BY <1>0, <2>1 DEF Control, Stages
<1>3. CASE Load
  <2>1. CASE AllLoaded
    <3>1. /\ stage = "load" /\ stage' = "init"
          /\ UNCHANGED <<program, todo, modules, cursor, fn, ran, failed, occurred>>
      BY <2>1 DEF AllLoaded, loading, running
    <3> QED BY <3>1 DEF Control, Stages, Start
  <2> QED BY <1>3, <2>1, LoadingControl DEF Load, LoadMain, LoadNext
<1>4. CASE Pass
  BY <1>4, PassControl
<1>5. CASE Destruct \/ EndOfThreads \/ Body
  <2>1. InFunction
    BY <1>5, BodyStep
  <2>2. stage \in {"init", "autorun", "main"} /\ Len(modules) \in Nat /\ Len(modules) >= 1
    BY <1>0, <2>1, LenProperties DEF InFunction, Control
  <2> QED BY <2>1, <2>2 DEF InFunction, Control, Stages
<1>6. CASE FinalCollect
  <2>1. /\ stage = "collect" /\ stage' = "destroy" /\ occurred' \in BOOLEAN
        /\ todo' = DestroyOrder(occurred')
        /\ UNCHANGED <<program, modules, cursor, fn, ran, failed>>
    BY <1>6 DEF FinalCollect, loading, running, Control
  <2>2. todo' \in Seq(Part \union {"close"})
    BY <2>1, ClosesWhole, ClosesAfterError DEF Closes
  <2>3. fn = NULL
    BY <2>1 DEF Control
  <2> QED BY <2>1, <2>2, <2>3 DEF Control, Stages
<1>7. CASE DestroyPart
  <2>1. /\ stage = "destroy" /\ todo # <<>> /\ todo' = Tail(todo)
        /\ modules' \in {modules, <<>>}
        /\ UNCHANGED <<program, stage, cursor, fn, ran, failed, occurred>>
    BY <1>7 DEF DestroyPart, running
  <2>2. todo' \in Seq(Part \union {"close"})
    BY <1>0, <2>1, Taken
  <2>3. fn = NULL
    BY <2>1 DEF Control
  <2>4. /\ modules' \in Seq(Module)
        /\ modules' # <<>> => modules' = modules
        /\ modules' = <<>> => Len(modules') = 0
    BY <1>0, <2>1
  <2>5. \A i \in 1 .. Len(modules') : modules'[i].id = i - 1
    BY <2>4 DEF Control
  <2>6. modules' # <<>> => modules'[1] = BlankModule
    BY <2>4 DEF Control
  <2>7. /\ program \in Programs /\ failed \in BOOLEAN /\ occurred \in BOOLEAN
        /\ cursor \in [at : Nat \ {0}, next : Functions \union {"nothing"}]
    BY DEF Control
  <2> QED BY ONLY <2>1, <2>2, <2>3, <2>4, <2>5, <2>6, <2>7 DEF Control, Stages
<1>8. CASE Finish
  <2>1. /\ stage = "destroy" /\ stage' = "ended"
        /\ UNCHANGED <<program, todo, modules, cursor, fn, ran, failed, occurred>>
    BY <1>8 DEF Finish, running
  <2> QED BY <2>1 DEF Control, Stages
<1>9. CASE UNCHANGED vars
  BY <1>9 DEF vars, loading, running, Control
<1> QED BY <1>1, <1>2, <1>3, <1>4, <1>5, <1>6, <1>7, <1>8, <1>9 DEF Next, Make, End
-----------------------------------------------------------------------------
LEMMA Added ==
    ASSUME NEW S, NEW s \in Seq(S), NEW e \in S
    PROVE  /\ Append(s, e) \in Seq(S) /\ Len(s) \in Nat /\ Len(Append(s, e)) = Len(s) + 1
           /\ \A i \in 1 .. Len(s) : Append(s, e)[i] = s[i]
           /\ Append(s, e)[Len(s) + 1] = e
           /\ ToSet(Append(s, e)) = ToSet(s) \union {e}
<1>1. /\ Append(s, e) \in Seq(S) /\ Len(Append(s, e)) = Len(s) + 1
      /\ \A i \in 1 .. Len(s) : Append(s, e)[i] = s[i]
      /\ Append(s, e)[Len(s) + 1] = e
  BY AppendProperties
<1>2. Len(s) \in Nat /\ DOMAIN s = 1 .. Len(s)
  BY LenProperties
<1>3. DOMAIN Append(s, e) = 1 .. (Len(s) + 1)
  BY <1>1, LenProperties
<1>4. \A i \in 1 .. (Len(s) + 1) : i \in 1 .. Len(s) \/ i = Len(s) + 1
  BY <1>2
<1>5. 1 .. Len(s) \subseteq 1 .. (Len(s) + 1) /\ Len(s) + 1 \in 1 .. (Len(s) + 1)
  BY <1>2
<1>6. ASSUME NEW a \in ToSet(Append(s, e)) PROVE a \in ToSet(s) \union {e}
  BY <1>1, <1>2, <1>3, <1>4 DEF ToSet
<1>7. ASSUME NEW a \in ToSet(s) \union {e} PROVE a \in ToSet(Append(s, e))
  BY <1>1, <1>2, <1>3, <1>5 DEF ToSet
<1> QED BY <1>1, <1>2, <1>6, <1>7

(* A function that runs comes after all that ran.                          *)
LEMMA RunsNext ==
    ASSUME RanInv, NEW r \in Functions \X Nat, ran' = Append(ran, r),
           \A x \in ToSet(ran) : Earlier(x, r)
    PROVE  /\ ran' \in Seq(Functions \X Nat)
           /\ \A i, j \in 1 .. Len(ran') : i < j => Earlier(ran'[i], ran'[j])
           /\ ToSet(ran') = ToSet(ran) \union {r}
<1>1. ran \in Seq(Functions \X Nat)
  BY DEF RanInv
<1>2. /\ ran' \in Seq(Functions \X Nat) /\ Len(ran) \in Nat /\ Len(ran') = Len(ran) + 1
      /\ \A i \in 1 .. Len(ran) : ran'[i] = ran[i]
      /\ ran'[Len(ran) + 1] = r /\ ToSet(ran') = ToSet(ran) \union {r}
  BY <1>1, Added
<1>3. ASSUME NEW i \in 1 .. Len(ran'), NEW j \in 1 .. Len(ran'), i < j
      PROVE  Earlier(ran'[i], ran'[j])
  <2>1. i \in 1 .. Len(ran) /\ ran'[i] = ran[i]
    BY <1>2, <1>3
  <2>2. CASE j \in 1 .. Len(ran)
    BY <1>2, <1>3, <2>1, <2>2 DEF RanInv
  <2>3. CASE j = Len(ran) + 1
    <3>1. ran[i] \in ToSet(ran)
      BY <1>1, <2>1, Within
    <3> QED BY <1>2, <2>1, <2>3, <3>1
  <2> QED BY <1>2, <2>2, <2>3
<1> QED BY <1>2, <1>3

LEMMA RanStep == Control /\ RanInv /\ [Next]_vars => RanInv'
<1> SUFFICES ASSUME Control, RanInv, [Next]_vars PROVE RanInv'
  OBVIOUS
<1> USE DEF running, loading, Fail
<1>0. /\ ran \in Seq(Functions \X Nat)
      /\ \A i, j \in 1 .. Len(ran) : i < j => Earlier(ran[i], ran[j])
      /\ cursor = [at |-> cursor.at, next |-> cursor.next]
      /\ cursor.at \in Nat \ {0} /\ cursor.next \in Functions \union {"nothing"}
      /\ Len(modules) \in Nat
  <2>1. modules \in Seq(Module) /\ cursor \in [at : Nat \ {0}, next : Functions \union {"nothing"}]
    BY DEF Control
  <2> QED BY <2>1, LenProperties DEF RanInv
<1>1. ASSUME ran' = ran,
             stage' \in {"create", "load", "destroy", "ended"} \/ (stage' = "collect" /\ failed')
      PROVE  RanInv'
  BY <1>0, <1>1 DEF RanInv
<1>2. ASSUME ran' = ran, stage \in {"init", "autorun", "main"},
             {r \in Exported : Passed(r)}' = {r \in Exported : Passed(r)}
      PROVE  RanInv'
  BY <1>0, <1>2 DEF RanInv
<1>3. CASE Make
  BY <1>1, <1>3 DEF Make, MakePart, LeaveTypesOut, MakeNothing, Control
<1>4. CASE Load
  <2>1. CASE AllLoaded
    <3>1. ran' = <<>> /\ stage' = "init" /\ cursor' = Start
      BY <2>1 DEF AllLoaded, Control
    <3>2. \A r \in Exported' : ~ Passed(r)'
      BY <3>1 DEF Passed, Start, Exported
    <3>3. DOMAIN <<>> = {}
      OBVIOUS
    <3>4. ToSet(ran') = {}
      BY <3>1, <3>3 DEF ToSet
    <3>5. ToSet(ran)' = {r \in Exported : Passed(r)}'
      BY <3>2, <3>4
    <3>6. ran' = ran
      BY <2>1 DEF AllLoaded
    <3> QED BY <1>0, <3>5, <3>6 DEF RanInv
  <2>2. ASSUME NEW f, NEW q, LoadFile(f, q) PROVE RanInv'
    BY <1>1, <2>2 DEF LoadFile
  <2> QED BY <1>4, <2>1, <2>2 DEF Load, LoadMain, LoadNext
<1>5. CASE Pass
  <2>0. stage \in {"init", "autorun", "main"} => ToSet(ran) = {r \in Exported : Passed(r)}
    BY DEF RanInv
  <2>1. CASE RunFunction
    <3> DEFINE new == <<cursor.next, cursor.at>>
    <3>1. /\ stage \in {"init", "autorun"} /\ cursor.at \in 1 .. Len(modules)
          /\ cursor.next \in modules[cursor.at].exports /\ ran' = Append(ran, new)
          /\ stage' = stage /\ modules' = modules
          /\ cursor' = IF stage = "init" THEN AfterInit(cursor) ELSE [cursor EXCEPT !.at = @ + 1]
      BY <1>0, <2>1 DEF RunFunction, InPass, Current, Advance
    <3>2. cursor.next \in Functions /\ modules[cursor.at].exports \subseteq Functions
      <4>1. modules \in Seq(Module)
        BY DEF Control
      <4>2. modules[cursor.at] \in Module
        BY <3>1, <4>1, ElementOfSeq
      <4> QED BY <3>1, <4>2 DEF Module
    <3>3. new \in Functions \X Nat /\ new \in Exported
      BY <1>0, <3>1, <3>2 DEF Exported
    <3>4. cursor.next \in IF stage = "init" THEN {"predefined", "init"} ELSE {"autorun"}
      BY <3>1 DEF Control
    <3>5. ASSUME NEW x \in ToSet(ran) PROVE Earlier(x, new)
      <4>1. x \in Functions \X (1 .. Len(modules)) /\ Passed(x)
        BY <2>0, <3>1 DEF Exported
      <4> QED BY <1>0, <3>1, <3>4, <4>1 DEF Passed, Earlier, PassOf, Functions
    <3>6. /\ ran' \in Seq(Functions \X Nat)
          /\ \A i, j \in 1 .. Len(ran') : i < j => Earlier(ran'[i], ran'[j])
          /\ ToSet(ran') = ToSet(ran) \union {new}
      BY <3>1, <3>3, <3>5, RunsNext
    <3>7. cursor' = IF stage = "init" /\ cursor.next = "predefined" THEN [at |-> cursor.at, next |-> "init"]
                    ELSE [at |-> cursor.at + 1, next |-> IF stage = "init" THEN "predefined" ELSE cursor.next]
      BY <1>0, <3>1 DEF AfterInit
    <3>8. ASSUME NEW x \in Functions \X (1 .. Len(modules)) PROVE Passed(x)' <=> Passed(x) \/ x = new
      BY <1>0, <3>1, <3>4, <3>7 DEF Passed, Functions
    <3>9. Exported' = Exported
      BY <3>1 DEF Exported
    <3>10. ToSet(ran') = {r \in Exported : Passed(r)}'
      BY <2>0, <3>1, <3>3, <3>6, <3>8, <3>9 DEF Exported
    <3> QED BY <3>6, <3>10 DEF RanInv
  <2>2. CASE PassOver
    <3> DEFINE new == <<cursor.next, cursor.at>>
    <3>1. /\ stage \in {"init", "autorun"} /\ cursor.at \in 1 .. Len(modules)
          /\ cursor.next \notin modules[cursor.at].exports
          /\ ran' = ran /\ stage' = stage /\ modules' = modules
          /\ cursor' = IF stage = "init" THEN AfterInit(cursor) ELSE [cursor EXCEPT !.at = @ + 1]
      BY <1>0, <2>2 DEF PassOver, InPass, Current, Advance
    <3>2. new \notin Exported
      BY <3>1 DEF Exported
    <3>3. cursor.next \in IF stage = "init" THEN {"predefined", "init"} ELSE {"autorun"}
      BY <3>1 DEF Control
    <3>4. cursor' = IF stage = "init" /\ cursor.next = "predefined" THEN [at |-> cursor.at, next |-> "init"]
                    ELSE [at |-> cursor.at + 1, next |-> IF stage = "init" THEN "predefined" ELSE cursor.next]
      BY <1>0, <3>1 DEF AfterInit
    <3>5. ASSUME NEW x \in Functions \X (1 .. Len(modules)) PROVE Passed(x)' <=> Passed(x) \/ x = new
      BY <1>0, <3>1, <3>3, <3>4 DEF Passed, Functions
    <3>6. Exported' = Exported
      BY <3>1 DEF Exported
    <3>7. {r \in Exported : Passed(r)}' = {r \in Exported : Passed(r)}
      BY <3>2, <3>5, <3>6 DEF Exported
    <3> QED BY <1>2, <3>1, <3>7
  <2>3. CASE EndOfPass
    <3>1. /\ stage \in {"init", "autorun"} /\ cursor.at > Len(modules)
          /\ ran' = ran /\ modules' = modules
          /\ stage' = IF stage = "init" THEN "autorun" ELSE "main"
          /\ cursor' = IF stage = "init" THEN [at |-> 1, next |-> "autorun"] ELSE [at |-> 2, next |-> "main"]
      BY <2>3 DEF EndOfPass
    <3>2. ASSUME NEW x \in Functions \X (1 .. Len(modules)) PROVE Passed(x)' <=> Passed(x)
      BY <1>0, <3>1 DEF Passed, Functions
    <3>3. Exported' = Exported
      BY <3>1 DEF Exported
    <3>4. {r \in Exported : Passed(r)}' = {r \in Exported : Passed(r)}
      BY <3>2, <3>3 DEF Exported
    <3> QED BY <1>2, <3>1, <3>4
  <2>4. CASE RunMain
    <3> DEFINE new == <<"main", cursor.at>>
    <3>1. /\ stage = "main" /\ cursor.at = 2 /\ Len(modules) >= 2 /\ modules' = modules
          /\ cursor.next = "main"
      BY <2>4 DEF RunMain, Control
    <3>2. CASE "main" \in modules[2].exports
      <4>1. /\ ran' = Append(ran, new) /\ stage' = stage
            /\ cursor' = [cursor EXCEPT !.next = "nothing"]
        BY <2>4, <3>1, <3>2 DEF RunMain, Current
      <4>2. cursor' = [at |-> 2, next |-> "nothing"]
        BY <1>0, <3>1, <4>1
      <4>3. new \in Functions \X Nat /\ new \in Exported
        BY <1>0, <3>1, <3>2 DEF Exported, Functions
      <4>4. ASSUME NEW x \in ToSet(ran) PROVE Earlier(x, new)
        <5>1. x \in Functions \X (1 .. Len(modules)) /\ Passed(x)
          BY <2>0, <3>1 DEF Exported
        <5> QED BY <3>1, <5>1 DEF Passed, Earlier, PassOf, Functions
      <4>5. /\ ran' \in Seq(Functions \X Nat)
            /\ \A i, j \in 1 .. Len(ran') : i < j => Earlier(ran'[i], ran'[j])
            /\ ToSet(ran') = ToSet(ran) \union {new}
        BY <4>1, <4>3, <4>4, RunsNext
      <4>6. ASSUME NEW x \in Functions \X (1 .. Len(modules)) PROVE Passed(x)' <=> Passed(x) \/ x = new
        BY <3>1, <4>1, <4>2 DEF Passed, Functions
      <4>7. Exported' = Exported
        BY <3>1 DEF Exported
      <4>8. ToSet(ran') = {r \in Exported : Passed(r)}'
        BY <2>0, <3>1, <4>3, <4>5, <4>6, <4>7 DEF Exported
      <4> QED BY <4>5, <4>8 DEF RanInv
    <3>3. CASE "main" \notin modules[2].exports
      <4>1. ran' = ran /\ stage' = "collect" /\ failed' \in BOOLEAN
        BY <2>4, <3>1, <3>3 DEF RunMain, Current, Control
      <4>2. ASSUME NEW x \in Exported PROVE Passed(x)' <=> Passed(x)
        BY <3>1, <3>3, <4>1 DEF Passed, Functions, Exported
      <4>3. Exported' = Exported
        BY <3>1 DEF Exported
      <4>4. {r \in Exported : Passed(r)}' = {r \in Exported : Passed(r)}
        BY <4>2, <4>3
      <4> QED BY <1>2, <3>1, <4>1, <4>4
    <3> QED BY <3>2, <3>3
  <2>5. CASE EndOfMain
    <3>1. /\ stage = "main" /\ stage' = "collect" /\ cursor.next = "nothing"
          /\ ran' = ran /\ modules' = modules /\ cursor' = cursor
      BY <2>5 DEF EndOfMain
    <3>2. ASSUME NEW x \in Functions \X (1 .. Len(modules)) PROVE Passed(x)' <=> Passed(x)
      BY <3>1 DEF Passed, Functions
    <3>3. Exported' = Exported
      BY <3>1 DEF Exported
    <3>4. {r \in Exported : Passed(r)}' = {r \in Exported : Passed(r)}
      BY <3>2, <3>3 DEF Exported
    <3> QED BY <1>2, <3>1, <3>4
  <2> QED BY <1>5, <2>1, <2>2, <2>3, <2>4, <2>5 DEF Pass
<1>6. CASE Destruct \/ EndOfThreads \/ Body
  <2>1. InFunction
    BY <1>6, BodyStep
  <2>2. CASE stage' = stage
    <3>1. {r \in Exported : Passed(r)}' = {r \in Exported : Passed(r)}
      BY <2>1, <2>2 DEF InFunction, Exported, Passed
    <3> QED BY <1>2, <2>1, <3>1 DEF InFunction, Control
  <2> QED BY <1>1, <2>1, <2>2 DEF InFunction
<1>7. CASE End
  BY <1>1, <1>7 DEF End, FinalCollect, DestroyPart, Finish
<1>8. CASE UNCHANGED vars
  <2>1. {r \in Exported : Passed(r)}' = {r \in Exported : Passed(r)}
    BY <1>8 DEF vars, Exported, Passed
  <2> QED BY <1>8, <2>1 DEF vars, RanInv
<1> QED BY <1>3, <1>4, <1>5, <1>6, <1>7, <1>8 DEF Next
-----------------------------------------------------------------------------
LEMMA FirstIs ==
    ASSUME NEW t \in Seq(Type), NEW n
    PROVE  /\ FindType(t, n) \in 0 .. Len(t)
           /\ FindType(t, n) # 0 => t[FindType(t, n)].name = n
           /\ \A k \in 1 .. Len(t) : t[k].name = n => FindType(t, n) # 0 /\ FindType(t, n) <= k
<1> DEFINE found == {k \in DOMAIN t : t[k].name = n}
<1>1. Len(t) \in Nat /\ DOMAIN t = 1 .. Len(t)
  BY LenProperties
<1>2. found \in SUBSET Nat /\ FindType(t, n) = IF found = {} THEN 0 ELSE Min(found)
  BY <1>1 DEF FindType
<1>3. found # {} => Min(found) \in found /\ \A k \in found : Min(found) <= k
  BY <1>2, Least
<1>4. \A k : k \in found <=> k \in 1 .. Len(t) /\ t[k].name = n
  BY <1>1
<1> HIDE DEF found
<1>5. CASE found = {}
  BY <1>1, <1>2, <1>4, <1>5
<1>6. CASE found # {}
  <2>1. FindType(t, n) \in found /\ \A k \in found : FindType(t, n) <= k
    BY <1>2, <1>3, <1>6
  <2> QED BY <1>1, <1>4, <2>1
<1> QED BY <1>5, <1>6

(* Types stay where they are, with their names and destructors.            *)
TypesKept(t, u) ==
    /\ u \in Seq(Type) /\ Len(t) <= Len(u)
    /\ \A k \in 1 .. Len(t) :
        /\ u[k].name = t[k].name
        /\ t[k].destructor # NULL => u[k].destructor # NULL

LEMMA FoundAgain ==
    ASSUME NEW t \in Seq(Type), NEW u, TypesKept(t, u), NEW n, FindType(t, n) # 0
    PROVE  FindType(u, n) = FindType(t, n)
<1>1. u \in Seq(Type) /\ Len(t) \in Nat /\ Len(u) \in Nat /\ Len(t) <= Len(u)
  BY LenProperties DEF TypesKept
<1>2. FindType(t, n) \in 1 .. Len(t) /\ t[FindType(t, n)].name = n
  BY <1>1, FirstIs
<1>3. u[FindType(t, n)].name = n /\ FindType(t, n) \in 1 .. Len(u)
  BY <1>1, <1>2 DEF TypesKept
<1>4. FindType(u, n) # 0 /\ FindType(u, n) <= FindType(t, n) /\ FindType(u, n) \in 0 .. Len(u)
      /\ u[FindType(u, n)].name = n
  BY <1>1, <1>3, FirstIs
<1>5. t[FindType(u, n)].name = n /\ FindType(u, n) \in 1 .. Len(t)
  BY <1>1, <1>2, <1>4 DEF TypesKept
<1>6. FindType(t, n) <= FindType(u, n)
  BY <1>5, FirstIs
<1> QED BY <1>1, <1>2, <1>4, <1>6

LEMMA TypeAdded ==
    ASSUME NEW t \in Seq(Type), NEW n \in TypeNames, NEW native \in BOOLEAN, NULL \in Holders
    PROVE  LET u == Append(t, NewType(n, native))
           IN  /\ TypesKept(t, u) /\ Len(u) = Len(t) + 1 /\ u[Len(t) + 1] = NewType(n, native)
               /\ \A k \in 1 .. Len(t) : u[k] = t[k]
<1> DEFINE e == NewType(n, native)
           u == Append(t, e)
<1>1. <<>> \in Seq([name : {"method"}, def : Holders])
  BY EmptySeq
<1>2. e \in Type
  BY <1>1 DEF NewType, Type
<1> HIDE DEF e
<1>3. /\ u \in Seq(Type) /\ Len(u) = Len(t) + 1 /\ u[Len(t) + 1] = e
      /\ \A k \in 1 .. Len(t) : u[k] = t[k]
  BY <1>2, AppendProperties
<1>4. Len(t) \in Nat
  BY LenProperties
<1> QED BY <1>3, <1>4 DEF TypesKept, e

(* One type is replaced.                                                   *)
LEMMA Changed ==
    ASSUME NEW t \in Seq(Type), NEW k \in 1 .. Len(t), NEW e \in Type,
           e.name = t[k].name, t[k].destructor # NULL => e.destructor # NULL
    PROVE  /\ TypesKept(t, [t EXCEPT ![k] = e]) /\ Len([t EXCEPT ![k] = e]) = Len(t)
           /\ \A j \in 1 .. Len(t) : [t EXCEPT ![k] = e][j] = IF j = k THEN e ELSE t[j]
<1>1. /\ [t EXCEPT ![k] = e] \in Seq(Type) /\ Len([t EXCEPT ![k] = e]) = Len(t)
      /\ \A j \in 1 .. Len(t) : [t EXCEPT ![k] = e][j] = IF j = k THEN e ELSE t[j]
  BY ExceptSeq
<1>2. Len(t) \in Nat
  BY LenProperties
<1> QED BY <1>1, <1>2 DEF TypesKept

LEMMA MethodAdded ==
    ASSUME NEW t \in Type, NEW def \in Holders \ {NULL}, NEW kind
    PROVE  /\ AddTo(t, "method", def, kind) \in Type
           /\ AddTo(t, "method", def, kind).name = t.name
           /\ AddTo(t, "method", def, kind).destroy = t.destroy
           /\ t.destructor # NULL => AddTo(t, "method", def, kind).destructor # NULL
<1> DEFINE e == AddTo(t, "method", def, kind)
           more == Append(t.methods, [name |-> "method", def |-> def])
           made == IF kind = "constructor" THEN def ELSE t.constructor
           ends == IF kind = "destructor" THEN def ELSE t.destructor
<1>2. [name |-> "method", def |-> def] \in [name : {"method"}, def : Holders]
  OBVIOUS
<1>3. more \in Seq([name : {"method"}, def : Holders])
  BY <1>2, AppendProperties DEF Type
<1>4. made \in Holders /\ ends \in Holders
  BY DEF Type
<1>5. t.destructor # NULL => ends # NULL
  OBVIOUS
<1> HIDE DEF more, made, ends
<1>6. e = [[t EXCEPT !.methods = more, !.constructor = made] EXCEPT !.destructor = ends]
  BY DEF AddTo, more, made, ends
<1>7. /\ e \in Type /\ e.name = t.name /\ e.destroy = t.destroy
      /\ e.destructor = ends
  BY <1>3, <1>4, <1>6 DEF Type
<1> QED BY <1>5, <1>7

LEMMA Alike == \A t \in Seq(Type) : TypesKept(t, t)
<1> SUFFICES ASSUME NEW t \in Seq(Type) PROVE TypesKept(t, t)
  OBVIOUS
<1>1. Len(t) \in Nat
  BY LenProperties
<1> QED BY <1>1 DEF TypesKept

LEMMA Both ==
    ASSUME NEW t \in Seq(Type), NEW u, NEW v, TypesKept(t, u), TypesKept(u, v)
    PROVE  TypesKept(t, v)
<1>1. u \in Seq(Type) /\ v \in Seq(Type)
  BY DEF TypesKept
<1>2. Len(t) \in Nat /\ Len(u) \in Nat /\ Len(v) \in Nat
  BY <1>1, LenProperties
<1> QED BY <1>1, <1>2 DEF TypesKept

LEMMA OpenTypes ==
    ASSUME Control, Held, NEW l \in Libraries, OpenLibrary(l)
    PROVE  /\ TypesKept(types, types')
           /\ Registry(types, open) => Registry(types', open')
<1> DEFINE n == program.data[l]
           t == RegisterData(types, n)
           k == FindType(t, n)
<1>1. /\ types \in Seq(Type) /\ n \in TypeNames /\ NULL \in Holders /\ Len(types) \in Nat
      /\ l \in DOMAIN program.data
  <2>1. program \in Programs /\ types \in Seq(Type)
    BY DEF Control, Held
  <2>2. l \in DOMAIN program.data
    BY DEF OpenLibrary
  <2> QED BY <2>1, <2>2, LenProperties DEF TypeNames, Holders
<1>2. /\ TypesKept(types, t) /\ Len(t) = Len(types) + 1 /\ t[Len(types) + 1] = NewType(n, TRUE)
      /\ \A j \in 1 .. Len(types) : t[j] = types[j]
  BY <1>1, TypeAdded DEF RegisterData
<1>3. t \in Seq(Type)
  BY <1>2 DEF TypesKept
<1>4. NewType(n, TRUE).name = n /\ NewType(n, TRUE).destroy = NULL
  BY DEF NewType
<1> HIDE DEF t, n
<1>5. k \in 1 .. Len(t) /\ k # 0 /\ t[k].name = n
  <2>1. Len(types) + 1 \in 1 .. Len(t)
    BY <1>1, <1>2
  <2>2. t[Len(types) + 1].name = n
    BY <1>2, <1>4
  <2>3. /\ FindType(t, n) \in 0 .. Len(t) /\ FindType(t, n) # 0
        /\ t[FindType(t, n)].name = n
    BY <1>3, <2>1, <2>2, FirstIs
  <2> QED BY <1>1, <1>2, <2>3
<1>6. types' = [t EXCEPT ![k].destroy = l] /\ open' = open \union {l} /\ program' = program
  BY <1>5 DEF OpenLibrary, SetDestroy, t, n, Unmoved
<1> HIDE DEF k
<1>7. /\ TypesKept(t, types') /\ Len(types') = Len(t)
      /\ \A j \in 1 .. Len(t) : types'[j].destroy = IF j = k THEN l ELSE t[j].destroy
  <2> DEFINE e == [t[k] EXCEPT !.destroy = l]
  <2>1. t[k] \in Type
    BY <1>3, <1>5, ElementOfSeq
  <2>2. e \in Type /\ e.destroy = l /\ e.name = t[k].name /\ e.destructor = t[k].destructor
    BY <2>1 DEF Type
  <2>3. types' = [t EXCEPT ![k] = e]
    BY <1>6
  <2> HIDE DEF e
  <2>4. /\ TypesKept(t, types') /\ Len(types') = Len(t)
        /\ \A j \in 1 .. Len(t) : types'[j] = IF j = k THEN e ELSE t[j]
    <3>1. /\ TypesKept(t, [t EXCEPT ![k] = e]) /\ Len([t EXCEPT ![k] = e]) = Len(t)
          /\ \A j \in 1 .. Len(t) : [t EXCEPT ![k] = e][j] = IF j = k THEN e ELSE t[j]
      BY ONLY <1>3, <1>5, <2>2, Changed
    <3> QED BY <2>3, <3>1
  <2> QED BY <2>2, <2>4
<1>8. TypesKept(types, types')
  BY <1>1, <1>2, <1>7, Both
<1>9. ASSUME Registry(types, open) PROVE Registry(types', open')
  <2>1. ASSUME NEW j \in 1 .. Len(types') PROVE types'[j].destroy \in open' \union {NULL}
    <3>1. CASE j = k
      BY <1>6, <1>7, <3>1
    <3>2. CASE j # k /\ j = Len(types) + 1
      BY <1>2, <1>4, <1>7, <3>2
    <3>3. CASE j # k /\ j \in 1 .. Len(types)
      BY <1>2, <1>6, <1>7, <1>9, <3>3 DEF Registry
    <3> QED BY <1>1, <1>2, <1>7, <3>1, <3>2, <3>3
  <2>2. FindType(types', n) = k
    BY <1>3, <1>5, <1>7, FoundAgain DEF k
  <2>3. ASSUME NEW m \in open', m # l
        PROVE  /\ m \in Libraries /\ m \in DOMAIN program.data
               /\ FindType(types', program.data[m]) # 0
               /\ types'[FindType(types', program.data[m])].destroy # NULL
    <3> DEFINE q == FindType(types, program.data[m])
    <3>1. /\ m \in open /\ m \in Libraries /\ m \in DOMAIN program.data
          /\ q # 0 /\ types[q].destroy # NULL
      BY <1>6, <1>9, <2>3 DEF Registry
    <3>2. q \in 1 .. Len(types)
      BY <1>1, <3>1, FirstIs
    <3>3. FindType(types', program.data[m]) = q
      BY <1>1, <1>8, <3>1, FoundAgain
    <3>4. types'[q].destroy # NULL
      BY <1>1, <1>2, <1>7, <3>1, <3>2, LifecycleAssumption
    <3> QED BY <3>1, <3>3, <3>4
  <2>4. l \in Libraries /\ l \in DOMAIN program.data /\ types'[k].destroy # NULL
    BY <1>1, <1>5, <1>7, LifecycleAssumption
  <2> QED BY <1>5, <1>6, <2>1, <2>2, <2>3, <2>4 DEF Registry, n
<1> QED BY <1>8, <1>9

LEMMA ClassTypes ==
    ASSUME Control, Held, NEW c \in program.classes, CLSTYPEREG(c)
    PROVE  /\ TypesKept(types, types')
           /\ Registry(types, open) => Registry(types', open')
<1>1. /\ types \in Seq(Type) /\ c \in TypeNames /\ NULL \in Holders /\ Len(types) \in Nat
      /\ program' = program /\ open' = open
  <2>1. program \in Programs /\ types \in Seq(Type)
    BY DEF Control, Held
  <2> QED BY <2>1, LenProperties DEF TypeNames, Holders, CLSTYPEREG
<1>2. CASE UNCHANGED types
  BY <1>1, <1>2, Alike DEF Registry
<1>3. CASE types' = RegisterClass(types, c)
  <2>1. /\ TypesKept(types, types') /\ Len(types') = Len(types) + 1
        /\ types'[Len(types) + 1] = NewType(c, FALSE)
        /\ \A j \in 1 .. Len(types) : types'[j] = types[j]
    BY <1>1, <1>3, TypeAdded DEF RegisterClass
  <2>2. ASSUME Registry(types, open) PROVE Registry(types', open')
    <3>1. ASSUME NEW j \in 1 .. Len(types') PROVE types'[j].destroy \in open' \union {NULL}
      <4>1. CASE j = Len(types) + 1
        BY <2>1, <4>1 DEF NewType
      <4>2. CASE j \in 1 .. Len(types)
        BY <1>1, <2>1, <2>2, <4>2 DEF Registry
      <4> QED BY <1>1, <2>1, <4>1, <4>2
    <3>2. ASSUME NEW m \in open'
          PROVE  /\ m \in Libraries /\ m \in DOMAIN program.data
                 /\ FindType(types', program.data[m]) # 0
                 /\ types'[FindType(types', program.data[m])].destroy # NULL
      <4> DEFINE q == FindType(types, program.data[m])
      <4>1. /\ m \in open /\ m \in Libraries /\ m \in DOMAIN program.data
            /\ q # 0 /\ types[q].destroy # NULL
        BY <1>1, <2>2, <3>2 DEF Registry
      <4>2. q \in 1 .. Len(types)
        BY <1>1, <4>1, FirstIs
      <4>3. FindType(types', program.data[m]) = q
        BY <1>1, <2>1, <4>1, FoundAgain
      <4> QED BY <2>1, <4>1, <4>2, <4>3
    <3> QED BY <1>1, <3>1, <3>2 DEF Registry
  <2> QED BY <2>1, <2>2
<1> QED BY <1>2, <1>3 DEF CLSTYPEREG

LEMMA MethodTypes ==
    ASSUME Control, Held, NEW c \in program.classes, NEW m \in program.methods, CLSMADD(c, m[1], m[2])
    PROVE  /\ TypesKept(types, types')
           /\ Registry(types, open) => Registry(types', open')
<1>1. /\ types \in Seq(Type) /\ m[1] \in Holders \ {NULL} /\ Len(types) \in Nat
      /\ program' = program /\ open' = open
  <2>1. program \in Programs /\ types \in Seq(Type)
    BY DEF Control, Held
  <2> QED BY <2>1, LenProperties, LifecycleAssumption DEF Holders, CLSMADD
<1>2. CASE UNCHANGED types
  BY <1>1, <1>2, Alike DEF Registry
<1>3. CASE FindType(types, c) # 0 /\ types' = AddMethod(types, c, "method", m[1], m[2])
  <2> DEFINE k == FindType(types, c)
  <2>0. k \in 1 .. Len(types)
    BY <1>1, <1>3, FirstIs
  <2>1. types' = [types EXCEPT ![k] = AddTo(@, "method", m[1], m[2])]
    BY <1>3 DEF AddMethod
  <2> HIDE DEF k
  <2>2. /\ TypesKept(types, types') /\ Len(types') = Len(types)
        /\ \A j \in 1 .. Len(types) : types'[j].destroy = types[j].destroy
    <3> DEFINE e == AddTo(types[k], "method", m[1], m[2])
    <3>1. types[k] \in Type
      BY <1>1, <2>0, ElementOfSeq
    <3>2. /\ e \in Type /\ e.destroy = types[k].destroy /\ e.name = types[k].name
          /\ types[k].destructor # NULL => e.destructor # NULL
      BY <1>1, <3>1, MethodAdded
    <3>3. types' = [types EXCEPT ![k] = e]
      BY <2>1
    <3> HIDE DEF e
    <3>4. /\ TypesKept(types, types') /\ Len(types') = Len(types)
          /\ \A j \in 1 .. Len(types) : types'[j] = IF j = k THEN e ELSE types[j]
      <4>1. /\ TypesKept(types, [types EXCEPT ![k] = e]) /\ Len([types EXCEPT ![k] = e]) = Len(types)
            /\ \A j \in 1 .. Len(types) : [types EXCEPT ![k] = e][j] = IF j = k THEN e ELSE types[j]
        BY ONLY <1>1, <2>0, <3>2, Changed
      <4> QED BY <3>3, <4>1
    <3> QED BY <3>2, <3>4
  <2>3. ASSUME Registry(types, open) PROVE Registry(types', open')
    <3>2. ASSUME NEW x \in open'
          PROVE  /\ x \in Libraries /\ x \in DOMAIN program.data
                 /\ FindType(types', program.data[x]) # 0
                 /\ types'[FindType(types', program.data[x])].destroy # NULL
      <4> DEFINE q == FindType(types, program.data[x])
      <4>1. /\ x \in open /\ x \in Libraries /\ x \in DOMAIN program.data
            /\ q # 0 /\ types[q].destroy # NULL
        BY <1>1, <2>3, <3>2 DEF Registry
      <4>2. q \in 1 .. Len(types)
        BY <1>1, <4>1, FirstIs
      <4>3. FindType(types', program.data[x]) = q
        BY <1>1, <2>2, <4>1, FoundAgain
      <4> QED BY <2>2, <4>1, <4>2, <4>3
    <3> QED BY <1>1, <2>2, <2>3, <3>2 DEF Registry
  <2> QED BY <2>2, <2>3
<1> QED BY <1>2, <1>3 DEF CLSMADD
-----------------------------------------------------------------------------
LEMMA HeldInit == Init => Held
<1> SUFFICES ASSUME Init PROVE Held
  OBVIOUS
<1>1. types \in Seq(Type) /\ types = <<>> /\ Len(types) = 0
  BY EmptySeq DEF Init
<1>2. \A i \in Instances : ~ class[i].inner /\ ~ class[i].destructing
  BY DEF Init
<1>3. \A o \in Objects : place[o] = "none"
  BY DEF Init
<1>4. Instances \subseteq Objects /\ Raws \subseteq Objects /\ "none" \notin Instances
  BY LifecycleAssumption DEF Objects
<1>5. class \in [Instances -> [inner : BOOLEAN, type : Nat, destructing : BOOLEAN, destructed : BOOLEAN]]
  BY DEF Init
<1>6. /\ payload \in [Raws -> Libraries \union {NULL}] /\ waiting = {} /\ lost = {}
      /\ place \in [Objects -> {"none", "thread", "module", "global", "gone"} \union Instances]
      /\ released \in [Raws -> Nat] /\ \A r \in Raws : released[r] = 0
  BY DEF Init
<1> QED BY <1>1, <1>2, <1>3, <1>4, <1>5, <1>6 DEF Held, Places

(* Steps that leave the objects alone.                                     *)
LEMMA HeldSame ==
    ASSUME Held, UNCHANGED objects, TypesKept(types, types'), Early' => Early,
           stage' = "create" => stage = "create"
    PROVE  Held'
<1>1. UNCHANGED <<class, payload, place, waiting, lost, released>>
  BY DEF objects
<1>2. Len(types) \in Nat /\ Len(types') \in Nat /\ types' \in Seq(Type) /\ Len(types) <= Len(types')
  BY LenProperties DEF TypesKept, Held
<1>3. ASSUME NEW i \in Instances, class[i].inner \/ class[i].destructing
      PROVE  class[i].type \in 1 .. Len(types')
  BY <1>2, <1>3 DEF Held
<1>4. ASSUME NEW i \in Instances, class[i].destructing
      PROVE  types'[class[i].type].destructor # NULL
  BY <1>4 DEF Held, TypesKept
<1> QED BY <1>1, <1>2, <1>3, <1>4 DEF Held

LEMMA HeldUnchanged ==
    ASSUME Held, UNCHANGED <<objects, types>>, Early' => Early,
           stage' = "create" => stage = "create"
    PROVE  Held'
<1>1. TypesKept(types, types')
  BY Alike DEF Held
<1> QED BY <1>1, HeldSame

(* Shells are destroyed: of objects that threads or variables held, and of *)
(* the values of properties.                                               *)
LEMMA ShellsGone ==
    ASSUME Held, NEW os, DestroyShells(os),
           \A o \in os : o \in Objects /\ place[o] \in Places \union {"thread"} \union Instances
    PROVE  /\ place' \in [Objects -> {"none", "thread", "module", "global", "gone"} \union Instances]
           /\ \A o \in Objects : place'[o] = IF o \in os THEN "gone" ELSE place[o]
           /\ released' \in [Raws -> Nat]
           /\ \A r \in Raws : released'[r] = IF place'[r] = "gone" THEN 1 ELSE 0
           /\ \A r \in Raws : place'[r] # "none" => payload'[r] # NULL
           /\ payload' = payload
<1>1. /\ payload' = payload
      /\ \A o \in Objects : place'[o] = IF o \in os THEN "gone" ELSE place[o]
      /\ place' \in [Objects -> {"none", "thread", "module", "global", "gone"} \union Instances]
  BY DEF DestroyShells, Held
<1>2. Raws \subseteq Objects /\ "gone" \notin Instances /\ "none" \notin Instances
  BY LifecycleAssumption DEF Objects
<1>3. ASSUME NEW r \in Raws
      PROVE  /\ released'[r] = IF place'[r] = "gone" THEN 1 ELSE 0
             /\ place'[r] # "none" => payload'[r] # NULL
  <2>1. released'[r] = released[r] + (IF r \in os /\ payload[r] # NULL THEN 1 ELSE 0)
    BY DEF DestroyShells
  <2>2. released[r] = (IF place[r] = "gone" THEN 1 ELSE 0) /\ (place[r] # "none" => payload[r] # NULL)
    BY DEF Held
  <2>3. CASE r \in os
    <3>1. place[r] # "gone" /\ place[r] # "none"
      BY <1>2, <2>3 DEF Places
    <3> QED BY <1>1, <1>2, <2>1, <2>2, <2>3, <3>1
  <2>4. CASE r \notin os
    BY <1>1, <1>2, <2>1, <2>2, <2>4
  <2> QED BY <2>3, <2>4
<1>4. released' \in [Raws -> Nat]
  <2>1. released' = [r \in Raws |-> released'[r]]
    BY DEF DestroyShells
  <2>2. \A r \in Raws : released'[r] \in Nat
    BY <1>3
  <2> QED BY <2>1, <2>2
<1> QED BY <1>1, <1>3, <1>4

(* Collectors of instances out of reach.                                   *)
LEMMA ClassesAfter ==
    ASSUME Held, NEW is, is \subseteq Live, NEW os, NEW things, CallCollectors(is, os, things)
    PROVE  /\ class' \in [Instances -> [inner : BOOLEAN, type : Nat, destructing : BOOLEAN,
                                        destructed : BOOLEAN]]
           /\ \A i \in Instances :
                /\ class'[i].type = class[i].type
                /\ class'[i].destructed <=> class[i].destructed
                /\ class'[i].inner <=> class[i].inner /\ i \notin Freed(is)
                /\ class'[i].destructing <=> class[i].destructing \/ i \in Begun(is)
           /\ DestroyShells(os \union At(Freed(is)))
<1>1. class' = [i \in Instances |->
                  [class[i] EXCEPT !.inner = @ /\ i \notin Freed(is),
                                   !.destructing = @ \/ i \in Begun(is)]]
      /\ DestroyShells(os \union At(Freed(is)))
  BY DEF CallCollectors
<1>2. ASSUME NEW i \in Instances
      PROVE  /\ class'[i] \in [inner : BOOLEAN, type : Nat, destructing : BOOLEAN, destructed : BOOLEAN]
             /\ class'[i].type = class[i].type
             /\ class'[i].destructed <=> class[i].destructed
             /\ class'[i].inner <=> class[i].inner /\ i \notin Freed(is)
             /\ class'[i].destructing <=> class[i].destructing \/ i \in Begun(is)
  <2> DEFINE f == class[i].inner /\ i \notin Freed(is)
             d == class[i].destructing \/ i \in Begun(is)
  <2>1. class[i] \in [inner : BOOLEAN, type : Nat, destructing : BOOLEAN, destructed : BOOLEAN]
    BY DEF Held
  <2>2. f \in BOOLEAN /\ d \in BOOLEAN
    OBVIOUS
  <2>3. class'[i] = [class[i] EXCEPT !.inner = f, !.destructing = d]
    BY <1>1
  <2>4. /\ class'[i] \in [inner : BOOLEAN, type : Nat, destructing : BOOLEAN, destructed : BOOLEAN]
        /\ class'[i].type = class[i].type /\ class'[i].destructed = class[i].destructed
        /\ class'[i].inner = f /\ class'[i].destructing = d
    <3> HIDE DEF f, d
    <3> QED BY <2>1, <2>2, <2>3
  <2> QED BY <2>4
<1> QED BY <1>1, <1>2

LEMMA HeldCollected ==
    ASSUME Held, NEW is, is \subseteq Registered, NEW os, os \subseteq At(Places \union {"thread"}),
           NEW things, CallCollectors(is, os, things), types' = types, stage' # "create",
           waiting' \subseteq waiting \union Begun(is), UNCHANGED lost \/ Unanswered(is),
           Early' => Early /\ \A i \in is : /\ place[i] \notin Places
                                            /\ place[i] = "thread" => i \in os
    PROVE  Held'
<1> DEFINE freed == Freed(is)
           dying == os \union At(freed)
<1>0. is \subseteq Live /\ \A i \in is : i \notin lost
  BY DEF Registered
<1>1. /\ class' \in [Instances -> [inner : BOOLEAN, type : Nat, destructing : BOOLEAN,
                                        destructed : BOOLEAN]]
      /\ \A i \in Instances :
            /\ class'[i].type = class[i].type
            /\ class'[i].destructed <=> class[i].destructed
            /\ class'[i].inner <=> class[i].inner /\ i \notin freed
            /\ class'[i].destructing <=> class[i].destructing \/ i \in Begun(is)
      /\ DestroyShells(dying)
  BY <1>0, ClassesAfter
<1>2. is \subseteq Instances /\ freed \subseteq is /\ \A i \in is : class[i].inner
  BY <1>0 DEF Live, Freed
<1>3. \A o \in dying : o \in Objects /\ place[o] \in Places \union {"thread"} \union Instances
  BY <1>2 DEF At
<1> HIDE DEF freed, dying
<1>4. /\ place' \in [Objects -> {"none", "thread", "module", "global", "gone"} \union Instances]
      /\ \A o \in Objects : place'[o] = IF o \in dying THEN "gone" ELSE place[o]
      /\ released' \in [Raws -> Nat]
      /\ \A r \in Raws : released'[r] = IF place'[r] = "gone" THEN 1 ELSE 0
      /\ \A r \in Raws : place'[r] # "none" => payload'[r] # NULL
      /\ payload' = payload
  BY <1>1, <1>3, ShellsGone
<1>5. /\ Instances \subseteq Objects /\ Raws \subseteq Objects /\ "gone" \notin Instances
      /\ "gone" \notin Places \union {"thread"}
  BY LifecycleAssumption DEF Objects, Places
<1>6. \A i \in Begun(is) : /\ i \in is /\ i \notin freed /\ ~ class[i].destructed
                           /\ types[class[i].type].destructor # NULL
  BY DEF Begun, ToDestruct, Freed, freed
<1>7. \A r \in Raws : place'[r] \in Instances => place'[r] = place[r] /\ place[r] \notin freed
  BY <1>4, <1>5 DEF dying, At
<1>8. \A r \in Raws : place'[r] \in Instances => class'[place'[r]].inner
  BY <1>1, <1>7 DEF Held
<1>9. \A r, s \in Raws : place'[r] \in Instances /\ place'[r] = place'[s] => r = s
  BY <1>7 DEF Held
<1>10. \A i \in Instances : place'[i] \notin Instances
  <2>1. \A i \in Instances : place[i] \notin Instances /\ i \in Objects
    BY <1>5 DEF Held
  <2> QED BY <1>4, <1>5, <2>1
<1>11. ASSUME NEW i \in Instances, class'[i].inner \/ class'[i].destructing
       PROVE  class'[i].type \in 1 .. Len(types')
  BY <1>1, <1>2, <1>6, <1>11 DEF Held
<1>12. ASSUME NEW i \in Instances, class'[i].destructing
       PROVE  types'[class'[i].type].destructor # NULL
  BY <1>1, <1>6, <1>12 DEF Held
<1>13. ASSUME NEW i \in waiting'
       PROVE  i \in Instances /\ class'[i].inner /\ class'[i].destructing /\ ~ class'[i].destructed
  <2>1. CASE i \in Begun(is)
    BY <1>1, <1>2, <1>6, <2>1
  <2>2. CASE i \in waiting
    <3>1. i \in Instances /\ class[i].inner /\ class[i].destructing /\ ~ class[i].destructed
      BY <2>2 DEF Held
    <3>2. i \notin freed
      BY <3>1 DEF freed, Freed, Pending
    <3> QED BY <1>1, <3>1, <3>2
  <2> QED BY <2>1, <2>2
<1>17. ASSUME NEW i \in lost'
       PROVE  i \in Instances /\ class'[i].inner /\ class'[i].destructing
  <2>1. CASE i \in lost
    <3>1. i \in Instances /\ class[i].inner /\ class[i].destructing
      BY <2>1 DEF Held
    <3>2. i \notin freed
      BY <1>0, <1>2, <2>1
    <3> QED BY <1>1, <3>1, <3>2
  <2>2. CASE i \notin lost
    <3>1. i \in is /\ Pending(i)
      BY <2>2 DEF Unanswered
    <3>2. i \in Instances /\ class[i].inner /\ class[i].destructing /\ i \notin freed
      BY <1>2, <3>1 DEF freed, Freed, Pending
    <3> QED BY <1>1, <3>2
  <2> QED BY <2>1, <2>2
<1>14. ASSUME Early', NEW i \in Instances, place'[i] \in Places \union {"thread"}
       PROVE  class'[i].inner
  <2>1. place[i] = place'[i] /\ i \notin dying
    BY <1>4, <1>5, <1>14
  <2>2. class[i].inner
    BY <1>14, <2>1 DEF Held
  <2>3. i \notin freed
    BY <1>2, <1>14, <2>1 DEF dying
  <2> QED BY <1>1, <2>2, <2>3
<1>16. ASSUME NEW i \in Instances, place'[i] = "none"
       PROVE  ~ class'[i].inner /\ ~ class'[i].destructing
  <2>1. place[i] = "none"
    BY <1>4, <1>5, <1>16
  <2>2. ~ class[i].inner /\ ~ class[i].destructing
    BY <2>1 DEF Held
  <2>3. i \notin Begun(is)
    BY <1>2, <1>6, <2>2
  <2> QED BY <1>1, <2>2, <2>3
<1>15. types' \in Seq(Type) /\ payload' \in [Raws -> Libraries \union {NULL}]
  BY <1>4 DEF Held
<1> QED BY <1>1, <1>4, <1>8, <1>9, <1>10, <1>11, <1>12, <1>13, <1>14, <1>15, <1>16, <1>17 DEF Held

LEMMA InBodyIsEarly == Control /\ fn # NULL => Early /\ Complete /\ stage # "create" /\ modules # <<>>
<1> SUFFICES ASSUME Control, fn # NULL PROVE Early /\ Complete /\ stage # "create" /\ modules # <<>>
  OBVIOUS
<1>1. stage \in {"init", "autorun", "main"} /\ Len(modules) >= 2
  BY DEF Control
<1>2. modules # <<>>
  <2>1. Len(<<>>) = 0
    BY EmptySeq
  <2> QED BY <1>1, <2>1
<1> QED BY <1>1, <1>2 DEF Early, Complete

LEMMA HeldMakeRaw ==
    ASSUME Control, Held, Libs, NEW r \in Raws, NEW l \in Libraries, MakeRaw(r, l)
    PROVE  Held'
<1> DEFINE k == FindType(types, program.data[l])
<1>1. /\ fn # NULL /\ stage' = stage /\ place[r] = "none" /\ l \in open
      /\ place' = [place EXCEPT ![r] = "thread"]
      /\ payload' = [payload EXCEPT ![r] = types[k].destroy]
      /\ UNCHANGED <<types, class, waiting, lost, released>>
  BY DEF MakeRaw, Unmoved, InBody
<1>2. /\ r \in Objects /\ r \notin Instances /\ Instances \subseteq Objects /\ Raws \subseteq Objects
      /\ "thread" \notin Instances
  BY LifecycleAssumption DEF Objects
<1>3. types[k].destroy \in Libraries /\ types[k].destroy # NULL
  <2>1. k # 0 /\ types[k].destroy # NULL
    BY <1>1 DEF Libs, Registry
  <2>2. types \in Seq(Type)
    BY DEF Held
  <2>3. k \in 1 .. Len(types)
    BY <2>1, <2>2, FirstIs
  <2>4. types[k] \in Type
    BY <2>2, <2>3, ElementOfSeq
  <2> QED BY <2>1, <2>4 DEF Type
<1> HIDE DEF k
<1>4. /\ place' \in [Objects -> {"none", "thread", "module", "global", "gone"} \union Instances]
      /\ \A o \in Objects : place'[o] = IF o = r THEN "thread" ELSE place[o]
      /\ payload' \in [Raws -> Libraries \union {NULL}]
      /\ \A s \in Raws : payload'[s] = IF s = r THEN types[k].destroy ELSE payload[s]
  BY <1>1, <1>2, <1>3 DEF Held
<1>5. Early /\ stage' # "create"
  BY <1>1, InBodyIsEarly
<1> QED BY <1>1, <1>2, <1>3, <1>4, <1>5 DEF Held

LEMMA HeldMakeInstance ==
    ASSUME Control, Held, NEW i \in Instances, NEW c, CLSINSTMK(i, c)
    PROVE  Held'
<1> DEFINE k == FindType(types, c)
<1>1. fn # NULL /\ place[i] = "none" /\ UNCHANGED <<types, payload, waiting, lost, released>>
  BY DEF CLSINSTMK, InBody
<1>2. Early /\ stage # "create" /\ stage' # "create"
  <2>1. Early /\ stage # "create"
    BY <1>1, InBodyIsEarly
  <2> QED BY <2>1 DEF CLSINSTMK, Fail
<1>3. types \in Seq(Type) /\ Instances \subseteq Objects /\ Raws \subseteq Objects
      /\ "thread" \notin Instances /\ i \notin Raws
  BY LifecycleAssumption DEF Held, Objects
<1>4. CASE k = 0
  <2>1. UNCHANGED <<objects, types>>
    BY <1>1, <1>4 DEF CLSINSTMK, objects
  <2> QED BY <1>2, <2>1, HeldUnchanged
<1>5. CASE k # 0
  <2>1. k \in 1 .. Len(types) /\ k \in Nat
    BY <1>3, <1>5, FirstIs, LenProperties
  <2>2. /\ place' = [place EXCEPT ![i] = "thread"]
        /\ class' = [class EXCEPT ![i].inner = TRUE, ![i].type = k]
    BY <1>5 DEF CLSINSTMK
  <2> HIDE DEF k
  <2>3. /\ place' \in [Objects -> {"none", "thread", "module", "global", "gone"} \union Instances]
        /\ \A o \in Objects : place'[o] = IF o = i THEN "thread" ELSE place[o]
    BY <1>3, <2>2 DEF Held
  <2>4. /\ class' \in [Instances -> [inner : BOOLEAN, type : Nat, destructing : BOOLEAN,
                                     destructed : BOOLEAN]]
        /\ class'[i].inner /\ class'[i].type = k
        /\ class'[i].destructing <=> class[i].destructing
        /\ \A j \in Instances : j # i => class'[j] = class[j]
    <3> DEFINE e == [class[i] EXCEPT !.inner = TRUE, !.type = k]
    <3>1. class[i] \in [inner : BOOLEAN, type : Nat, destructing : BOOLEAN, destructed : BOOLEAN]
          /\ class \in [Instances -> [inner : BOOLEAN, type : Nat, destructing : BOOLEAN,
                                     destructed : BOOLEAN]]
      BY DEF Held
    <3>2. e \in [inner : BOOLEAN, type : Nat, destructing : BOOLEAN, destructed : BOOLEAN]
          /\ e.inner = TRUE /\ e.type = k /\ e.destructing = class[i].destructing
      BY <2>1, <3>1
    <3>3. class' = [class EXCEPT ![i] = e]
      BY <2>2
    <3> HIDE DEF e
    <3> QED BY <3>1, <3>2, <3>3
  <2>5. ~ class[i].destructing
    BY <1>1 DEF Held
  <2>6. \A r \in Raws : place'[r] = place[r]
    BY <1>3, <2>3
  <2>7. /\ \A r \in Raws : place'[r] \in Instances => class'[place'[r]].inner
        /\ \A r, s \in Raws : place'[r] \in Instances /\ place'[r] = place'[s] => r = s
        /\ \A r \in Raws : released'[r] = IF place'[r] = "gone" THEN 1 ELSE 0
        /\ \A r \in Raws : place'[r] # "none" => payload'[r] # NULL
    <3>1. \A r \in Raws : place'[r] \in Instances => class'[place'[r]].inner
      <4>1. \A r \in Raws : place[r] \in Instances => class[place[r]].inner
        BY DEF Held
      <4>2. \A j \in Instances : class[j].inner => class'[j].inner
        BY <2>4
      <4> QED BY <2>6, <4>1, <4>2
    <3>2. \A r, s \in Raws : place'[r] \in Instances /\ place'[r] = place'[s] => r = s
      <4>1. \A r, s \in Raws : place[r] \in Instances /\ place[r] = place[s] => r = s
        BY DEF Held
      <4> QED BY ONLY <2>6, <4>1
    <3>3. /\ \A r \in Raws : released'[r] = IF place'[r] = "gone" THEN 1 ELSE 0
          /\ \A r \in Raws : place'[r] # "none" => payload'[r] # NULL
      BY <1>1, <2>6 DEF Held
    <3> QED BY ONLY <3>1, <3>2, <3>3
  <2>8. ASSUME NEW j \in Instances
        PROVE  /\ place'[j] \notin Instances
               /\ class'[j].inner \/ class'[j].destructing => class'[j].type \in 1 .. Len(types')
               /\ class'[j].destructing => types'[class'[j].type].destructor # NULL
               /\ j \in waiting' => class'[j].inner /\ class'[j].destructing /\ ~ class'[j].destructed
               /\ j \in lost' => class'[j].inner /\ class'[j].destructing
               /\ place'[j] = "none" => ~ class'[j].inner /\ ~ class'[j].destructing
               /\ place'[j] \in Places \union {"thread"} => class'[j].inner
    <3>1. CASE j = i
      BY <1>1, <1>3, <2>1, <2>3, <2>4, <2>5, <3>1 DEF Held
    <3>2. CASE j # i
      BY <1>1, <1>2, <1>3, <2>3, <2>4, <3>2 DEF Held
    <3> QED BY <3>1, <3>2
  <2> QED BY <1>1, <1>2, <2>3, <2>4, <2>7, <2>8 DEF Held
<1> QED BY <1>4, <1>5

LEMMA HeldMoves ==
    ASSUME Control, Held, NEW o \in Objects, NEW w \in Places, MoveTo(o, w)
    PROVE  Held'
<1>1. /\ fn # NULL /\ stage' = stage /\ place[o] = "thread"
      /\ place' = [place EXCEPT ![o] = w]
      /\ UNCHANGED <<types, class, payload, waiting, lost, released>>
  BY DEF MoveTo, Unmoved, InBody
<1>2. /\ Instances \subseteq Objects /\ Raws \subseteq Objects /\ w \notin Instances
      /\ w \in {"none", "thread", "module", "global", "gone"} \ {"gone", "none"}
  BY LifecycleAssumption DEF Objects, Places
<1>3. /\ place' \in [Objects -> {"none", "thread", "module", "global", "gone"} \union Instances]
      /\ \A x \in Objects : place'[x] = IF x = o THEN w ELSE place[x]
  BY <1>1, <1>2 DEF Held
<1>4. Early /\ stage' # "create"
  BY <1>1, InBodyIsEarly
<1>5. "thread" \notin Instances
  BY LifecycleAssumption
<1>6. /\ \A r \in Raws : place'[r] \in Instances => class'[place'[r]].inner
      /\ \A r, s \in Raws : place'[r] \in Instances /\ place'[r] = place'[s] => r = s
      /\ \A r \in Raws : released'[r] = IF place'[r] = "gone" THEN 1 ELSE 0
      /\ \A r \in Raws : place'[r] # "none" => payload'[r] # NULL
  BY <1>1, <1>2, <1>3, <1>5 DEF Held
<1>7. \A i \in Instances :
        /\ place'[i] \notin Instances
        /\ place'[i] = "none" => ~ class'[i].inner /\ ~ class'[i].destructing
        /\ place'[i] \in Places \union {"thread"} => class'[i].inner
  BY <1>1, <1>2, <1>3, <1>4 DEF Held
<1> QED BY <1>1, <1>3, <1>4, <1>6, <1>7 DEF Held

LEMMA HeldDrops ==
    ASSUME Control, Held, NEW o \in Objects, DropObject(o)
    PROVE  Held'
<1>1. /\ fn # NULL /\ stage' = stage /\ place[o] \in Places \union {"thread"}
      /\ DestroyShells({o})
      /\ UNCHANGED <<types, class, waiting, lost>>
  BY DEF DropObject, Unmoved, InBody
<1>2. /\ place' \in [Objects -> {"none", "thread", "module", "global", "gone"} \union Instances]
      /\ \A x \in Objects : place'[x] = IF x = o THEN "gone" ELSE place[x]
      /\ released' \in [Raws -> Nat]
      /\ \A r \in Raws : released'[r] = IF place'[r] = "gone" THEN 1 ELSE 0
      /\ \A r \in Raws : place'[r] # "none" => payload'[r] # NULL
      /\ payload' = payload
  BY <1>1, ShellsGone
<1>3. /\ Instances \subseteq Objects /\ Raws \subseteq Objects /\ "gone" \notin Instances
      /\ "gone" \notin Places \union {"thread"} /\ "gone" # "none"
  BY LifecycleAssumption DEF Objects, Places
<1>4. Early /\ stage' # "create"
  BY <1>1, InBodyIsEarly
<1>5. /\ \A r \in Raws : place'[r] \in Instances => class'[place'[r]].inner
      /\ \A r, s \in Raws : place'[r] \in Instances /\ place'[r] = place'[s] => r = s
  <2>1. \A r \in Raws : place'[r] \in Instances => place'[r] = place[r]
    BY <1>2, <1>3
  <2>2. /\ \A r \in Raws : place[r] \in Instances => class[place[r]].inner
        /\ \A r, s \in Raws : place[r] \in Instances /\ place[r] = place[s] => r = s
    BY DEF Held
  <2>3. class' = class
    BY <1>1
  <2> QED BY ONLY <2>1, <2>2, <2>3
<1>6. \A i \in Instances :
        /\ place'[i] \notin Instances
        /\ place'[i] = "none" => ~ class'[i].inner /\ ~ class'[i].destructing
        /\ place'[i] \in Places \union {"thread"} => class'[i].inner
  BY <1>1, <1>2, <1>3, <1>4 DEF Held
<1> QED BY <1>1, <1>2, <1>4, <1>5, <1>6 DEF Held

LEMMA HeldProperty ==
    ASSUME Control, Held, NEW r \in Raws, NEW i \in Instances, CLSPSET(r, i)
    PROVE  Held'
<1>1. /\ fn # NULL /\ stage' = stage /\ place[r] = "thread" /\ place[i] = "thread"
      /\ place' = [o \in Objects |-> IF o = r THEN i
                                     ELSE IF o \in Replaced(i) THEN "gone" ELSE place[o]]
      /\ released' = [x \in Raws |->
                       released[x] + (IF x \in Replaced(i) /\ payload[x] # NULL THEN 1 ELSE 0)]
      /\ UNCHANGED <<types, class, payload, waiting, lost>>
  BY DEF CLSPSET, Unmoved, InBody
<1>2. /\ Instances \subseteq Objects /\ Raws \subseteq Objects /\ r \notin Instances
      /\ {"none", "thread", "module", "global", "gone"} \intersect Instances = {}
      /\ "gone" \notin Places \union {"thread"}
  BY LifecycleAssumption DEF Objects, Places
<1>3. \A o \in Objects : o \in Replaced(i) <=> place[o] = i
  BY DEF Replaced, At
<1>4. /\ place' \in [Objects -> {"none", "thread", "module", "global", "gone"} \union Instances]
      /\ \A o \in Objects : place'[o] = IF o = r THEN i ELSE IF place[o] = i THEN "gone" ELSE place[o]
  BY <1>1, <1>3 DEF Held
<1>5. Early /\ stage' # "create" /\ class[i].inner
  <2>1. Early /\ stage # "create"
    BY <1>1, InBodyIsEarly
  <2> QED BY <1>1, <2>1 DEF Held
<1>6. ASSUME NEW x \in Raws
      PROVE  /\ released'[x] = IF place'[x] = "gone" THEN 1 ELSE 0
             /\ released'[x] \in Nat
             /\ place'[x] # "none" => payload'[x] # NULL
             /\ place'[x] \in Instances => class'[place'[x]].inner
  <2>1. /\ released[x] = IF place[x] = "gone" THEN 1 ELSE 0
        /\ place[x] # "none" => payload[x] # NULL
        /\ place[x] \in Instances => class[place[x]].inner
    BY DEF Held
  <2>2. released'[x] = released[x] + (IF place[x] = i /\ payload[x] # NULL THEN 1 ELSE 0)
    BY <1>1, <1>2, <1>3
  <2>3. place'[x] = IF x = r THEN i ELSE IF place[x] = i THEN "gone" ELSE place[x]
    BY <1>2, <1>4
  <2>4. CASE x = r
    BY <1>1, <1>2, <1>5, <2>1, <2>2, <2>3, <2>4
  <2>5. CASE x # r /\ place[x] = i
    BY <1>1, <1>2, <1>5, <2>1, <2>2, <2>3, <2>5
  <2>6. CASE x # r /\ place[x] # i
    BY <1>1, <1>2, <1>5, <2>1, <2>2, <2>3, <2>6
  <2> QED BY <2>4, <2>5, <2>6
<1>7. released' \in [Raws -> Nat]
  <2>1. released' = [x \in Raws |-> released'[x]]
    BY <1>1
  <2> QED BY <1>6, <2>1
<1>8. ASSUME NEW x \in Raws, NEW y \in Raws, place'[x] \in Instances, place'[x] = place'[y]
      PROVE  x = y
  <2>1. place[x] \in Instances /\ place[x] = place[y] => x = y
    BY DEF Held
  <2>2. /\ place'[x] = IF x = r THEN i ELSE IF place[x] = i THEN "gone" ELSE place[x]
        /\ place'[y] = IF y = r THEN i ELSE IF place[y] = i THEN "gone" ELSE place[y]
    BY <1>2, <1>4
  <2> QED BY <1>2, <1>8, <2>1, <2>2
<1>9. \A j \in Instances :
        /\ place'[j] \notin Instances
        /\ place'[j] = "none" => ~ class'[j].inner /\ ~ class'[j].destructing
        /\ place'[j] \in Places \union {"thread"} => class'[j].inner
  <2>1. \A j \in Instances : place[j] \notin Instances /\ place'[j] = place[j]
    BY <1>2, <1>4 DEF Held
  <2> QED BY <1>1, <1>5, <2>1 DEF Held
<1> QED BY <1>1, <1>4, <1>5, <1>6, <1>7, <1>8, <1>9 DEF Held

LEMMA HeldDestructor ==
    ASSUME Control, Held, NEW i \in Instances, NEW b \in BOOLEAN, RunDestructor(i, b)
    PROVE  Held'
<1>1. /\ fn # NULL /\ stage' = stage /\ waiting' = waiting \ {i}
      /\ class' = [class EXCEPT ![i].destructed = b]
      /\ UNCHANGED <<types, payload, place, lost, released>>
  BY DEF RunDestructor, Unmoved, InBody
<1>2. /\ class' \in [Instances -> [inner : BOOLEAN, type : Nat, destructing : BOOLEAN,
                                   destructed : BOOLEAN]]
      /\ \A j \in Instances : /\ class'[j].inner <=> class[j].inner
                              /\ class'[j].type = class[j].type
                              /\ class'[j].destructing <=> class[j].destructing
                              /\ j # i => class'[j].destructed = class[j].destructed
  <2> DEFINE e == [class[i] EXCEPT !.destructed = b]
  <2>1. class \in [Instances -> [inner : BOOLEAN, type : Nat, destructing : BOOLEAN,
                                 destructed : BOOLEAN]]
    BY DEF Held
  <2>2. class[i] \in [inner : BOOLEAN, type : Nat, destructing : BOOLEAN, destructed : BOOLEAN]
    BY <2>1
  <2>3. /\ e \in [inner : BOOLEAN, type : Nat, destructing : BOOLEAN, destructed : BOOLEAN]
        /\ e.inner = class[i].inner /\ e.type = class[i].type
        /\ e.destructing = class[i].destructing
    BY <2>2
  <2>4. class' = [class EXCEPT ![i] = e]
    BY <1>1
  <2> HIDE DEF e
  <2> QED BY <2>1, <2>3, <2>4
<1>3. Early /\ stage' # "create"
  BY <1>1, InBodyIsEarly
<1> QED BY <1>1, <1>2, <1>3 DEF Held

LEMMA HeldInBody == Control /\ Held /\ (Early => Libs) /\ Body => Held'
<1> SUFFICES ASSUME Control, Held, Early => Libs, Body PROVE Held'
  OBVIOUS
<1>0. Early /\ Libs /\ (stage' = "create" => stage = "create")
  <2>1. InFunction
    BY BodyStep
  <2> QED BY <2>1, InBodyIsEarly DEF InFunction
<1>1. ASSUME NEW l \in Libraries, OpenLibrary(l) PROVE Held'
  <2>1. TypesKept(types, types') /\ UNCHANGED objects
    BY <1>1, OpenTypes DEF OpenLibrary
  <2> QED BY <1>0, <2>1, HeldSame
<1>2. ASSUME NEW r \in Raws, NEW l \in Libraries, MakeRaw(r, l) PROVE Held'
  BY <1>0, <1>2, HeldMakeRaw
<1>3. ASSUME NEW r \in Raws, NEW i \in Instances, CLSPSET(r, i) PROVE Held'
  BY <1>3, HeldProperty
<1>4. ASSUME NEW c \in program.classes, CLSTYPEREG(c) PROVE Held'
  <2>1. TypesKept(types, types') /\ UNCHANGED objects
    BY <1>4, ClassTypes DEF CLSTYPEREG
  <2> QED BY <1>0, <2>1, HeldSame
<1>5. ASSUME NEW c \in program.classes, NEW m \in program.methods, CLSMADD(c, m[1], m[2]) PROVE Held'
  <2>1. TypesKept(types, types') /\ UNCHANGED objects
    BY <1>5, MethodTypes DEF CLSMADD
  <2> QED BY <1>0, <2>1, HeldSame
<1>6. ASSUME NEW c \in program.classes, NEW i \in Instances, CLSINSTMK(i, c) PROVE Held'
  BY <1>6, HeldMakeInstance
<1>7. ASSUME NEW o \in Objects, DropObject(o) PROVE Held'
  BY <1>7, HeldDrops
<1>8. ASSUME NEW o \in Objects, NEW w \in Places, MoveTo(o, w) PROVE Held'
  BY <1>8, HeldMoves
<1>9. CASE Collect
  <2> DEFINE garbage == Unreachable(Places \union {"thread"})
  <2>1. /\ CallCollectors(garbage, {}, Roots) /\ types' = types
        /\ waiting' = waiting \union Begun(garbage) /\ Unanswered(garbage)
    BY <1>9 DEF Collect
  <2>2. /\ garbage \subseteq Registered
        /\ \A i \in garbage : place[i] \notin Places \union {"thread"}
    BY DEF Unreachable
  <2>3. stage' # "create"
    <3>1. fn # NULL
      BY <1>9 DEF Collect, InBody
    <3>2. stage # "create"
      BY <3>1, InBodyIsEarly
    <3> QED BY <1>0, <3>2
  <2> HIDE DEF garbage
  <2> QED BY <1>0, <2>1, <2>2, <2>3, HeldCollected
<1>10. ASSUME NEW b \in BOOLEAN, Raise(b) PROVE Held'
  <2>1. UNCHANGED <<objects, types>>
    BY <1>10 DEF Raise
  <2> QED BY <1>0, <2>1, HeldUnchanged
<1> QED
  BY <1>1, <1>2, <1>3, <1>4, <1>5, <1>6, <1>7, <1>8, <1>9, <1>10 DEF Body

LEMMA HeldStep == Control /\ Held /\ (Early => Libs) /\ [Next]_vars => Held'
<1> SUFFICES ASSUME Control, Held, Early => Libs, [Next]_vars PROVE Held'
  OBVIOUS
<1>1. CASE Make \/ Load \/ Pass \/ Finish \/ UNCHANGED vars
  <2>1. UNCHANGED <<objects, types>>
    BY <1>1 DEF Make, Load, Pass, MakePart, LeaveTypesOut, MakeNothing, LoadMain, LoadNext, LoadFile,
        AllLoaded, RunFunction, PassOver, EndOfPass, RunMain, EndOfMain, Finish, vars
  <2>2. Early' => Early
    BY <1>1 DEF Make, Load, Pass, MakePart, LeaveTypesOut, MakeNothing, LoadMain, LoadNext,
        AllLoaded, RunFunction, PassOver, EndOfPass, RunMain, EndOfMain, Finish, vars, InPass, Early, Complete
  <2>3. stage' = "create" => stage = "create"
    BY <1>1 DEF Make, Load, Pass, MakePart, LeaveTypesOut, MakeNothing, LoadMain, LoadNext, LoadFile, Fail,
        AllLoaded, RunFunction, PassOver, EndOfPass, RunMain, EndOfMain, Finish, vars, InPass
  <2> QED BY <2>1, <2>2, <2>3, HeldUnchanged
<1>2. CASE Destruct
  BY <1>2, HeldDestructor DEF Destruct
<1>3. CASE EndOfThreads
  <2> DEFINE garbage == Unreachable(Places)
  <2>1. /\ CallCollectors(garbage, At({"thread"}), Roots) /\ types' = types
        /\ waiting' = Begun(garbage) /\ fn # NULL /\ Unanswered(garbage)
    BY <1>3 DEF EndOfThreads, InBody
  <2>2. /\ garbage \subseteq Registered
        /\ \A i \in garbage : place[i] \notin Places /\ i \in Instances
    BY DEF Unreachable, Registered, Live
  <2>3. Early /\ stage' # "create"
    <3>1. InFunction
      BY <1>3, BodyStep
    <3> QED BY <3>1, InBodyIsEarly DEF InFunction
  <2>4. At({"thread"}) \subseteq At(Places \union {"thread"})
    BY DEF At
  <2>5. \A i \in garbage : place[i] = "thread" => i \in At({"thread"})
    BY <2>2 DEF At, Objects
  <2> HIDE DEF garbage
  <2> QED BY <2>1, <2>2, <2>3, <2>4, <2>5, HeldCollected
<1>4. CASE Body
  BY <1>4, HeldInBody
<1>5. CASE FinalCollect
  <2> DEFINE garbage == Unreachable(Places \union {"thread"})
  <2>1. /\ CallCollectors(garbage, {}, Roots) /\ types' = types
        /\ waiting' = waiting \union Begun(garbage) /\ stage' = "destroy"
        /\ Unanswered(garbage)
    BY <1>5 DEF FinalCollect
  <2>2. garbage \subseteq Registered
    BY DEF Unreachable
  <2>3. ~ Early'
    BY <2>1 DEF Early, Complete
  <2> HIDE DEF garbage
  <2> QED BY <2>1, <2>2, <2>3, HeldCollected
<1>6. CASE DestroyPart
  <2> DEFINE part == Head(todo)
             collected == IF part = "gc_stub" THEN Registered ELSE {}
             os == At(PlaceOf(part))
  <2>1. /\ CallCollectors(collected, os, Needed(part)) /\ types' = types
        /\ waiting' \subseteq waiting /\ UNCHANGED lost
        /\ stage = "destroy" /\ stage' = stage
    BY <1>6 DEF DestroyPart
  <2>2. collected \subseteq Registered /\ os \subseteq At(Places \union {"thread"})
    BY DEF PlaceOf, At, Places
  <2>3. ~ Early'
    BY <2>1 DEF Early, Complete
  <2> HIDE DEF collected, os, part
  <2> QED BY <2>1, <2>2, <2>3, HeldCollected
<1> QED BY <1>1, <1>2, <1>3, <1>4, <1>5, <1>6 DEF Next, End

LEMMA RanInit == Init => RanInv
<1> SUFFICES ASSUME Init PROVE RanInv
  OBVIOUS
<1>1. ran = <<>> /\ Len(<<>>) = 0 /\ ran \in Seq(Functions \X Nat) /\ stage = "create"
  BY EmptySeq DEF Init
<1> QED BY <1>1 DEF RanInv
-----------------------------------------------------------------------------
LEMMA QuietInit == Init => Quiet
BY DEF Init, Quiet, Registered, Live

(* Functions run until no thread is left, or until one fails.              *)
LEMMA RunsOn == Destruct \/ Body => fn # NULL /\ (fn' = fn \/ failed' = TRUE)
<1> USE DEF InBody, Unmoved, loading, running, Fail
<1>1. ASSUME NEW i \in Instances, NEW b \in BOOLEAN, RunDestructor(i, b) PROVE fn # NULL /\ fn' = fn
  BY <1>1 DEF RunDestructor
<1>2. ASSUME NEW l \in Libraries, OpenLibrary(l) PROVE fn # NULL /\ fn' = fn
  BY <1>2 DEF OpenLibrary
<1>3. ASSUME NEW r \in Raws, NEW l \in Libraries, MakeRaw(r, l) PROVE fn # NULL /\ fn' = fn
  BY <1>3 DEF MakeRaw
<1>4. ASSUME NEW r \in Raws, NEW i \in Instances, CLSPSET(r, i) PROVE fn # NULL /\ fn' = fn
  BY <1>4 DEF CLSPSET
<1>5. ASSUME NEW c, CLSTYPEREG(c) PROVE fn # NULL /\ (fn' = fn \/ failed' = TRUE)
  BY <1>5 DEF CLSTYPEREG
<1>6. ASSUME NEW c, NEW m, CLSMADD(c, m[1], m[2]) PROVE fn # NULL /\ (fn' = fn \/ failed' = TRUE)
  BY <1>6 DEF CLSMADD
<1>7. ASSUME NEW i \in Instances, NEW c, CLSINSTMK(i, c) PROVE fn # NULL /\ (fn' = fn \/ failed' = TRUE)
  BY <1>7 DEF CLSINSTMK
<1>8. ASSUME NEW o \in Objects, DropObject(o) PROVE fn # NULL /\ fn' = fn
  BY <1>8 DEF DropObject
<1>9. ASSUME NEW o \in Objects, NEW w \in Places, MoveTo(o, w) PROVE fn # NULL /\ fn' = fn
  BY <1>9 DEF MoveTo
<1>10. ASSUME Collect PROVE fn # NULL /\ (fn' = fn \/ failed' = TRUE)
  BY <1>10 DEF Collect
<1>11. ASSUME NEW b \in BOOLEAN, Raise(b) PROVE fn # NULL /\ failed' = TRUE
  BY <1>11 DEF Raise
<1> QED
  BY <1>1, <1>2, <1>3, <1>4, <1>5, <1>6, <1>7, <1>8, <1>9, <1>10, <1>11 DEF Destruct, Body

(* When the threads are gone, what is out of reach is freed, or its        *)
(* destructor is begun, unless it was before.                              *)
LEMMA QuietEnd ==
    ASSUME Control, Held, EndOfThreads, fn' = NULL, ~ failed'
    PROVE  waiting' = {} /\ \A i \in Registered' : place'[i] \notin Places => Pending(i)'
<1> DEFINE garbage == Unreachable(Places)
<1>1. /\ CallCollectors(garbage, At({"thread"}), Roots)
      /\ waiting' = Begun(garbage) /\ fn # NULL /\ waiting = {} /\ lost \subseteq lost'
  BY DEF EndOfThreads, InBody, Unanswered
<1>2. NotFound(garbage) = {} /\ Begun(garbage) = {}
  BY <1>1 DEF EndOfThreads, Fail, Remaining
<1>3. garbage \subseteq Live
  BY DEF Unreachable, Registered
<1>4. /\ \A i \in Instances :
            /\ class'[i].destructed <=> class[i].destructed
            /\ class'[i].inner <=> class[i].inner /\ i \notin Freed(garbage)
            /\ class'[i].destructing <=> class[i].destructing \/ i \in Begun(garbage)
      /\ DestroyShells(At({"thread"}) \union At(Freed(garbage)))
  <2> HIDE DEF garbage
  <2> QED BY <1>1, <1>3, ClassesAfter
<1>5. ASSUME NEW i \in Registered', place'[i] \notin Places PROVE Pending(i)'
  <2>1. /\ i \in Instances /\ class[i].inner /\ i \notin Freed(garbage) /\ i \in Objects
        /\ i \notin lost
    BY <1>1, <1>4, <1>5 DEF Registered, Live, Objects
  <2>2. place[i] \notin Places
    <3>1. Places \intersect (Instances \union {"thread"}) = {}
      BY LifecycleAssumption DEF Places
    <3>2. Freed(garbage) \subseteq Instances
      BY <1>3 DEF Freed, Live
    <3>3. place'[i] = IF i \in At({"thread"}) \union At(Freed(garbage)) THEN "gone" ELSE place[i]
      BY <1>4, <2>1 DEF DestroyShells
    <3>4. place[i] \in Places => i \notin At({"thread"}) \union At(Freed(garbage))
      BY <3>1, <3>2 DEF At
    <3> QED BY <1>5, <3>3, <3>4
  <2>3. i \in garbage
    BY <2>1, <2>2 DEF Unreachable, Registered, Live
  <2>4. modules # <<>>
    BY <1>1, InBodyIsEarly
  <2>5. ~ ToDestruct(i)
    BY <1>2, <2>3, <2>4 DEF Begun, NotFound
  <2>6. Pending(i)
    BY <2>1, <2>3, <2>5 DEF Freed
  <2> QED BY <1>4, <2>1, <2>6 DEF Pending
<1> QED BY <1>1, <1>2, <1>5

LEMMA QuietStep == Control /\ Held /\ Quiet /\ [Next]_vars => Quiet'
<1> SUFFICES ASSUME Control, Held, Quiet, [Next]_vars, Early', fn' = NULL, ~ failed'
             PROVE  waiting' = {} /\ \A i \in Registered' : place'[i] \notin Places => Pending(i)'
  BY DEF Quiet
<1>1. CASE Make \/ Load \/ Pass \/ UNCHANGED vars
  <2>1. UNCHANGED objects
    BY <1>1 DEF Make, Load, Pass, MakePart, LeaveTypesOut, MakeNothing, LoadMain, LoadNext, LoadFile,
        AllLoaded, RunFunction, PassOver, EndOfPass, RunMain, EndOfMain, vars
  <2>2. Early /\ fn = NULL /\ ~ failed
    BY <1>1 DEF Make, Load, Pass, MakePart, LeaveTypesOut, MakeNothing, LoadMain, LoadNext, LoadFile, Fail,
        AllLoaded, RunFunction, PassOver, EndOfPass, RunMain, EndOfMain, vars, InPass, Early, Complete,
        running, loading, Control
  <2> QED BY <2>1, <2>2 DEF Quiet, objects, Registered, Live, Pending
<1>2. CASE Destruct \/ Body
  BY <1>2, RunsOn
<1>3. CASE EndOfThreads
  BY <1>3, QuietEnd
<1>4. CASE End
  BY <1>4 DEF End, FinalCollect, DestroyPart, Finish, Early, Complete
<1> QED BY <1>1, <1>2, <1>3, <1>4 DEF Next
-----------------------------------------------------------------------------
LEMMA Used ==
    ASSUME stale = {}, NEW things, things \subseteq alive \union open, Use(things)
    PROVE  stale' = {}
BY DEF Use

LEMMA ShellsUse ==
    ASSUME NEW os, os # {} => "resource" \in alive /\ \A r \in Raws : payload[r] \in open \union {NULL}
    PROVE  UsedBy(os) \subseteq alive \union open
BY DEF UsedBy

LEMMA CollectorsUse ==
    ASSUME stale = {}, NEW is, NEW os, NEW things, CallCollectors(is, os, things),
           things \subseteq alive,
           os \union At(Freed(is)) # {} =>
                "resource" \in alive /\ \A r \in Raws : payload[r] \in open \union {NULL},
           is # {} => "data_types" \in alive /\ "resource" \in alive,
           Begun(is) # {} => "threads" \in alive /\ "modules" \in alive
    PROVE  stale' = {}
<1> DEFINE dying == os \union At(Freed(is))
           used == things \union UsedBy(dying)
                     \union (IF is = {} THEN {} ELSE {"data_types", "resource"})
                     \union (IF Begun(is) = {} THEN {} ELSE {"threads", "modules"})
<1>1. Use(used)
  BY DEF CallCollectors
<1>2. UsedBy(dying) \subseteq alive \union open
  <2> HIDE DEF dying
  <2>1. dying # {} => "resource" \in alive /\ \A r \in Raws : payload[r] \in open \union {NULL}
    BY DEF dying
  <2> QED BY <2>1, ShellsUse
<1>3. used \subseteq alive \union open
  BY <1>2
<1> HIDE DEF used
<1> QED BY <1>1, <1>3, Used

(* Destroying shells or calling collectors leaves payloads as they are.    *)
LEMMA PayloadsStay ==
    ASSUME NEW is, NEW os, NEW things, CallCollectors(is, os, things)
    PROVE  payload' = payload
BY DEF CallCollectors, DestroyShells

(* While functions run everything is there.                                *)
LEMMA WholeUse ==
    ASSUME stale = {}, Complete, Complete => Part \ {"builtin_types"} \subseteq alive, Libs,
           NEW is, NEW os, CallCollectors(is, os, Roots)
    PROVE  stale' = {}
<1>1. /\ Roots \subseteq alive /\ "resource" \in alive /\ "data_types" \in alive
      /\ "threads" \in alive /\ "modules" \in alive
  BY Parts DEF Roots
<1>2. \A r \in Raws : payload[r] \in open \union {NULL}
  BY DEF Libs
<1> QED BY <1>1, <1>2, CollectorsUse

LEMMA PartsBody ==
    ASSUME Control, Held, PartsInv, Destruct \/ EndOfThreads \/ Body
    PROVE  alive' = alive /\ stale' = {} /\ Libs'
<1>0. /\ fn # NULL /\ alive' = alive /\ program' = program /\ Early /\ Complete
      /\ Libs /\ stale = {}
  <2>1. InFunction
    BY BodyStep
  <2> QED BY <2>1, InBodyIsEarly DEF InFunction, PartsInv
<1>1. /\ {"threads", "modules", "shared_libraries", "data_types", "resource", "gc_stub"} \subseteq alive
      /\ \A r \in Raws : payload[r] \in open \union {NULL}
  BY <1>0, Parts DEF PartsInv, Libs
<1>2. ASSUME UNCHANGED <<types, payload, open>> PROVE Libs'
  BY <1>0, <1>2 DEF Libs, Registry
<1>3. CASE Destruct
  <2>1. UNCHANGED <<types, payload, open, stale>>
    BY <1>3 DEF Destruct, RunDestructor
  <2> QED BY <1>0, <1>2, <2>1
<1>4. CASE EndOfThreads \/ Collect
  <2>1. PICK is, os : CallCollectors(is, os, Roots)
    BY <1>4 DEF EndOfThreads, Collect
  <2>2. UNCHANGED <<types, open>>
    BY <1>4 DEF EndOfThreads, Collect
  <2>3. payload' = payload
    BY <2>1, PayloadsStay
  <2>4. stale' = {}
    BY <1>0, <2>1, WholeUse DEF PartsInv
  <2> QED BY <1>0, <1>2, <2>2, <2>3, <2>4
<1>5. ASSUME NEW l \in Libraries, OpenLibrary(l) PROVE stale' = {} /\ Libs'
  <2>1. Use({"shared_libraries", "data_types"}) /\ payload' = payload /\ open' = open \union {l}
    BY <1>5 DEF OpenLibrary, objects
  <2>2. stale' = {}
    BY <1>0, <1>1, <2>1, Used
  <2>3. Registry(types, open)'
    <3>1. Registry(types', open')
      BY <1>0, <1>5, OpenTypes DEF Libs
    <3> QED BY <1>0, <3>1 DEF Registry
  <2> QED BY <1>1, <2>1, <2>2, <2>3 DEF Libs
<1>6. ASSUME NEW r \in Raws, NEW l \in Libraries, MakeRaw(r, l) PROVE stale' = {} /\ Libs'
  <2> DEFINE k == FindType(types, program.data[l])
  <2>1. /\ Use({"data_types", "resource"}) /\ l \in open
        /\ payload' = [payload EXCEPT ![r] = types[k].destroy]
        /\ UNCHANGED <<types, open>>
    BY <1>6 DEF MakeRaw
  <2>2. stale' = {}
    BY <1>0, <1>1, <2>1, Used
  <2>3. k \in 1 .. Len(types)
    <3>1. types \in Seq(Type)
      BY DEF Held
    <3>2. k # 0
      BY <1>0, <2>1 DEF Libs, Registry
    <3> QED BY <3>1, <3>2, FirstIs, LenProperties
  <2>4. types[k].destroy \in open \union {NULL}
    BY <1>0, <2>3 DEF Libs, Registry
  <2> HIDE DEF k
  <2>5. \A s \in Raws : payload'[s] \in open \union {NULL}
    BY <1>1, <2>1, <2>4 DEF Held
  <2>6. Registry(types, open)'
    BY <1>0, <2>1 DEF Libs, Registry
  <2> QED BY <2>1, <2>2, <2>5, <2>6 DEF Libs
<1>7. ASSUME NEW r \in Raws, NEW i \in Instances, CLSPSET(r, i) PROVE stale' = {} /\ Libs'
  <2>1. Use(UsedBy(Replaced(i))) /\ UNCHANGED <<types, payload, open>>
    BY <1>7 DEF CLSPSET
  <2>2. UsedBy(Replaced(i)) \subseteq alive \union open
    BY <1>1, ShellsUse
  <2> QED BY <1>0, <1>2, <2>1, <2>2, Used
<1>8. ASSUME NEW c \in program.classes, CLSTYPEREG(c) PROVE stale' = {} /\ Libs'
  <2>1. Use({"data_types"}) /\ payload' = payload /\ open' = open
    BY <1>8 DEF CLSTYPEREG, objects
  <2>2. stale' = {}
    BY <1>0, <1>1, <2>1, Used
  <2>3. Registry(types, open)'
    <3>1. Registry(types', open')
      BY <1>0, <1>8, ClassTypes DEF Libs
    <3> QED BY <1>0, <3>1 DEF Registry
  <2> QED BY <1>1, <2>1, <2>2, <2>3 DEF Libs
<1>9. ASSUME NEW c \in program.classes, NEW m \in program.methods, CLSMADD(c, m[1], m[2])
      PROVE  stale' = {} /\ Libs'
  <2>1. Use({"data_types"}) /\ payload' = payload /\ open' = open
    BY <1>9 DEF CLSMADD, objects
  <2>2. stale' = {}
    BY <1>0, <1>1, <2>1, Used
  <2>3. Registry(types, open)'
    <3>1. Registry(types', open')
      BY <1>0, <1>9, MethodTypes DEF Libs
    <3> QED BY <1>0, <3>1 DEF Registry
  <2> QED BY <1>1, <2>1, <2>2, <2>3 DEF Libs
<1>10. ASSUME NEW c, NEW i \in Instances, CLSINSTMK(i, c) PROVE stale' = {} /\ Libs'
  <2>1. Use({"data_types", "resource", "gc_stub"}) /\ UNCHANGED <<types, payload, open>>
    BY <1>10 DEF CLSINSTMK
  <2> QED BY <1>0, <1>1, <1>2, <2>1, Used
<1>11. ASSUME NEW o \in Objects, DropObject(o) PROVE stale' = {} /\ Libs'
  <2>1. Use(UsedBy({o})) /\ UNCHANGED <<types, payload, open>>
    BY <1>11 DEF DropObject, DestroyShells
  <2>2. UsedBy({o}) \subseteq alive \union open
    BY <1>1, ShellsUse
  <2> QED BY <1>0, <1>2, <2>1, <2>2, Used
<1>12. ASSUME NEW o \in Objects, NEW w \in Places, MoveTo(o, w) PROVE stale' = {} /\ Libs'
  <2>1. UNCHANGED <<types, payload, open, stale>>
    BY <1>12 DEF MoveTo
  <2> QED BY <1>0, <1>2, <2>1
<1>13. ASSUME NEW b \in BOOLEAN, Raise(b) PROVE stale' = {} /\ Libs'
  <2>1. UNCHANGED <<types, payload, open, stale>>
    BY <1>13 DEF Raise, objects
  <2> QED BY <1>0, <1>2, <2>1
<1> QED
  BY <1>0, <1>3, <1>4, <1>5, <1>6, <1>7, <1>8, <1>9, <1>10, <1>11, <1>12, <1>13 DEF Body

(* A part is made once.                                                    *)
LEMMA NotAgain ==
    ASSUME Control, stage = "create", todo # <<>>
    PROVE  /\ Head(todo) \notin ToSet(Tail(todo)) /\ Head(todo) \in Part \union {"close"}
           /\ ToSet(todo) = {Head(todo)} \union ToSet(Tail(todo))
<1>1. todo \in Seq(Part \union {"close"})
  BY DEF Control
<1>2. /\ Tail(todo) \in Seq(Part \union {"close"}) /\ Head(todo) = todo[1]
      /\ Head(todo) \in Part \union {"close"}
      /\ Len(todo) \in Nat \ {0} /\ Len(Tail(todo)) \in Nat
      /\ \A i \in 1 .. Len(Tail(todo)) : Tail(todo)[i] = todo[i + 1] /\ i + 1 \in 1 .. Len(todo)
      /\ ToSet(todo) = {Head(todo)} \union ToSet(Tail(todo))
  BY <1>1, Taken
<1>3. ASSUME Head(todo) \in ToSet(Tail(todo)) PROVE FALSE
  <2>1. PICK i \in 1 .. Len(Tail(todo)) : Tail(todo)[i] = todo[1]
    <3>1. Tail(todo) \in Seq(Part \union {"close"})
      BY <1>2
    <3>2. \A a : a \in ToSet(Tail(todo)) <=> \E i \in 1 .. Len(Tail(todo)) : Tail(todo)[i] = a
      BY ONLY <3>1, Within
    <3> QED BY <1>2, <1>3, <3>2
  <2>2. i + 1 = 1
    BY <1>2, <2>1 DEF Control
  <2> QED BY <2>2
<1> QED BY <1>2, <1>3

LEMMA PartsInit == Init => PartsInv
<1> SUFFICES ASSUME Init PROVE PartsInv
  OBVIOUS
<1>1. /\ stage = "create" /\ alive = {} /\ todo = MakingOrder /\ open = {} /\ types = <<>>
      /\ occurred = FALSE /\ stale = {} /\ \A r \in Raws : payload[r] = NULL
  BY DEF Init
<1>2. "close" \notin Part
  BY Parts
<1>3. Making
  BY <1>1, <1>2, Parts DEF Making
<1>4. Libs
  <2>1. Len(<<>>) = 0
    BY EmptySeq
  <2> QED BY <1>1, <2>1 DEF Libs, Registry
<1> QED BY <1>1, <1>3, <1>4 DEF PartsInv, Complete, LeftAtEnd

LEMMA PartsMake ==
    ASSUME Control, PartsInv, MakePart \/ LeaveTypesOut
    PROVE  PartsInv'
<1>1. /\ stage = "create" /\ stage' = "create" /\ todo # <<>> /\ todo' = Tail(todo)
      /\ program' = program /\ open' = open /\ types' = types /\ payload' = payload
      /\ occurred' = occurred
      /\ \/ alive' = alive \union {Head(todo)} /\ Use(Needed(Head(todo)))
         \/ alive' = alive /\ stale' = stale /\ Head(todo) = "builtin_types"
  BY DEF MakePart, LeaveTypesOut, objects
<1>2. Making /\ Libs /\ stale = {} /\ alive \subseteq Part
  BY <1>1 DEF PartsInv, Early
<1>3. /\ Head(todo) \notin ToSet(todo') /\ Head(todo) \in Part \union {"close"}
      /\ ToSet(todo) = {Head(todo)} \union ToSet(todo')
  BY <1>1, NotAgain
<1>4. todo \in Seq(Part \union {"close"})
  BY DEF Control
<1>5. /\ \A b : Precedes(todo, "resource", b) => Head(todo) # b
      /\ \A b : Precedes(todo, "resource", b) /\ Head(todo) # "resource" =>
            Precedes(todo', "resource", b)
  BY <1>1, <1>4, Orders
<1>6. Head(todo) \in Pooled => "resource" \in alive
  BY <1>2, <1>5 DEF Making
<1>7. stale' = {}
  <2>1. Needed(Head(todo)) \subseteq alive
    BY <1>6 DEF Needed
  <2> QED BY <1>1, <1>2, <2>1, Used
<1>8. Making'
  <2>1. "resource" \in alive' \/ \A b \in Pooled : b \notin alive' /\ Precedes(todo', "resource", b)
    <3>1. CASE "resource" \in alive
      BY <1>1, <3>1
    <3>2. CASE "resource" \notin alive
      <4>1. \A b \in Pooled : b \notin alive /\ Precedes(todo, "resource", b)
        BY <1>2, <3>2 DEF Making
      <4>2. CASE Head(todo) = "resource"
        BY <1>1, <4>2
      <4>3. CASE Head(todo) # "resource"
        BY <1>1, <1>5, <4>1, <4>3
      <4> QED BY <4>2, <4>3
    <3> QED BY <3>1, <3>2
  <2>2. Part \ {"builtin_types"} \subseteq alive' \union ToSet(todo')
    BY <1>1, <1>2, <1>3 DEF Making
  <2>3. alive' \intersect ToSet(todo') = {} /\ "close" \notin ToSet(todo')
    BY <1>1, <1>2, <1>3 DEF Making
  <2> QED BY <1>1, <1>2, <2>1, <2>2, <2>3 DEF Making
<1>9. Libs'
  BY <1>1, <1>2 DEF Libs, Registry
<1>10. alive' \subseteq Part
  BY <1>1, <1>2, <1>3 DEF Making
<1> QED BY <1>1, <1>7, <1>8, <1>9, <1>10 DEF PartsInv, Complete, LeftAtEnd

LEMMA PartsUndo ==
    ASSUME Control, Held, PartsInv, MakeNothing
    PROVE  PartsInv'
<1>1. /\ stage = "create" /\ stage' = "ended" /\ todo # <<>> /\ todo' = todo
      /\ alive' = alive \ (ToSet(UndoOrder) \union {"builtin_types"})
      /\ stale' = stale \union Missing(alive, UndoOrder)
      /\ open' = open /\ place' = place
  BY DEF MakeNothing, objects
<1>2. Making /\ stale = {} /\ alive \subseteq Part
  BY <1>1 DEF PartsInv
<1>3. "resource" \in alive \/ alive \intersect Pooled = {}
  BY <1>2 DEF Making
<1>4. /\ ToSet(UndoOrder) \union {"builtin_types"} = Part \ {"gc_stub"}
      /\ Missing(alive, UndoOrder) = {}
  BY <1>3, Undone
<1>5. "gc_stub" \in Part
  BY Parts
<1>6. alive' = {"gc_stub"} \ ToSet(todo)
  BY <1>1, <1>2, <1>4, <1>5 DEF Making
<1>7. LeftAtEnd'
  BY <1>1, <1>2, <1>6 DEF LeftAtEnd, Making
<1>8. \A o \in Objects : place'[o] = "none"
  BY <1>1 DEF Held
<1>9. {"none"} \intersect (Places \union {"thread"} \union Instances) = {} /\ Raws \subseteq Objects
  BY LifecycleAssumption DEF Places, Objects
<1> QED BY <1>1, <1>2, <1>4, <1>5, <1>6, <1>7, <1>8, <1>9 DEF PartsInv, Complete, Early

(* Steps in which modules are loaded or functions found.                   *)
LEMMA PartsSteady ==
    ASSUME PartsInv, Complete', Complete \/ (stage = "create" /\ todo = <<>>),
           UNCHANGED <<program, alive, open, types, payload>>, stale' = {}
    PROVE  PartsInv'
<1>1. Early /\ stage' # "ended" /\ stage' # "create" /\ stage' # "destroy"
  BY DEF Early, Complete
<1>2. Part \ {"builtin_types"} \subseteq alive
  <2>1. CASE Complete
    BY <2>1 DEF PartsInv
  <2>2. CASE stage = "create" /\ todo = <<>>
    <3>1. ToSet(<<>>) = {}
      <4>1. DOMAIN <<>> = {}
        OBVIOUS
      <4> QED BY <4>1 DEF ToSet
    <3> QED BY <2>2, <3>1 DEF PartsInv, Making
  <2> QED BY <2>1, <2>2
<1>3. Libs'
  BY <1>1 DEF PartsInv, Libs, Registry
<1> QED BY <1>1, <1>2, <1>3 DEF PartsInv, LeftAtEnd

LEMMA PartsRun ==
    ASSUME Control, Held, PartsInv, Load \/ Pass \/ Destruct \/ EndOfThreads \/ Body
    PROVE  PartsInv'
<1>1. CASE Load
  <2>1. /\ Complete' /\ (Complete \/ (stage = "create" /\ todo = <<>>))
        /\ UNCHANGED <<program, alive, open, types, payload, stale>>
    BY <1>1 DEF Load, LoadMain, LoadNext, LoadFile, AllLoaded, Fail, objects, Complete
  <2> QED BY <2>1, PartsSteady DEF PartsInv
<1>2. CASE Pass
  <2>1. /\ Complete' /\ Complete
        /\ UNCHANGED <<program, alive, open, types, payload>>
        /\ stale' = stale \/ Use({"threads", "modules"})
    BY <1>2 DEF Pass, RunFunction, PassOver, EndOfPass, RunMain, EndOfMain, InPass, Fail, objects, Complete
  <2>2. stale' = {}
    <3>1. {"threads", "modules"} \subseteq alive
      BY <2>1, Parts DEF PartsInv
    <3> QED BY <2>1, <3>1, Used DEF PartsInv
  <2> QED BY <2>1, <2>2, PartsSteady
<1>3. CASE Destruct \/ EndOfThreads \/ Body
  <2>1. alive' = alive /\ stale' = {} /\ Libs'
    BY <1>3, PartsBody
  <2>2. Complete /\ Complete' /\ stage' # "create"
    <3>1. InFunction
      BY <1>3, BodyStep
    <3> QED BY <3>1, InBodyIsEarly DEF InFunction, Complete
  <2>3. stage' # "ended" /\ stage' # "destroy"
    BY <2>2 DEF Complete
  <2> QED BY <2>1, <2>2, <2>3 DEF PartsInv, LeftAtEnd
<1> QED BY <1>1, <1>2, <1>3

(* The parts are destroyed in an order that leaves each what it needs.     *)
LEMMA PartsCollect ==
    ASSUME Control, Held, PartsInv, FinalCollect
    PROVE  PartsInv'
<1> DEFINE garbage == Unreachable(Places \union {"thread"})
<1>1. /\ stage = "collect" /\ stage' = "destroy" /\ todo' = DestroyOrder(occurred')
      /\ CallCollectors(garbage, {}, Roots) /\ occurred' \in BOOLEAN
      /\ UNCHANGED <<program, alive, modules, open>>
  BY DEF FinalCollect, Control, loading
<1>2. payload' = payload
  BY <1>1, PayloadsStay
<1>3. Complete /\ Early /\ Libs /\ stale = {} /\ Part \ {"builtin_types"} \subseteq alive /\ alive \subseteq Part
  BY <1>1 DEF PartsInv, Complete, Early
<1>4. stale' = {}
  BY <1>1, <1>3, WholeUse
<1> HIDE DEF garbage
<1>5. /\ Closes(todo')
      /\ ToSet(todo') = IF occurred' THEN Part \ {"gc_stub", "resource", "mutexes", "semaphores", "builtin_types"}
                        ELSE (Part \union {"close"}) \ {"builtin_types"}
  BY <1>1, ClosesWhole, ClosesAfterError
<1>6. /\ "resource" \in alive /\ "data_types" \in alive
      /\ {"threads", "modules", "globals", "builtins"} \subseteq ToSet(todo')
      /\ ~ occurred' => "close" \in ToSet(todo') /\ "gc_stub" \in ToSet(todo')
  BY <1>3, <1>5, Parts
<1>7. LET left == IF occurred' THEN {"gc_stub", "resource", "mutexes", "semaphores"} ELSE {}
      IN /\ left \subseteq alive' /\ left \intersect ToSet(todo') = {}
         /\ alive' \subseteq left \union ToSet(todo') \union
                (IF "builtins" \in ToSet(todo') THEN {"builtin_types"} ELSE {})
  BY <1>1, <1>3, <1>5, <1>6, Parts
<1>8. \A r \in Raws : payload'[r] \in open' \union {NULL}
  BY <1>1, <1>2, <1>3 DEF Libs
<1>9. Closing'
  BY <1>1, <1>5, <1>6, <1>7, <1>8 DEF Closing, Closes
<1> QED BY <1>1, <1>3, <1>4, <1>9 DEF PartsInv, Complete, Early, LeftAtEnd

LEMMA NothingLeft == ToSet(<<>>) = {}
<1>1. DOMAIN <<>> = {}
  OBVIOUS
<1> QED BY <1>1 DEF ToSet

LEMMA PartsFinish ==
    ASSUME PartsInv, Finish
    PROVE  PartsInv'
<1>1. /\ stage = "destroy" /\ stage' = "ended" /\ todo = <<>> /\ todo' = todo
      /\ UNCHANGED <<program, alive, occurred, open, place, class, types, lost, stale>>
  BY DEF Finish, objects
<1>2. Closing /\ stale = {} /\ alive \subseteq Part
  BY <1>1 DEF PartsInv
<1>3. alive = IF occurred THEN {"gc_stub", "resource", "mutexes", "semaphores"} ELSE {}
  BY <1>1, <1>2, NothingLeft DEF Closing
<1>4. LeftAtEnd'
  BY <1>1, <1>2, <1>3, NothingLeft DEF LeftAtEnd, Closing
<1>5. \A o \in Objects : place[o] \notin Places \union {"thread"}
  BY <1>1, <1>2, NothingLeft DEF Closing, Places
<1>6. ~ occurred => \A r \in Raws : place[r] \notin Instances \ Keepers
  BY <1>1, <1>2, NothingLeft DEF Closing
<1>7. Keepers' = Keepers
  BY <1>1 DEF Keepers, HasNotEnded
<1> QED BY <1>1, <1>2, <1>4, <1>5, <1>6, <1>7 DEF PartsInv, Complete, Early

(* One part is destroyed.                                                  *)
LEMMA Destroyed ==
    ASSUME Control, Held, PartsInv, DestroyPart
    PROVE  /\ stale' = {} /\ payload' = payload
           /\ \A o \in Objects : place'[o] = place[o] \/ place'[o] = "gone"
           /\ \A o \in Objects : place'[o] \notin PlaceOf(Head(todo))
           /\ Head(todo) = "gc_stub" => modules = <<>>
           /\ Keepers' = Keepers
           /\ Head(todo) = "gc_stub" =>
                \A r \in Raws : place'[r] \in Instances => place'[r] \in Keepers
<1> DEFINE part == Head(todo)
           is == IF part = "gc_stub" THEN Registered ELSE {}
           os == At(PlaceOf(part))
<1>1. /\ stage = "destroy" /\ todo # <<>> /\ types' = types /\ lost' = lost
      /\ CallCollectors(is, os, Needed(part))
  BY DEF DestroyPart
<1>2. Closing /\ stale = {}
  BY <1>1 DEF PartsInv
<1>3. todo \in Seq(Part \union {"close"})
  BY DEF Control
<1>4. part \in ToSet(todo)
  <2>1. ToSet(todo) = {Head(todo)} \union ToSet(Tail(todo))
    BY <1>1, <1>3, Taken
  <2> QED BY <2>1
<1>5. part = "gc_stub" => modules = <<>>
  <2>1. Precedes(todo, "modules", "gc_stub") => Head(todo) # "gc_stub"
    BY <1>1, <1>3, Orders
  <2> QED BY <1>2, <2>1 DEF Closing
<1>6. Begun(is) = {}
  BY <1>5 DEF Begun
<1>7. part \in Pooled \union {"gc_stub"} => "resource" \in alive
  BY <1>2, <1>4 DEF Closing
<1>8. Needed(part) \subseteq alive
  BY <1>7 DEF Needed
<1>9. part \in Users => \A r \in Raws : payload[r] \in open \union {NULL}
  <2>1. part \in Users => ToSet(todo) \intersect Users # {}
    BY <1>4
  <2> QED BY <1>2, <2>1 DEF Closing
<1>10. os \union At(Freed(is)) # {} =>
          "resource" \in alive /\ \A r \in Raws : payload[r] \in open \union {NULL}
  <2>1. part \notin Users => PlaceOf(part) = {} /\ is = {}
    BY DEF Users, PlaceOf
  <2>2. part \notin Users => os \union At(Freed(is)) = {}
    BY <2>1 DEF At, Freed
  <2>3. Users \subseteq Pooled \union {"gc_stub"}
    BY DEF Users, Pooled
  <2> QED BY <1>7, <1>9, <2>2, <2>3
<1>11. is # {} => "data_types" \in alive /\ "resource" \in alive
  <2>1. is # {} => part = "gc_stub"
    OBVIOUS
  <2> QED BY <1>2, <1>4, <1>7, <2>1 DEF Closing
<1> HIDE DEF is, os, part
<1>12. stale' = {}
  BY <1>1, <1>2, <1>6, <1>8, <1>10, <1>11, CollectorsUse
<1>13. payload' = payload
  BY <1>1, PayloadsStay
<1>14. is \subseteq Live
  BY DEF is, Registered
<1>15. /\ \A i \in Instances :
            /\ class'[i].type = class[i].type
            /\ class'[i].destructed <=> class[i].destructed
       /\ DestroyShells(os \union At(Freed(is)))
  BY <1>1, <1>14, ClassesAfter
<1>16. \A o \in Objects : place'[o] = IF o \in os \union At(Freed(is)) THEN "gone" ELSE place[o]
  BY <1>15 DEF DestroyShells
<1>17. \A o \in Objects : place'[o] \notin PlaceOf(part)
  <2>1. "gone" \notin PlaceOf(part)
    BY DEF PlaceOf
  <2>2. \A o \in Objects : place[o] \in PlaceOf(part) => o \in os
    BY DEF os, At
  <2> QED BY <1>16, <2>1, <2>2
<1>18. Keepers' = Keepers
  <2>1. \A i \in Instances : HasNotEnded(i)' <=> HasNotEnded(i)
    BY <1>1, <1>15 DEF HasNotEnded
  <2> QED BY <1>1, <2>1 DEF Keepers
<1>19. ASSUME part = "gc_stub", NEW r \in Raws, place'[r] \in Instances
       PROVE  place'[r] \in Keepers
  <2> DEFINE i == place[r]
  <2>1. place'[r] = i /\ r \notin At(Freed(is)) /\ r \in Objects /\ i \in Instances
    BY <1>16, <1>19, LifecycleAssumption DEF Objects
  <2>2. i \notin Freed(is)
    BY <2>1 DEF At
  <2> HIDE DEF i
  <2>3. class[i].inner
    BY <2>1 DEF Held, i
  <2> SUFFICES ASSUME i \notin lost PROVE HasNotEnded(i)
    BY <2>1 DEF Keepers
  <2>4. i \in is
    BY <1>19, <2>1, <2>3 DEF is, Registered, Live
  <2>5. ToDestruct(i) \/ Pending(i)
    BY <2>2, <2>4 DEF Freed
  <2>6. types[class[i].type].destructor # NULL /\ ~ class[i].destructed
    BY <2>1, <2>5 DEF ToDestruct, Pending, Held
  <2>7. class[i].type # 0
    <3>1. types \in Seq(Type) /\ class[i].type \in 1 .. Len(types)
      BY <2>1, <2>3 DEF Held
    <3>2. Len(types) \in Nat
      BY <3>1, LenProperties
    <3> QED BY <3>1, <3>2
  <2> QED BY <2>6, <2>7 DEF HasNotEnded
<1> QED BY <1>5, <1>12, <1>13, <1>16, <1>17, <1>18, <1>19 DEF part

LEMMA PartsDestroy ==
    ASSUME Control, Held, PartsInv, DestroyPart
    PROVE  PartsInv'
<1> DEFINE part == Head(todo)
<1>1. /\ stage = "destroy" /\ stage' = "destroy" /\ todo # <<>> /\ todo' = Tail(todo)
      /\ alive' = alive \ ({part} \union (IF part = "builtins" THEN {"builtin_types"} ELSE {}))
      /\ waiting' = IF part = "threads" THEN {} ELSE waiting
      /\ modules' = IF part = "modules" THEN <<>> ELSE modules
      /\ open' = IF part = "close" /\ ~ program.keep_dll THEN {} ELSE open
      /\ program' = program /\ occurred' = occurred
  BY DEF DestroyPart
<1>2. Closing /\ alive \subseteq Part
  BY <1>1 DEF PartsInv
<1>3. todo \in Seq(Part \union {"close"})
  BY DEF Control
<1>4. ToSet(todo) = {part} \union ToSet(todo')
  BY <1>1, <1>3, Taken
<1>5. \A a, b : /\ NotAfter(todo, a, b) => NotAfter(todo', a, b)
                /\ NotAfter(todo, a, b) /\ part = a => b \notin ToSet(todo')
                /\ Precedes(todo, a, b) /\ part # a => Precedes(todo', a, b)
  BY <1>1, <1>3, Orders
<1>6. /\ stale' = {} /\ payload' = payload
      /\ \A o \in Objects : place'[o] = place[o] \/ place'[o] = "gone"
      /\ \A o \in Objects : place'[o] \notin PlaceOf(part)
      /\ Keepers' = Keepers
      /\ part = "gc_stub" => \A r \in Raws : place'[r] \in Instances => place'[r] \in Keepers
  BY Destroyed
<1> HIDE DEF part
<1>7. \A b \in Pooled \union {"gc_stub"} :
        NotAfter(todo', "resource", b) /\ (b \in ToSet(todo') => "resource" \in alive')
  BY <1>1, <1>2, <1>4, <1>5 DEF Closing
<1>8. /\ NotAfter(todo', "data_types", "gc_stub")
      /\ "gc_stub" \in ToSet(todo') => "data_types" \in alive'
  BY <1>1, <1>2, <1>4, <1>5 DEF Closing
<1>9. /\ modules' = <<>> \/ Precedes(todo', "modules", "gc_stub")
      /\ waiting' = {} \/ Precedes(todo', "threads", "gc_stub")
      /\ \A b \in Users : NotAfter(todo', "close", b)
      /\ NotAfter(todo', "threads", "threads")
  BY <1>1, <1>2, <1>5 DEF Closing
<1>10. ToSet(todo') \intersect Users # {} => \A r \in Raws : payload'[r] \in open' \union {NULL}
  <2> SUFFICES ASSUME NEW b \in ToSet(todo'), b \in Users
               PROVE  \A r \in Raws : payload'[r] \in open' \union {NULL}
    OBVIOUS
  <2>1. part # "close"
    BY <1>2, <1>5 DEF Closing
  <2>2. \A r \in Raws : payload[r] \in open \union {NULL}
    BY <1>2, <1>4 DEF Closing
  <2> QED BY <1>1, <1>6, <2>1, <2>2
<1>11. "threads" \notin ToSet(todo')
  BY <1>2, <1>4, <1>5 DEF Closing, part
<1>12. ASSUME NEW o \in Objects
       PROVE  /\ place'[o] = "thread" => "threads" \in ToSet(todo')
              /\ place'[o] = "module" => "modules" \in ToSet(todo')
              /\ place'[o] = "global" => "globals" \in ToSet(todo')
  <2>1. /\ place[o] = "thread" => "threads" \in ToSet(todo)
        /\ place[o] = "module" => "modules" \in ToSet(todo)
        /\ place[o] = "global" => "globals" \in ToSet(todo)
    BY <1>2 DEF Closing
  <2>2. /\ place'[o] = "thread" => part # "threads"
        /\ place'[o] = "module" => part # "modules"
        /\ place'[o] = "global" => part # "globals"
    BY <1>6 DEF PlaceOf
  <2> QED BY <1>4, <1>6, <2>1, <2>2
<1>13. LET left == IF occurred' THEN {"gc_stub", "resource", "mutexes", "semaphores"} ELSE {}
       IN /\ left \subseteq alive' /\ left \intersect ToSet(todo') = {}
          /\ alive' \subseteq left \union ToSet(todo') \union
                (IF "builtins" \in ToSet(todo') THEN {"builtin_types"} ELSE {})
  <2> DEFINE left == IF occurred THEN {"gc_stub", "resource", "mutexes", "semaphores"} ELSE {}
  <2>1. /\ left \subseteq alive /\ left \intersect ToSet(todo) = {}
        /\ alive \subseteq left \union ToSet(todo) \union
                (IF "builtins" \in ToSet(todo) THEN {"builtin_types"} ELSE {})
    BY <1>2 DEF Closing
  <2>2. "builtin_types" \notin left
    OBVIOUS
  <2> HIDE DEF left
  <2>3. /\ left \subseteq alive' /\ left \intersect ToSet(todo') = {}
        /\ alive' \subseteq left \union ToSet(todo') \union
                (IF "builtins" \in ToSet(todo') THEN {"builtin_types"} ELSE {})
    BY <1>1, <1>4, <2>1, <2>2
  <2> QED BY <1>1, <2>3 DEF left
<1>14. "close" \in ToSet(todo') \/ occurred' \/ open' = {} \/ program'.keep_dll
  BY <1>1, <1>2, <1>4 DEF Closing
<1>15. "gc_stub" \in ToSet(todo') \/ occurred' \/
        \A r \in Raws : place'[r] \notin Instances \ Keepers'
  <2>1. CASE part = "gc_stub"
    BY <1>6, <2>1
  <2>2. CASE part # "gc_stub"
    <3>1. Raws \subseteq Objects /\ "gone" \notin Instances
      BY LifecycleAssumption DEF Objects
    <3>2. "gc_stub" \in ToSet(todo') \/ occurred \/
            \A r \in Raws : place[r] \notin Instances \ Keepers
      BY <1>2, <1>4, <2>2 DEF Closing
    <3> QED BY <1>1, <1>6, <3>1, <3>2
  <2> QED BY <2>1, <2>2
<1>16. Closing'
  BY <1>7, <1>8, <1>9, <1>10, <1>11, <1>12, <1>13, <1>14, <1>15 DEF Closing
<1> QED BY <1>1, <1>2, <1>6, <1>16 DEF PartsInv, Complete, Early, LeftAtEnd

LEMMA PartsStep == Control /\ Held /\ PartsInv /\ [Next]_vars => PartsInv'
<1> SUFFICES ASSUME Control, Held, PartsInv, [Next]_vars PROVE PartsInv'
  OBVIOUS
<1>1. CASE Make
  BY <1>1, PartsMake, PartsUndo DEF Make
<1>2. CASE Load \/ Pass \/ Destruct \/ EndOfThreads \/ Body
  BY <1>2, PartsRun
<1>3. CASE End
  BY <1>3, PartsCollect, PartsDestroy, PartsFinish DEF End
<1>4. CASE UNCHANGED vars
  <2>1. /\ UNCHANGED <<program, stage, alive, todo, modules, occurred, open, types, payload,
                       place, class, waiting, lost, stale>>
    BY <1>4 DEF vars, loading, objects
  <2>2. /\ Libs' <=> Libs
        /\ Closing' <=> Closing
        /\ Making' <=> Making
        /\ LeftAtEnd' <=> LeftAtEnd
    <3>1. Libs' <=> Libs
      BY <2>1 DEF Libs, Registry
    <3>2. Keepers' = Keepers
      BY <2>1 DEF Keepers, HasNotEnded
    <3>3. Closing' <=> Closing
      BY <2>1, <3>2 DEF Closing
    <3>4. Making' <=> Making
      BY <2>1 DEF Making
    <3>5. LeftAtEnd' <=> LeftAtEnd
      BY <2>1 DEF LeftAtEnd
    <3> QED BY <3>1, <3>3, <3>4, <3>5
  <2>3. Keepers' = Keepers
    BY <2>1 DEF Keepers, HasNotEnded
  <2> QED BY <2>1, <2>2, <2>3 DEF PartsInv, Early, Complete
<1> QED BY <1>1, <1>2, <1>3, <1>4 DEF Next

(* What is out of reach when the last function ends has had its            *)
(* destructor, so the last collection starts none.                         *)
LEMMA HaveRunStep ==
    Control /\ Held /\ Quiet /\ PartsInv /\ DestructorsHaveRun /\ [Next]_vars => DestructorsHaveRun'
<1> SUFFICES ASSUME Control, Held, Quiet, PartsInv, DestructorsHaveRun, [Next]_vars,
                    stage' = "destroy", todo' # <<>>, Head(todo') = "threads", ~ failed', ~ occurred'
             PROVE  waiting' = {} /\ \A i \in Live' : place'[i] = "gone" => class'[i].destructing
  BY DEF DestructorsHaveRun
<1>1. CASE FinalCollect
  <2> DEFINE garbage == Unreachable(Places \union {"thread"})
  <2>1. /\ stage = "collect" /\ CallCollectors(garbage, {}, Roots) /\ ~ failed
        /\ waiting' = waiting \union Begun(garbage)
    BY <1>1 DEF FinalCollect
  <2>2. fn = NULL /\ Early
    BY <2>1 DEF Control, Early, Complete
  <2>3. waiting = {} /\ \A i \in Registered : place[i] \notin Places => Pending(i)
    BY <2>1, <2>2 DEF Quiet
  <2>4. \A i \in garbage : i \in Live /\ Pending(i)
    BY <2>3 DEF Unreachable, Registered
  <2>5. Begun(garbage) = {} /\ Freed(garbage) = {}
    BY <2>4 DEF Begun, Freed, ToDestruct
  <2>6. /\ \A i \in Instances :
              /\ class'[i].inner <=> class[i].inner /\ i \notin Freed(garbage)
              /\ class'[i].destructing <=> class[i].destructing \/ i \in Begun(garbage)
        /\ DestroyShells({} \union At(Freed(garbage)))
    <3>1. garbage \subseteq Live
      BY <2>4
    <3> HIDE DEF garbage
    <3> QED BY <2>1, <3>1, ClassesAfter
  <2>7. \A o \in Objects : place'[o] = place[o]
    BY <2>5, <2>6 DEF DestroyShells, At
  <2>8. ASSUME NEW i \in Live', place'[i] = "gone" PROVE class'[i].destructing
    <3>1. i \in Instances /\ class[i].inner /\ place[i] = "gone"
      BY <2>6, <2>7, <2>8 DEF Live, Objects
    <3>2. CASE i \in lost
      <4>1. class[i].destructing
        BY <3>2 DEF Held
      <4> QED BY <2>6, <3>1, <4>1
    <3>3. CASE i \notin lost
      <4>1. Pending(i)
        BY <2>3, <3>1, <3>3 DEF Registered, Live, Places
      <4> QED BY <2>6, <3>1, <4>1 DEF Pending
    <3> QED BY <3>2, <3>3
  <2> QED BY <2>1, <2>3, <2>5, <2>8
<1>2. CASE DestroyPart
  <2>1. stage = "destroy" /\ todo # <<>> /\ todo' = Tail(todo) /\ todo \in Seq(Part \union {"close"})
    BY <1>2 DEF DestroyPart, Control
  <2>2. /\ ToSet(todo) = {Head(todo)} \union ToSet(todo')
        /\ todo' \in Seq(Part \union {"close"})
    BY <2>1, Taken
  <2>3. Head(todo') \in ToSet(todo')
    <3>1. ToSet(todo') = {Head(todo')} \union ToSet(Tail(todo'))
      BY <2>2, Taken
    <3> QED BY <3>1
  <2>4. "threads" \in ToSet(todo) /\ "threads" \in ToSet(todo')
    BY <2>2, <2>3
  <2>5. Closing
    BY <2>1 DEF PartsInv
  <2>6. NotAfter(todo, "threads", "threads") /\ Head(todo) = "threads"
    BY <2>4, <2>5 DEF Closing
  <2>7. "threads" \notin ToSet(todo')
    BY <2>1, <2>6, Orders
  <2> QED BY <2>4, <2>7
<1>3. CASE UNCHANGED vars
  <2>1. UNCHANGED <<stage, todo, failed, occurred, waiting, class, place>>
    BY <1>3 DEF vars, objects
  <2> QED BY <2>1 DEF DestructorsHaveRun, Live
<1>4. CASE Make \/ Load \/ Pass \/ Finish
  BY <1>4 DEF Make, Load, Pass, MakePart, LeaveTypesOut, MakeNothing, LoadMain, LoadNext, LoadFile, Fail,
     AllLoaded, RunFunction, PassOver, EndOfPass, RunMain, EndOfMain, Finish, InPass
<1>5. CASE Destruct \/ EndOfThreads \/ Body
  <2>1. InFunction
    BY <1>5, BodyStep
  <2>2. stage \in {"init", "autorun", "main"}
    BY <2>1 DEF InFunction, Control
  <2> QED BY <2>1, <2>2 DEF InFunction
<1> QED BY <1>1, <1>2, <1>3, <1>4, <1>5 DEF Next, End
-----------------------------------------------------------------------------
(* -- What is loaded ------------------------------------------------------ *)

Listed == Names \union UNION {UNION {ToSet(p.imports[f]) : f \in p.files} : p \in Programs}
Entry == [name : Listed, loaded : BOOLEAN]

Distinct(q) == \A i, j \in 1 .. Len(q) : q[i].name = q[j].name => i = j

(* The modules ms are those of the queue that are loaded; what they import *)
(* is in the queue, and what is left to load was imported by one of them.  *)
Gathered(p, q, ms) ==
    /\ q \in Seq(Entry) /\ Distinct(q)
    /\ Len(ms) >= 2 /\ ms[2].file = p.main
    /\ \A i \in 2 .. Len(ms) : ms[i].file \in p.files
    /\ \A i, j \in 2 .. Len(ms) : ms[i].file = ms[j].file => i = j
    /\ \A i \in 2 .. Len(ms) : \E k \in 1 .. Len(q) : q[k].name = ms[i].file
    /\ \A k \in 1 .. Len(q) :
          q[k].loaded <=> q[k].name = NoName \/ \E i \in 2 .. Len(ms) : q[k].name = ms[i].file
    /\ \A i \in 2 .. Len(ms) : \A n \in ToSet(p.imports[ms[i].file]) :
          \E k \in 1 .. Len(q) : q[k].name = n
    /\ \A k \in 1 .. Len(q) :
          q[k].loaded \/ \E i \in 2 .. Len(ms) : q[k].name \in ToSet(p.imports[ms[i].file])
    /\ \A i \in 3 .. Len(ms) : \E j \in 2 .. (i - 1) : ms[i].file \in ToSet(p.imports[ms[j].file])

Loads ==
    /\ stage = "create" => queue = <<>>
    /\ stage \in {"load", "init", "autorun", "main"} /\ WellNamed(program)
       => Gathered(program, queue, modules)
    /\ stage \in {"init", "autorun", "main"} => Unloaded(queue) = {}

(* The queue q with the entry e, unless its name is there.                 *)
Longer(q, e, r) ==
    /\ r \in Seq(Entry) /\ Distinct(r) /\ Len(q) \in Nat /\ Len(r) \in Nat /\ Len(q) <= Len(r)
    /\ \A k \in 1 .. Len(q) : k \in 1 .. Len(r) /\ r[k] = q[k]
    /\ \A k \in 1 .. Len(r) : k > Len(q) => r[k] = e
    /\ \E k \in 1 .. Len(r) : r[k].name = e.name

LEMMA AppendedName ==
    ASSUME NEW q \in Seq(Entry), Distinct(q), NEW e \in Entry
    PROVE  Longer(q, e, IF Queued(q, e.name) THEN q ELSE Append(q, e))
<1> DEFINE n == e.name
           r == IF Queued(q, n) THEN q ELSE Append(q, e)
<1>1. Len(q) \in Nat /\ DOMAIN q = 1 .. Len(q)
  BY LenProperties
<1>2. CASE Queued(q, n)
  <2>1. r = q
    BY <1>2
  <2>2. \E k \in 1 .. Len(q) : q[k].name = n
    BY <1>1, <1>2 DEF Queued
  <2> HIDE DEF r
  <2>3. Longer(q, e, r)
    BY <1>1, <2>1, <2>2 DEF Longer
  <2> QED BY <2>3 DEF r
<1>3. CASE ~ Queued(q, n)
  <2>2. r = Append(q, e)
    BY <1>3
  <2>3. \A k \in 1 .. Len(q) : q[k].name # n
    BY <1>1, <1>3 DEF Queued
  <2> HIDE DEF r
  <2>4. /\ r \in Seq(Entry) /\ Len(r) = Len(q) + 1 /\ r[Len(q) + 1] = e
        /\ \A k \in 1 .. Len(q) : r[k] = q[k]
    BY <2>2, AppendProperties
  <2>5. Len(r) \in Nat /\ Len(q) + 1 \in 1 .. Len(r)
    BY <1>1, <2>4
  <2>6. \A k \in 1 .. Len(q) : k \in 1 .. Len(r)
    BY <1>1, <2>4
  <2>7. \A k \in 1 .. Len(r) : k \in 1 .. Len(q) \/ (k = Len(q) + 1 /\ k > Len(q))
    BY <1>1, <2>4
  <2>8. Distinct(r)
    <3> SUFFICES ASSUME NEW i \in 1 .. Len(r), NEW j \in 1 .. Len(r), r[i].name = r[j].name
                 PROVE  i = j
      BY DEF Distinct
    <3> QED BY <2>3, <2>4, <2>7 DEF Distinct
  <2>9. \A k \in 1 .. Len(r) : k > Len(q) => r[k] = e
    BY <1>1, <2>4, <2>7
  <2>10. Len(q) <= Len(r)
    BY <1>1, <2>4
  <2>11. Longer(q, e, r)
    BY <1>1, <2>4, <2>5, <2>6, <2>8, <2>9, <2>10 DEF Longer
  <2> QED BY <2>11 DEF r
<1> QED BY <1>2, <1>3

(* What the imports add to a queue.                                        *)
Extends(q, r, names) ==
    /\ r \in Seq(Entry) /\ Distinct(r) /\ Len(r) \in Nat /\ Len(q) <= Len(r)
    /\ \A k \in 1 .. Len(q) : k \in 1 .. Len(r) /\ r[k] = q[k]
    /\ \A k \in 1 .. Len(r) : k > Len(q) => ~ r[k].loaded /\ r[k].name \in names
    /\ \A n \in names : \E k \in 1 .. Len(r) : r[k].name = n

LEMMA ExtendsOne ==
    ASSUME NEW q \in Seq(Entry), NEW names, NEW r, Extends(q, r, names), NEW n \in Listed
    PROVE  Extends(q, AppendName(r, n, FALSE), names \union {n})
<1> DEFINE s == AppendName(r, n, FALSE)
           e == [name |-> n, loaded |-> FALSE]
<1>1. r \in Seq(Entry) /\ Distinct(r) /\ Len(q) \in Nat
  BY LenProperties DEF Extends
<1>2. Longer(r, e, s) /\ e.name = n /\ ~ e.loaded
  <2>1. e \in Entry /\ e.name = n /\ ~ e.loaded
    BY DEF Entry
  <2>2. s = IF Queued(r, e.name) THEN r ELSE Append(r, e)
    BY DEF AppendName
  <2> HIDE DEF s, e
  <2>3. Longer(r, e, IF Queued(r, e.name) THEN r ELSE Append(r, e))
    BY <1>1, <2>1, AppendedName
  <2> QED BY <2>1, <2>2, <2>3
<1> HIDE DEF s, e
<1>3. ASSUME NEW k \in 1 .. Len(s), k > Len(q)
      PROVE  ~ s[k].loaded /\ s[k].name \in names \union {n}
  <2>1. CASE k > Len(r)
    BY <1>2, <2>1 DEF Longer
  <2>2. CASE ~ (k > Len(r))
    <3>1. k \in 1 .. Len(r)
      BY <1>2, <2>2 DEF Longer
    <3> QED BY <1>2, <1>3, <3>1 DEF Extends, Longer
  <2> QED BY <2>1, <2>2
<1>4. ASSUME NEW m \in names \union {n} PROVE \E k \in 1 .. Len(s) : s[k].name = m
  <2>1. CASE m = n
    BY <1>2, <2>1 DEF Longer
  <2>2. CASE m \in names
    <3>1. PICK k \in 1 .. Len(r) : r[k].name = m
      BY <2>2 DEF Extends
    <3> QED BY <1>2, <3>1 DEF Longer
  <2> QED BY <2>1, <2>2
<1>5. Len(q) <= Len(s) /\ \A k \in 1 .. Len(q) : k \in 1 .. Len(s) /\ s[k] = q[k]
  BY <1>1, <1>2 DEF Extends, Longer
<1>6. Extends(q, s, names \union {n})
  BY <1>2, <1>3, <1>4, <1>5 DEF Extends, Longer
<1> QED BY <1>6 DEF s

(* The recursion of AppendImports, step by step.                           *)
LEMMA ImportsAppended ==
    ASSUME NEW q \in Seq(Entry), Distinct(q), NEW names \in Seq(Listed)
    PROVE  Extends(q, AppendImports(q, names), ToSet(names))
<1> DEFINE N == Len(names)
           Nth(f, k) == IF k = 0 THEN q ELSE AppendName(f[k - 1], names[k], FALSE)
           F == CHOOSE f : f = [k \in 0 .. Len(names) |->
                                  IF k = 0 THEN q ELSE AppendName(f[k - 1], names[k], FALSE)]
           first(n) == {names[k] : k \in 1 .. n}
           Good(n) == \E g : g = [k \in 0 .. n |-> Nth(g, k)] /\ Extends(q, g[n], first(n))
<1>1. N \in Nat /\ Len(q) \in Nat /\ DOMAIN names = 1 .. N /\ \A k \in 1 .. N : names[k] \in Listed
  BY LenProperties
<1>2. Good(0)
  <2> DEFINE g == [k \in 0 .. 0 |-> q]
  <2>1. g = [k \in 0 .. 0 |-> Nth(g, k)]
    OBVIOUS
  <2>2. g[0] = q /\ first(0) = {}
    OBVIOUS
  <2>3. Extends(q, q, {})
    BY <1>1 DEF Extends
  <2>4. g = [k \in 0 .. 0 |-> Nth(g, k)] /\ Extends(q, g[0], first(0))
    BY <2>1, <2>2, <2>3
  <2> HIDE DEF g, Nth, first
  <2> QED BY <2>4
<1>3. ASSUME NEW n \in 0 .. N, n < N, Good(n) PROVE Good(n + 1)
  <2>1. PICK g : g = [k \in 0 .. n |-> Nth(g, k)] /\ Extends(q, g[n], first(n))
    BY <1>3
  <2> DEFINE h == [k \in 0 .. (n + 1) |-> IF k = n + 1 THEN AppendName(g[n], names[n + 1], FALSE)
                                         ELSE g[k]]
  <2>2. n \in Nat /\ n + 1 \in 1 .. N /\ names[n + 1] \in Listed
    BY <1>1, <1>3
  <2>3. \A k \in 0 .. n : g[k] = Nth(g, k)
    <3> HIDE DEF Nth
    <3> QED BY <2>1
  <2>4. ASSUME NEW k \in 0 .. (n + 1) PROVE h[k] = Nth(h, k)
    <3>1. CASE k = 0
      <4>1. 0 \in 0 .. n /\ h[0] = g[0]
        BY <2>2
      <4> QED BY <2>3, <3>1, <4>1
    <3>2. CASE k # 0 /\ k # n + 1
      <4>1. k \in 0 .. n /\ k - 1 \in 0 .. (n + 1) /\ k - 1 # n + 1
        BY <2>2, <3>2
      <4>2. h[k] = g[k] /\ h[k - 1] = g[k - 1]
        BY <3>2, <4>1
      <4> QED BY <2>3, <3>2, <4>1, <4>2
    <3>3. CASE k = n + 1
      <4>1. k # 0 /\ k - 1 = n /\ n \in 0 .. (n + 1) /\ n # n + 1
        BY <2>2, <3>3
      <4>2. h[n] = g[n] /\ h[k] = AppendName(g[n], names[n + 1], FALSE)
        BY <3>3, <4>1
      <4> QED BY <3>3, <4>1, <4>2
    <3> QED BY <3>1, <3>2, <3>3
  <2>5. h = [k \in 0 .. (n + 1) |-> Nth(h, k)]
    <3>1. h = [k \in 0 .. (n + 1) |-> h[k]]
      OBVIOUS
    <3> HIDE DEF h, Nth
    <3> QED BY <2>4, <3>1
  <2>6. first(n + 1) = first(n) \union {names[n + 1]}
    BY <2>2
  <2>7. h[n + 1] = AppendName(g[n], names[n + 1], FALSE)
    BY <2>2
  <2> HIDE DEF h, Nth, first
  <2>8. Extends(q, h[n + 1], first(n + 1))
    BY <2>1, <2>2, <2>6, <2>7, ExtendsOne
  <2> QED BY <2>5, <2>8
<1> HIDE DEF Good
<1>4. Good(N)
  <2> SUFFICES ASSUME ~ Good(N) PROVE FALSE
    OBVIOUS
  <2> DEFINE bad == {n \in 0 .. N : ~ Good(n)}
  <2>1. N \in bad /\ bad \in SUBSET Nat
    BY <1>1
  <2>2. PICK m \in bad : \A k \in bad : m <= k
    BY <2>1, Least
  <2>3. m # 0 /\ m \in 0 .. N
    BY <1>2, <2>2
  <2>4. m - 1 \in 0 .. N /\ m - 1 < N /\ (m - 1) + 1 = m /\ ~ (m <= m - 1)
    BY <1>1, <2>3
  <2>5. Good(m - 1)
    BY <2>2, <2>4
  <2>6. Good((m - 1) + 1)
    BY <1>3, <2>4, <2>5
  <2> QED BY <2>2, <2>4, <2>6
<1>5. PICK g : g = [k \in 0 .. N |-> Nth(g, k)] /\ Extends(q, g[N], first(N))
  BY <1>4 DEF Good
<1>6. F = [k \in 0 .. N |-> Nth(F, k)]
  BY <1>5
<1>7. \A k \in 0 .. N : F[k] = Nth(F, k) /\ g[k] = Nth(g, k)
  <2> HIDE DEF F, Nth
  <2> QED BY <1>5, <1>6
<1>8. AppendImports(q, names) = F[N]
  BY DEF AppendImports
<1> HIDE DEF F
<1>9. F[N] = g[N]
  <2> SUFFICES ASSUME F[N] # g[N] PROVE FALSE
    OBVIOUS
  <2> DEFINE bad == {n \in 0 .. N : F[n] # g[n]}
  <2>1. N \in bad /\ bad \in SUBSET Nat
    BY <1>1
  <2>2. PICK m \in bad : \A k \in bad : m <= k
    BY <2>1, Least
  <2>3. CASE m = 0
    BY <1>7, <2>2, <2>3
  <2>4. CASE m # 0
    <3>1. m - 1 \in 0 .. N /\ ~ (m <= m - 1)
      BY <1>1, <2>2, <2>4
    <3>2. F[m - 1] = g[m - 1]
      BY <2>2, <3>1
    <3> QED BY <1>7, <2>2, <2>4, <3>2
  <2> QED BY <2>3, <2>4
<1>10. first(N) = ToSet(names)
  BY <1>1 DEF ToSet
<1> QED BY <1>5, <1>8, <1>9, <1>10

(* The queue after a file was loaded.                                      *)
After(p, f, q, r) ==
    /\ r \in Seq(Entry) /\ Distinct(r) /\ Len(q) \in Nat /\ Len(r) \in Nat /\ Len(q) <= Len(r)
    /\ \A k \in 1 .. Len(q) : k \in 1 .. Len(r) /\ r[k] = q[k]
    /\ \A k \in 1 .. Len(r) : k > Len(q) =>
          \/ ~ r[k].loaded /\ r[k].name \in ToSet(p.imports[f])
          \/ r[k].loaded /\ r[k].name = ModuleName(p, f)
    /\ \A n \in ToSet(p.imports[f]) : \E k \in 1 .. Len(r) : r[k].name = n
    /\ \E k \in 1 .. Len(r) : r[k].name = ModuleName(p, f)

LEMMA QueuedAfter ==
    ASSUME NEW p \in Programs, NEW f \in p.files, NEW q \in Seq(Entry), Distinct(q)
    PROVE  After(p, f, q, QueueAfter(p, q, f))
<1> DEFINE s == AppendImports(q, p.imports[f])
           r == QueueAfter(p, q, f)
           e == [name |-> ModuleName(p, f), loaded |-> TRUE]
<1>1. ModuleName(p, f) \in Listed
  BY DEF ModuleName, Listed, Names
<1>2. p.imports[f] \in Seq(Listed)
  <2>1. p.imports[f] \in Seq(ToSet(p.imports[f]))
    BY LifecycleAssumption
  <2>2. ToSet(p.imports[f]) \subseteq Listed
    BY DEF Listed
  <2>3. p.imports[f] \in [1 .. Len(p.imports[f]) -> ToSet(p.imports[f])] /\ Len(p.imports[f]) \in Nat
    BY <2>1, LenProperties
  <2>4. p.imports[f] \in [1 .. Len(p.imports[f]) -> Listed]
    BY <2>2, <2>3
  <2> QED BY <2>3, <2>4, SeqDef
<1>3. Extends(q, s, ToSet(p.imports[f]))
  BY <1>2, ImportsAppended
<1>4. /\ e \in Entry /\ e.name = ModuleName(p, f) /\ e.loaded
      /\ r = IF Queued(s, e.name) THEN s ELSE Append(s, e)
  BY <1>1 DEF QueueAfter, AppendName, Entry
<1> HIDE DEF s, r, e
<1>5. s \in Seq(Entry) /\ Distinct(s)
  BY <1>3 DEF Extends
<1>6. Longer(s, e, r)
  <2>1. Longer(s, e, IF Queued(s, e.name) THEN s ELSE Append(s, e))
    BY <1>4, <1>5, AppendedName
  <2> QED BY <1>4, <2>1
<1>7. Len(q) \in Nat
  BY LenProperties
<1>8. /\ Len(q) <= Len(r)
      /\ \A k \in 1 .. Len(q) : k \in 1 .. Len(r) /\ r[k] = q[k]
  BY <1>3, <1>6, <1>7 DEF Extends, Longer
<1>9. ASSUME NEW k \in 1 .. Len(r), k > Len(q)
      PROVE  \/ ~ r[k].loaded /\ r[k].name \in ToSet(p.imports[f])
             \/ r[k].loaded /\ r[k].name = ModuleName(p, f)
  <2>1. CASE k > Len(s)
    BY <1>4, <1>6, <2>1 DEF Longer
  <2>2. CASE ~ (k > Len(s))
    <3>1. k \in 1 .. Len(s)
      BY <1>6, <2>2 DEF Longer
    <3>2. r[k] = s[k]
      BY <1>6, <3>1 DEF Longer
    <3>3. ~ s[k].loaded /\ s[k].name \in ToSet(p.imports[f])
      BY <1>3, <1>9, <3>1 DEF Extends
    <3> QED BY <3>2, <3>3
  <2> QED BY <2>1, <2>2
<1>10. ASSUME NEW n \in ToSet(p.imports[f]) PROVE \E k \in 1 .. Len(r) : r[k].name = n
  <2>1. PICK k \in 1 .. Len(s) : s[k].name = n
    BY <1>3 DEF Extends
  <2> QED BY <1>6, <2>1 DEF Longer
<1>11. r \in Seq(Entry) /\ Distinct(r) /\ Len(r) \in Nat /\ \E k \in 1 .. Len(r) : r[k].name = ModuleName(p, f)
  BY <1>4, <1>6 DEF Longer
<1>12. After(p, f, q, r)
  BY <1>7, <1>8, <1>9, <1>10, <1>11 DEF After
<1> QED BY <1>12 DEF r

(* The first file.                                                         *)
LEMMA GatheredMain ==
    ASSUME NEW p \in Programs, WellNamed(p), Loadable(p, p.main),
           NEW r, r = QueueAfter(p, <<>>, p.main),
           NEW ms, ms = Append(<<BlankModule>>, NewModule(p, p.main, 1))
    PROVE  Gathered(p, r, ms)
<1> DEFINE f == p.main
           N == NewModule(p, f, 1)
<1>1. f \in p.files /\ f \in DOMAIN p.declares /\ p.declares[f] = f /\ f \notin ToSet(p.imports[f])
      /\ NoName \notin ToSet(p.imports[f])
  BY DEF WellNamed, Loadable
<1>2. ModuleName(p, f) = f
  BY <1>1 DEF ModuleName
<1>3. <<>> \in Seq(Entry) /\ Len(<<>>) = 0 /\ Distinct(<<>>)
  BY EmptySeq DEF Distinct
<1>4. /\ r \in Seq(Entry) /\ Distinct(r) /\ Len(r) \in Nat
      /\ \A k \in 1 .. Len(r) :
            \/ ~ r[k].loaded /\ r[k].name \in ToSet(p.imports[f])
            \/ r[k].loaded /\ r[k].name = f
      /\ \A n \in ToSet(p.imports[f]) : \E k \in 1 .. Len(r) : r[k].name = n
      /\ \E k \in 1 .. Len(r) : r[k].name = f
  <2> DEFINE e == <<>>
  <2>1. e \in Seq(Entry) /\ Len(e) = 0 /\ Distinct(e) /\ r = QueueAfter(p, e, f)
    BY <1>3
  <2> HIDE DEF e
  <2>2. f \in p.files
    BY <1>1
  <2> HIDE DEF f
  <2>3. After(p, f, e, r)
    BY <2>1, <2>2, QueuedAfter
  <2> QED BY <1>2, <2>1, <2>3 DEF After
<1>6. Len(ms) = 2 /\ ms[2] = N /\ N.file = f
  BY DEF NewModule
<1>7. 2 .. Len(ms) = {2} /\ 3 .. Len(ms) = {}
  BY <1>6
<1> HIDE DEF N
<1>8. \A k \in 1 .. Len(r) : r[k].loaded <=> r[k].name = NoName \/ \E i \in 2 .. Len(ms) : r[k].name = ms[i].file
  BY <1>1, <1>4, <1>6, <1>7
<1> QED BY <1>1, <1>4, <1>6, <1>7, <1>8 DEF Gathered

(* The next file: it was imported by a module, and is none yet.            *)
LEMMA GatheredNext ==
    ASSUME NEW p \in Programs, WellNamed(p), NEW q, NEW ms \in Seq(Module), Gathered(p, q, ms),
           NEW i \in Unloaded(q), NEW f, f = q[i].name, Loadable(p, f),
           NEW q0, q0 = [q EXCEPT ![i].loaded = TRUE],
           NEW r, r = QueueAfter(p, q0, f),
           NEW m, m.file = f, NEW ns, ns = Append(ms, m), m \in Module
    PROVE  Gathered(p, r, ns)
<1>1. /\ q \in Seq(Entry) /\ Distinct(q) /\ Len(q) \in Nat /\ DOMAIN q = 1 .. Len(q)
      /\ i \in 1 .. Len(q) /\ ~ q[i].loaded /\ f \in p.files
      /\ \A k \in 1 .. Len(q) : q[k] \in Entry
  BY LenProperties DEF Gathered, Unloaded, Loadable
<1>2. NoName \notin ToSet(p.imports[f])
  BY <1>1 DEF WellNamed
<1>3. f # NoName /\ (\A j \in 2 .. Len(ms) : ms[j].file # f)
      /\ \E j \in 2 .. Len(ms) : f \in ToSet(p.imports[ms[j].file])
  BY <1>1 DEF Gathered
<1>4. /\ q0 \in Seq(Entry) /\ Len(q0) = Len(q) /\ Distinct(q0)
      /\ \A k \in 1 .. Len(q) : q0[k].name = q[k].name /\ (k # i => q0[k] = q[k])
      /\ q0[i].loaded
  <2>1. [q[i] EXCEPT !.loaded = TRUE] \in Entry
    BY <1>1 DEF Entry
  <2>2. q0 = [q EXCEPT ![i] = [q[i] EXCEPT !.loaded = TRUE]]
    BY <1>1
  <2>3. q0 \in Seq(Entry) /\ Len(q0) = Len(q)
    BY <1>1, <2>1, <2>2, ExceptSeq
  <2>4. \A k \in 1 .. Len(q) : q0[k].name = q[k].name /\ (k # i => q0[k] = q[k])
    BY <1>1 DEF Entry
  <2>5. q0[i].loaded
    BY <1>1 DEF Entry
  <2>6. Distinct(q0)
    BY <1>1, <2>3, <2>4 DEF Distinct
  <2> QED BY <2>3, <2>4, <2>5, <2>6
<1>5. /\ r \in Seq(Entry) /\ Distinct(r) /\ Len(r) \in Nat /\ Len(q) <= Len(r)
      /\ \A k \in 1 .. Len(q) : k \in 1 .. Len(r) /\ r[k] = q0[k]
      /\ \A k \in 1 .. Len(r) : k > Len(q) =>
            \/ ~ r[k].loaded /\ r[k].name \in ToSet(p.imports[f])
            \/ r[k].loaded /\ r[k].name = ModuleName(p, f)
      /\ \A n \in ToSet(p.imports[f]) : \E k \in 1 .. Len(r) : r[k].name = n
      /\ \E k \in 1 .. Len(r) : r[k].name = ModuleName(p, f)
  <2>1. After(p, f, q0, r)
    BY <1>1, <1>4, QueuedAfter
  <2> QED BY <1>4, <2>1 DEF After
<1>19. ASSUME NEW k \in 1 .. Len(q)
      PROVE  /\ k \in 1 .. Len(r) /\ r[k].name = q[k].name
             /\ r[k].loaded <=> k = i \/ q[k].loaded
  <2>1. k \in 1 .. Len(r) /\ r[k] = q0[k] /\ r[k].name = q[k].name
    BY ONLY <1>4, <1>5, k \in 1 .. Len(q)
  <2>2. CASE k = i
    <3>1. r[k].loaded
      BY ONLY <1>4, <2>1, <2>2
    <3> QED BY ONLY <2>1, <2>2, <3>1
  <2>3. CASE k # i
    <3>1. r[k] = q[k]
      BY ONLY <1>4, <2>1, <2>3, k \in 1 .. Len(q)
    <3> QED BY ONLY <2>1, <2>3, <3>1
  <2> QED BY ONLY <2>2, <2>3
<1>6. ModuleName(p, f) \in {f, NoName}
  BY DEF ModuleName, WellNamed
<1>7. /\ Len(ms) \in Nat /\ Len(ns) \in Nat /\ Len(ns) = Len(ms) + 1 /\ ns[Len(ns)] = m
      /\ \A j \in 1 .. Len(ms) : ns[j] = ms[j]
      /\ Len(ms) >= 2
  <2>1. /\ Len(ms) \in Nat /\ Len(ns) = Len(ms) + 1 /\ ns[Len(ms) + 1] = m
        /\ \A j \in 1 .. Len(ms) : ns[j] = ms[j]
    BY AppendProperties, LenProperties
  <2> QED BY <2>1 DEF Gathered
<1>8. /\ \A j \in 2 .. Len(ns) : j = Len(ns) \/ j \in 2 .. Len(ms)
      /\ Len(ns) \in 2 .. Len(ns) /\ \A j \in 2 .. Len(ms) : j \in 2 .. Len(ns)
      /\ \A j \in 2 .. Len(ms) : ns[j].file = ms[j].file
      /\ ns[Len(ns)].file = f /\ 2 \in 2 .. Len(ms)
  BY <1>7
<1>9. \A k \in 1 .. Len(r) : k \in 1 .. Len(q) \/ k > Len(q)
  BY <1>1, <1>5
<1>10. \A n : (\E j \in 2 .. Len(ns) : n = ns[j].file) <=> n = f \/ \E j \in 2 .. Len(ms) : n = ms[j].file
  BY <1>8
<1>11. ns[2].file = p.main /\ Len(ns) >= 2
  BY <1>7, <1>8 DEF Gathered
<1>12. \A j \in 2 .. Len(ns) : ns[j].file \in p.files
  BY <1>1, <1>8 DEF Gathered
<1>13. \A j, k \in 2 .. Len(ns) : ns[j].file = ns[k].file => j = k
  <2>1. \A j, k \in 2 .. Len(ms) : ms[j].file = ms[k].file => j = k
    BY DEF Gathered
  <2> QED BY <1>3, <1>8, <2>1
<1>14. \A j \in 2 .. Len(ns) : \E k \in 1 .. Len(r) : r[k].name = ns[j].file
  <2> SUFFICES ASSUME NEW j \in 2 .. Len(ns) PROVE \E k \in 1 .. Len(r) : r[k].name = ns[j].file
    OBVIOUS
  <2>1. CASE j = Len(ns)
    BY <1>1, <1>8, <1>19, <2>1
  <2>2. CASE j # Len(ns)
    <3>1. j \in 2 .. Len(ms)
      BY <1>8, <2>2
    <3>2. PICK k \in 1 .. Len(q) : q[k].name = ms[j].file
      BY <3>1 DEF Gathered
    <3> QED BY <1>8, <1>19, <3>1, <3>2
  <2> QED BY <2>1, <2>2
<1>15. ASSUME NEW k \in 1 .. Len(r)
       PROVE  r[k].loaded <=> r[k].name = NoName \/ \E j \in 2 .. Len(ns) : r[k].name = ns[j].file
  <2>1. CASE k \in 1 .. Len(q)
    <3>1. r[k].name = q[k].name /\ (r[k].loaded <=> k = i \/ q[k].loaded)
      BY <1>19, <2>1
    <3>2. k = i <=> q[k].name = f
      BY <1>1, <2>1 DEF Distinct
    <3>3. q[k].loaded <=> q[k].name = NoName \/ \E j \in 2 .. Len(ms) : q[k].name = ms[j].file
      BY <2>1 DEF Gathered
    <3>4. (\E j \in 2 .. Len(ns) : q[k].name = ns[j].file)
              <=> q[k].name = f \/ \E j \in 2 .. Len(ms) : q[k].name = ms[j].file
      BY <1>10
    <3> QED BY ONLY <3>1, <3>2, <3>3, <3>4
  <2>2. CASE k > Len(q)
    <3>1. CASE ~ r[k].loaded /\ r[k].name \in ToSet(p.imports[f])
      <4>1. r[k].name # NoName
        BY <1>2, <3>1
      <4>2. ASSUME NEW j \in 2 .. Len(ns), r[k].name = ns[j].file PROVE FALSE
        <5>1. PICK l \in 1 .. Len(q) : q[l].name = ns[j].file
          <6>1. CASE j = Len(ns)
            BY <1>1, <1>8, <6>1
          <6>2. CASE j # Len(ns)
            BY <1>8, <6>2 DEF Gathered
          <6> QED BY <6>1, <6>2
        <5>2. l \in 1 .. Len(r) /\ r[l].name = r[k].name
          BY <1>19, <4>2, <5>1
        <5>3. l = k
          BY <1>5, <5>2 DEF Distinct
        <5> QED BY <1>1, <2>2, <5>1, <5>3
      <4> QED BY <3>1, <4>1, <4>2
    <3>2. CASE r[k].loaded /\ r[k].name = ModuleName(p, f)
      <4>1. r[k].loaded /\ r[k].name \in {f, NoName}
        BY <1>6, <3>2
      <4> QED BY <1>10, <4>1
    <3> QED BY <1>5, <2>2, <3>1, <3>2
  <2> QED BY <1>9, <2>1, <2>2
<1>16. ASSUME NEW j \in 2 .. Len(ns), NEW n \in ToSet(p.imports[ns[j].file])
       PROVE  \E k \in 1 .. Len(r) : r[k].name = n
  <2>1. CASE j = Len(ns)
    BY <1>5, <1>8, <1>16, <2>1
  <2>2. CASE j # Len(ns)
    <3>1. j \in 2 .. Len(ms) /\ n \in ToSet(p.imports[ms[j].file])
      BY <1>8, <1>16, <2>2
    <3>2. PICK k \in 1 .. Len(q) : q[k].name = n
      BY <3>1 DEF Gathered
    <3> QED BY <1>19, <3>2
  <2> QED BY <2>1, <2>2
<1>17. ASSUME NEW k \in 1 .. Len(r)
       PROVE  r[k].loaded \/ \E j \in 2 .. Len(ns) : r[k].name \in ToSet(p.imports[ns[j].file])
  <2>1. CASE k \in 1 .. Len(q)
    <3>1. r[k].name = q[k].name /\ (r[k].loaded <=> k = i \/ q[k].loaded)
      BY <1>19, <2>1
    <3>2. q[k].loaded \/ \E j \in 2 .. Len(ms) : q[k].name \in ToSet(p.imports[ms[j].file])
      BY <2>1 DEF Gathered
    <3>3. \A j \in 2 .. Len(ms) : j \in 2 .. Len(ns) /\ ns[j].file = ms[j].file
      BY <1>8
    <3> QED BY <3>1, <3>2, <3>3
  <2>2. CASE k > Len(q)
    <3>1. r[k].loaded \/ r[k].name \in ToSet(p.imports[f])
      BY <1>5, <2>2
    <3> QED BY <1>8, <3>1
  <2> QED BY <1>9, <2>1, <2>2
<1>18. ASSUME NEW k \in 3 .. Len(ns)
       PROVE  \E j \in 2 .. (k - 1) : ns[k].file \in ToSet(p.imports[ns[j].file])
  <2>1. CASE k = Len(ns)
    <3>1. PICK j \in 2 .. Len(ms) : f \in ToSet(p.imports[ms[j].file])
      BY <1>3
    <3>2. j \in 2 .. (k - 1) /\ ns[j].file = ms[j].file /\ ns[k].file = f
      BY <1>7, <1>8, <2>1
    <3> QED BY <3>1, <3>2
  <2>2. CASE k # Len(ns)
    <3>1. k \in 3 .. Len(ms) /\ k \in 2 .. Len(ms)
      BY <1>7, <2>2
    <3>2. PICK j \in 2 .. (k - 1) : ms[k].file \in ToSet(p.imports[ms[j].file])
      BY <3>1 DEF Gathered
    <3>3. j \in 2 .. Len(ms)
      BY <1>7, <3>1
    <3> QED BY <1>8, <3>1, <3>2, <3>3
  <2> QED BY <2>1, <2>2
<1> QED BY <1>5, <1>11, <1>12, <1>13, <1>14, <1>15, <1>16, <1>17, <1>18 DEF Gathered

LEMMA LoadsFile ==
    ASSUME Control, Loads, NEW f, NEW q, LoadFile(f, q),
           \/ stage = "create" /\ todo = <<>> /\ f = program.main /\ q = queue
           \/ /\ stage = "load"
              /\ \E i \in Unloaded(queue) :
                    f = queue[i].name /\ q = [queue EXCEPT ![i].loaded = TRUE]
    PROVE  Loads'
<1>1. program' = program /\ program \in Programs
  BY DEF LoadFile, Control
<1>2. CASE ~ Loadable(program, f)
  BY <1>2 DEF LoadFile, Fail, Loads
<1>3. CASE Loadable(program, f)
  <2> DEFINE m == NewModule(program, f, Len(modules))
  <2>1. /\ queue' = QueueAfter(program, q, f) /\ stage' = "load"
        /\ modules' = Append(modules, m) /\ m.file = f
    BY <1>3 DEF LoadFile, NewModule
  <2>2. m \in Module /\ modules \in Seq(Module)
    <3>1. modules \in Seq(Module) /\ Len(modules) \in Nat
      BY LenProperties DEF Control
    <3>2. f \in program.files /\ program.exports[f] \subseteq Functions /\ f \in Files
      BY <1>1, <1>3, LifecycleAssumption DEF Loadable, Files
    <3>3. ModuleName(program, f) \in Names
      BY <1>1 DEF ModuleName, Names
    <3> QED BY <3>1, <3>2, <3>3 DEF NewModule, Module
  <2>3. ASSUME WellNamed(program) PROVE Gathered(program, queue', modules')
    <3>1. CASE stage = "create" /\ todo = <<>> /\ f = program.main /\ q = queue
      <4>1. queue = <<>> /\ modules = <<BlankModule>> /\ Len(modules) = 1
        BY <3>1, NothingLeft, Blanks DEF Loads, Control
      <4>2. /\ modules' = Append(<<BlankModule>>, NewModule(program, program.main, 1))
            /\ queue' = QueueAfter(program, <<>>, program.main)
        BY <2>1, <3>1, <4>1
      <4>3. Loadable(program, program.main)
        BY <1>3, <3>1
      <4> QED BY ONLY <1>1, <2>3, <4>2, <4>3, GatheredMain
    <3>2. CASE /\ stage = "load"
               /\ \E i \in Unloaded(queue) :
                     f = queue[i].name /\ q = [queue EXCEPT ![i].loaded = TRUE]
      <4>1. PICK i \in Unloaded(queue) : f = queue[i].name /\ q = [queue EXCEPT ![i].loaded = TRUE]
        BY <3>2
      <4>2. Gathered(program, queue, modules)
        BY <2>3, <3>2 DEF Loads
      <4> HIDE DEF m
      <4> QED BY ONLY <1>1, <1>3, <2>1, <2>2, <2>3, <4>1, <4>2, GatheredNext
    <3> QED BY <3>1, <3>2
  <2>4. WellNamed(program') => Gathered(program', queue', modules')
    BY <1>1, <2>3
  <2> QED BY <2>1, <2>4 DEF Loads
<1> QED BY <1>2, <1>3

LEMMA LoadsStep == Control /\ Loads /\ [Next]_vars => Loads'
<1> SUFFICES ASSUME Control, Loads, [Next]_vars PROVE Loads'
  OBVIOUS
<1>1. CASE Make
  BY <1>1 DEF Make, MakePart, LeaveTypesOut, MakeNothing, Loads
<1>2. CASE LoadMain
  BY <1>2, LoadsFile DEF LoadMain
<1>3. CASE LoadNext
  <2>1. stage = "load" /\ Unloaded(queue) # {}
    BY <1>3 DEF LoadNext
  <2> DEFINE i == Min(Unloaded(queue))
  <2>2. LoadFile(queue[i].name, [queue EXCEPT ![i].loaded = TRUE])
    BY <1>3 DEF LoadNext
  <2>3. CASE WellNamed(program)
    <3>1. queue \in Seq(Entry)
      BY <2>1, <2>3 DEF Loads, Gathered
    <3>2. Unloaded(queue) \in SUBSET Nat
      <4>1. DOMAIN queue = 1 .. Len(queue) /\ Len(queue) \in Nat
        BY <3>1, LenProperties
      <4> QED BY <4>1 DEF Unloaded
    <3>3. i \in Unloaded(queue)
      BY <2>1, <3>2, Least
    <3> HIDE DEF i
    <3> QED BY <2>1, <2>2, <3>3, LoadsFile
  <2>4. CASE ~ WellNamed(program)
    <3>1. program' = program /\ stage' \in {"load", "collect"}
      BY <2>2 DEF LoadFile, Fail
    <3>2. ~ WellNamed(program')
      BY <2>4, <3>1
    <3> QED BY <3>1, <3>2 DEF Loads
  <2> QED BY <2>3, <2>4
<1>4. CASE AllLoaded
  <2>1. /\ stage = "load" /\ Unloaded(queue) = {} /\ stage' = "init"
        /\ program' = program /\ queue' = queue /\ modules' = modules
    BY <1>4 DEF AllLoaded, loading
  <2>2. WellNamed(program) => Gathered(program, queue, modules)
    BY <2>1 DEF Loads
  <2>3. WellNamed(program') => Gathered(program', queue', modules')
    BY ONLY <2>1, <2>2
  <2>4. Unloaded(queue') = {}
    BY <2>1
  <2> QED BY <2>1, <2>3, <2>4 DEF Loads
<1>5. CASE Pass \/ Destruct \/ EndOfThreads \/ Body
  <2>1. /\ stage \in {"init", "autorun", "main"} /\ stage' \in {"init", "autorun", "main", "collect"}
        /\ program' = program /\ queue' = queue /\ modules' = modules
    <3>1. CASE Pass
      BY <3>1 DEF Pass, RunFunction, PassOver, EndOfPass, RunMain, EndOfMain, InPass, Fail, loading
    <3>2. CASE ~ Pass
      <4>1. InFunction
        BY <1>5, <3>2, BodyStep
      <4> QED BY <4>1 DEF InFunction, Control
    <3> QED BY <3>1, <3>2
  <2>2. (WellNamed(program) => Gathered(program, queue, modules)) /\ Unloaded(queue) = {}
    BY <2>1 DEF Loads
  <2>3. (WellNamed(program') => Gathered(program', queue', modules')) /\ Unloaded(queue') = {}
    BY ONLY <2>1, <2>2
  <2> QED BY <2>1, <2>3 DEF Loads
<1>6. CASE End
  BY <1>6 DEF End, FinalCollect, DestroyPart, Finish, Loads
<1>7. CASE UNCHANGED vars
  <2>1. UNCHANGED <<stage, program, queue, modules>>
    BY <1>7 DEF vars, loading
  <2>2. /\ stage = "create" => queue = <<>>
        /\ stage \in {"load", "init", "autorun", "main"} /\ WellNamed(program)
           => Gathered(program, queue, modules)
        /\ stage \in {"init", "autorun", "main"} => Unloaded(queue) = {}
    BY DEF Loads
  <2>3. /\ stage' = "create" => queue' = <<>>
        /\ stage' \in {"load", "init", "autorun", "main"} /\ WellNamed(program')
           => Gathered(program', queue', modules')
        /\ stage' \in {"init", "autorun", "main"} => Unloaded(queue') = {}
    BY ONLY <2>1, <2>2
  <2> QED BY <2>3 DEF Loads
<1> QED BY <1>1, <1>2, <1>3, <1>4, <1>5, <1>6, <1>7 DEF Next, Load

(* What n rounds of imports reach: a recursion over a finite domain.       *)
Round(p, near) == near \union UNION {ToSet(p.imports[f]) : f \in near \intersect p.files}

LEMMA ImportedIs ==
    ASSUME NEW p, IsFiniteSet(p.files)
    PROVE  \E F : /\ F[0] = {p.main}
                  /\ \A n \in 1 .. (Cardinality(p.files) + 1) : F[n] = Round(p, F[n - 1])
                  /\ Imported(p) = F[Cardinality(p.files) + 1]
<1> DEFINE N == Cardinality(p.files) + 1
           Nth(f, n) == IF n = 0 THEN {p.main} ELSE Round(p, f[n - 1])
           F == CHOOSE f : f = [n \in 0 .. N |-> Nth(f, n)]
           Good(n) == \E g : g = [k \in 0 .. n |-> Nth(g, k)]
<1>1. N \in Nat /\ N # 0
  BY FS_CardinalityType
<1>2. Good(0)
  <2> DEFINE g == [k \in 0 .. 0 |-> {p.main}]
  <2>1. g = [k \in 0 .. 0 |-> Nth(g, k)]
    OBVIOUS
  <2> HIDE DEF g, Nth
  <2> QED BY <2>1
<1>3. ASSUME NEW n \in Nat, Good(n) PROVE Good(n + 1)
  <2>1. PICK g : g = [k \in 0 .. n |-> Nth(g, k)]
    BY <1>3
  <2> DEFINE h == [k \in 0 .. (n + 1) |-> IF k = n + 1 THEN Round(p, g[n]) ELSE g[k]]
  <2>3. \A k \in 0 .. n : g[k] = Nth(g, k)
    <3> HIDE DEF Nth
    <3> QED BY <2>1
  <2>4. ASSUME NEW k \in 0 .. (n + 1) PROVE h[k] = Nth(h, k)
    <3>1. CASE k = 0
      <4>1. 0 \in 0 .. n /\ h[0] = g[0]
        OBVIOUS
      <4> QED BY <2>3, <3>1, <4>1
    <3>2. CASE k # 0 /\ k # n + 1
      <4>1. k \in 0 .. n /\ k - 1 \in 0 .. (n + 1) /\ k - 1 # n + 1
        BY <3>2
      <4>2. h[k] = g[k] /\ h[k - 1] = g[k - 1]
        BY <3>2, <4>1
      <4> QED BY <2>3, <3>2, <4>1, <4>2
    <3>3. CASE k = n + 1
      <4>1. k # 0 /\ k - 1 = n /\ n \in 0 .. (n + 1) /\ n # n + 1
        BY <3>3
      <4>2. h[n] = g[n] /\ h[k] = Round(p, g[n])
        BY <3>3, <4>1
      <4> QED BY <3>3, <4>1, <4>2
    <3> QED BY <3>1, <3>2, <3>3
  <2>5. h = [k \in 0 .. (n + 1) |-> Nth(h, k)]
    <3>1. h = [k \in 0 .. (n + 1) |-> h[k]]
      OBVIOUS
    <3> HIDE DEF h, Nth
    <3> QED BY <2>4, <3>1
  <2> HIDE DEF h, Nth
  <2> QED BY <2>5
<1> HIDE DEF Good
<1>4. Good(N)
  <2> SUFFICES ASSUME ~ Good(N) PROVE FALSE
    OBVIOUS
  <2> DEFINE bad == {n \in 0 .. N : ~ Good(n)}
  <2> HIDE DEF N
  <2>1. N \in bad /\ bad \in SUBSET Nat
    BY <1>1
  <2>2. PICK m \in bad : \A k \in bad : m <= k
    BY <2>1, Least
  <2>3. m # 0 /\ m \in 0 .. N
    BY <1>2, <2>2
  <2>4. m - 1 \in 0 .. N /\ m - 1 \in Nat /\ (m - 1) + 1 = m /\ ~ (m <= m - 1)
    BY <1>1, <2>3
  <2>5. Good(m - 1)
    BY <2>2, <2>4
  <2>6. Good((m - 1) + 1)
    BY <1>3, <2>4, <2>5
  <2> QED BY <2>2, <2>4, <2>6
<1>5. F = [n \in 0 .. N |-> Nth(F, n)]
  <2> HIDE DEF N, Nth
  <2> QED BY <1>4 DEF Good
<1>6. Imported(p) = F[N]
  BY DEF Imported, Round
<1> HIDE DEF F, N
<1>7. \A n \in 0 .. N : F[n] = Nth(F, n)
  <2> HIDE DEF Nth
  <2> QED BY <1>5
<1>8. F[0] = {p.main} /\ \A n \in 1 .. N : F[n] = Round(p, F[n - 1])
  BY <1>1, <1>7
<1>9. F[0] = {p.main} /\ (\A n \in 1 .. N : F[n] = Round(p, F[n - 1])) /\ Imported(p) = F[N]
  BY <1>6, <1>8
<1> QED BY <1>9 DEF N

(* When all of the queue is loaded, the modules are what the imports lead  *)
(* to: no more, as each is imported by an earlier one, and no less, as     *)
(* their imports are modules.                                              *)
LEMMA GatheredAll ==
    ASSUME NEW p \in Programs, WellNamed(p), NEW q, NEW ms \in Seq(Module), Gathered(p, q, ms),
           Unloaded(q) = {}
    PROVE  /\ {ms[i].file : i \in 2 .. Len(ms)} = Imported(p)
           /\ Len(ms) = Cardinality(Imported(p)) + 1
<1> DEFINE all == {ms[i].file : i \in 2 .. Len(ms)}
           C == Cardinality(p.files)
           L == Len(ms)
<1>1. /\ L \in Nat /\ L >= 2 /\ 2 \in 2 .. L /\ ms[2].file = p.main
      /\ \A i \in 2 .. L : ms[i].file \in p.files
      /\ \A i, j \in 2 .. L : ms[i].file = ms[j].file => i = j
  BY LenProperties DEF Gathered
<1>2. IsFiniteSet(p.files)
  BY LifecycleAssumption
<1>3. PICK F : /\ F[0] = {p.main}
               /\ \A n \in 1 .. (Cardinality(p.files) + 1) : F[n] = Round(p, F[n - 1])
               /\ Imported(p) = F[Cardinality(p.files) + 1]
  BY <1>2, ImportedIs
<1>4. all \in SUBSET p.files
  BY <1>1
<1>5. ASSUME NEW a \in all, NEW b \in ToSet(p.imports[a]) PROVE b \in all
  <2>1. PICK i \in 2 .. L : a = ms[i].file
    OBVIOUS
  <2>2. PICK k \in 1 .. Len(q) : q[k].name = b
    BY <1>5, <2>1 DEF Gathered
  <2>3. b # NoName
    BY <1>1, <1>5, <2>1 DEF WellNamed
  <2>4. q[k].loaded
    <3>1. DOMAIN q = 1 .. Len(q)
      <4>1. q \in Seq(Entry)
        BY DEF Gathered
      <4> QED BY <4>1, LenProperties
    <3> QED BY <2>2, <3>1 DEF Unloaded
  <2>5. q[k].name = NoName \/ \E j \in 2 .. Len(ms) : q[k].name = ms[j].file
    BY <2>2, <2>4 DEF Gathered
  <2> QED BY <2>2, <2>3, <2>5
<1>6. ExistsBijection(1 .. (L - 1), all)
  <2> DEFINE g == [i \in 1 .. (L - 1) |-> ms[i + 1].file]
  <2>1. \A i \in 1 .. (L - 1) : i + 1 \in 2 .. L
    BY <1>1
  <2>2. g \in [1 .. (L - 1) -> all]
    BY <2>1
  <2>3. \A i, j \in 1 .. (L - 1) : g[i] = g[j] => i = j
    <3> SUFFICES ASSUME NEW i \in 1 .. (L - 1), NEW j \in 1 .. (L - 1), g[i] = g[j] PROVE i = j
      OBVIOUS
    <3>1. i + 1 = j + 1
      BY <1>1, <2>1
    <3> QED BY <1>1, <3>1
  <2>4. \A a \in all : \E i \in 1 .. (L - 1) : g[i] = a
    <3> SUFFICES ASSUME NEW k \in 2 .. L PROVE \E i \in 1 .. (L - 1) : g[i] = ms[k].file
      OBVIOUS
    <3>1. k - 1 \in 1 .. (L - 1) /\ (k - 1) + 1 = k
      BY <1>1
    <3> QED BY <3>1
  <2> HIDE DEF g, all
  <2>7. g \in Bijection(1 .. (L - 1), all)
    BY <2>2, <2>3, <2>4 DEF Bijection, Injection, Surjection, IsInjective
  <2> QED BY <2>7 DEF ExistsBijection
<1>7. Cardinality(all) = L - 1 /\ C \in Nat /\ L - 1 <= C
  <2>1. L - 1 \in Nat
    BY <1>1
  <2> HIDE DEF all, L
  <2>2. Cardinality(all) = L - 1
    BY <1>6, <2>1, FS_CountingElements
  <2>3. Cardinality(all) <= Cardinality(p.files) /\ C \in Nat
    BY <1>2, <1>4, FS_Subset, FS_CardinalityType
  <2> QED BY <2>2, <2>3
<1> DEFINE N == C + 1
<1>8. N \in Nat
  BY <1>7
<1>9. \A n \in 1 .. N : F[n] = Round(p, F[n - 1])
  BY <1>3
<1> HIDE DEF N, C, L
<1>10. ASSUME NEW n \in 0 .. N PROVE F[n] \subseteq all
  <2> DEFINE bad == {k \in 0 .. N : ~ (F[k] \subseteq all)}
  <2> SUFFICES ASSUME n \in bad PROVE FALSE
    OBVIOUS
  <2>1. PICK m \in bad : \A k \in bad : m <= k
    <3>1. bad \in SUBSET Nat /\ bad # {}
      BY <1>8
    <3> HIDE DEF bad
    <3> QED BY <3>1, Least
  <2>2. CASE m = 0
    <3>1. p.main \in all
      BY <1>1 DEF L
    <3> QED BY <1>3, <2>1, <2>2, <3>1
  <2>3. CASE m # 0
    <3>1. m \in 1 .. N /\ m - 1 \in 0 .. N /\ ~ (m <= m - 1)
      BY <1>8, <2>1, <2>3
    <3>2. F[m - 1] \subseteq all
      BY <2>1, <3>1
    <3>3. F[m] = Round(p, F[m - 1])
      BY <1>9, <3>1
    <3> HIDE DEF all
    <3>4. Round(p, F[m - 1]) \subseteq all
      BY <1>5, <3>2 DEF Round
    <3> QED BY <2>1, <3>3, <3>4
  <2> QED BY <2>2, <2>3
<1>11. ASSUME NEW n \in 0 .. N PROVE p.main \in F[n]
  <2> DEFINE bad == {k \in 0 .. N : p.main \notin F[k]}
  <2> SUFFICES ASSUME n \in bad PROVE FALSE
    OBVIOUS
  <2>1. PICK m \in bad : \A k \in bad : m <= k
    <3>1. bad \in SUBSET Nat /\ bad # {}
      BY <1>8
    <3> HIDE DEF bad
    <3> QED BY <3>1, Least
  <2>2. CASE m = 0
    BY <1>3, <2>1, <2>2
  <2>3. CASE m # 0
    <3>1. m \in 1 .. N /\ m - 1 \in 0 .. N /\ ~ (m <= m - 1)
      BY <1>8, <2>1, <2>3
    <3>2. p.main \in F[m - 1]
      BY <2>1, <3>1
    <3> QED BY <1>9, <2>1, <3>1, <3>2 DEF Round
  <2> QED BY <2>2, <2>3
<1>12. ASSUME NEW i \in 2 .. L
       PROVE  \A n \in 0 .. N : n >= i - 2 => ms[i].file \in F[n]
  <2> DEFINE Reached(k) == \A n \in 0 .. N : n >= k - 2 => ms[k].file \in F[n]
             bad == {k \in 2 .. L : ~ Reached(k)}
  <2> SUFFICES ASSUME i \in bad PROVE FALSE
    OBVIOUS
  <2>1. PICK m \in bad : \A k \in bad : m <= k
    <3>1. bad \in SUBSET Nat /\ bad # {}
      BY <1>1
    <3> HIDE DEF bad
    <3> QED BY <3>1, Least
  <2>2. CASE m = 2
    BY <1>1, <1>11, <2>1, <2>2
  <2>3. CASE m # 2
    <3>1. m \in 3 .. L /\ m \in Nat
      BY <1>1, <2>1, <2>3
    <3>2. PICK j \in 2 .. (m - 1) : ms[m].file \in ToSet(p.imports[ms[j].file])
      BY <3>1 DEF Gathered, L
    <3>3. j \in 2 .. L /\ ~ (m <= j) /\ j \in Nat /\ j <= m - 1
      BY <1>1, <3>1
    <3>4. Reached(j)
      BY <2>1, <3>3
    <3>5. ASSUME NEW n \in 0 .. N, n >= m - 2 PROVE ms[m].file \in F[n]
      <4>1. n \in 1 .. N /\ n - 1 \in 0 .. N /\ n - 1 >= j - 2
        BY <1>8, <3>1, <3>3, <3>5
      <4>2. ms[j].file \in F[n - 1] /\ ms[j].file \in p.files
        BY <1>1, <3>3, <3>4, <4>1
      <4> QED BY <1>9, <3>2, <4>1, <4>2 DEF Round
    <3> QED BY <2>1, <3>5
  <2> QED BY <2>2, <2>3
<1>13. all \subseteq F[N]
  <2> SUFFICES ASSUME NEW i \in 2 .. L PROVE ms[i].file \in F[N]
    BY DEF L
  <2>1. N \in 0 .. N /\ N >= i - 2
    BY <1>1, <1>7, <1>8 DEF N
  <2> QED BY <1>12, <2>1
<1>14. all = F[N]
  <2>1. N \in 0 .. N
    BY <1>8
  <2> QED BY <1>10, <1>13, <2>1
<1>15. Imported(p) = all
  BY <1>3, <1>14 DEF N, C
<1>16. Len(ms) = Cardinality(Imported(p)) + 1
  <2> HIDE DEF all
  <2> QED BY <1>1, <1>7, <1>15 DEF L
<1> QED BY <1>15, <1>16
-----------------------------------------------------------------------------
THEOREM LifeInvariant == Spec => [](LifeInv /\ DestructorsHaveRun)
<1>1. Init => LifeInv /\ DestructorsHaveRun
  <2>1. Init => DestructorsHaveRun
    BY DEF Init, DestructorsHaveRun
  <2> QED BY <2>1, ControlInit, RanInit, HeldInit, QuietInit, PartsInit DEF LifeInv
<1>2. LifeInv /\ DestructorsHaveRun /\ [Next]_vars => (LifeInv /\ DestructorsHaveRun)'
  <2> SUFFICES ASSUME LifeInv, DestructorsHaveRun, [Next]_vars
               PROVE  (LifeInv /\ DestructorsHaveRun)'
    OBVIOUS
  <2>1. Control /\ RanInv /\ Held /\ Quiet /\ PartsInv
    BY DEF LifeInv
  <2>2. Early => Libs
    BY <2>1 DEF PartsInv
  <2>3. Control' /\ RanInv' /\ Held' /\ Quiet' /\ PartsInv' /\ DestructorsHaveRun'
    BY <2>1, <2>2, ControlStep, RanStep, HeldStep, QuietStep, PartsStep, HaveRunStep
  <2> QED BY <2>3 DEF LifeInv
<1> QED BY <1>1, <1>2, PTL DEF Spec

(* The machine never uses a part, a library or a type that is not there,   *)
(* in whatever order its parts are made, fail to be made and are           *)
(* destroyed (vm_run, virtual_machine_new, virtual_machine_destroy), and a *)
(* property of an instance has one value however often CLSPSET sets it.    *)
THEOREM StaysConsistent == Spec => []Consistent
<1>1. LifeInv => Consistent
  <2> SUFFICES ASSUME LifeInv PROVE Consistent
    OBVIOUS
  <2>1. Control /\ Held /\ PartsInv
    BY DEF LifeInv
  <2>2. TypeOK
    <3>1. DOMAIN modules = 1 .. Len(modules)
      <4>1. modules \in Seq(Module)
        BY <2>1 DEF Control
      <4> QED BY <4>1, LenProperties
    <3>2. \A i \in DOMAIN modules : modules[i].id = i - 1
      BY <2>1, <3>1 DEF Control
    <3>3. fn # NULL => stage \in {"init", "autorun", "main"} /\ cursor.at \in 2 .. (Len(modules) + 1)
      BY <2>1 DEF Control
    <3>4. waiting \subseteq Live /\ \A r \in Raws : released[r] > 0 => place[r] = "gone"
      BY <2>1 DEF Held, Live
    <3> QED BY <2>1, <3>2, <3>3, <3>4 DEF TypeOK, PartsInv
  <2>3. OneValuePerProperty
    <3> SUFFICES ASSUME NEW i \in Instances PROVE Cardinality({r \in Raws : place[r] = i}) <= 1
      BY DEF OneValuePerProperty
    <3> DEFINE values == {r \in Raws : place[r] = i}
    <3>1. \A r, s \in values : r = s
      BY <2>1 DEF Held
    <3>2. CASE values = {}
      BY <3>2, FS_EmptySet
    <3>3. CASE values # {}
      <4>1. PICK r \in values : TRUE
        BY <3>3
      <4>2. values = {r}
        BY <3>1, <4>1
      <4>3. Cardinality({r}) = 1
        BY FS_Singleton
      <4> HIDE DEF values
      <4>4. Cardinality(values) <= 1
        BY <4>2, <4>3
      <4> QED BY <4>4 DEF values
    <3> QED BY <3>2, <3>3
  <2> QED BY <2>1, <2>2, <2>3 DEF Consistent, NothingDeadIsUsed, PartsInv
<1> QED BY <1>1, LifeInvariant, PTL

(* __predefined__ and __init__ of every module that has them, in the order *)
(* of the modules, then every __autorun__, then main: each once, and in a  *)
(* run that does not fail all of them (vm_run).                            *)
THEOREM FunctionsRunInOrder == Spec => []RunsInOrder
<1>1. LifeInv => RunsInOrder
  <2> SUFFICES ASSUME LifeInv PROVE RunsInOrder
    OBVIOUS
  <2>1. Control /\ RanInv
    BY DEF LifeInv
  <2>2. DOMAIN ran = 1 .. Len(ran)
    <3>1. ran \in Seq(Functions \X Nat)
      BY <2>1 DEF RanInv
    <3> QED BY <3>1, LenProperties
  <2>3. \A i, j \in DOMAIN ran : i < j => Earlier(ran[i], ran[j])
    BY <2>1, <2>2 DEF RanInv
  <2>4. ASSUME stage = "collect", ~ failed
        PROVE  ToSet(ran) = {r \in Functions \X (1..Len(modules)) :
                                r[1] \in modules[r[2]].exports /\ (r[1] = "main" => r[2] = 2)}
    <3>1. ToSet(ran) = {r \in Exported : Passed(r)}
      BY <2>1, <2>4 DEF RanInv
    <3>2. \A r \in Functions \X (1..Len(modules)) : Passed(r) <=> (r[1] = "main" => r[2] = 2)
      BY <2>4 DEF Passed, Functions
    <3> QED BY <3>1, <3>2 DEF Exported
  <2> QED BY <2>3, <2>4 DEF RunsInOrder
<1> QED BY <1>1, LifeInvariant, PTL

(* The payload of a raw object is released when its shell is destroyed,    *)
(* once, by the function of its library, which is still loaded; after a    *)
(* run that leaves no error only payloads are left that an instance holds  *)
(* whose destructor did not confirm, or that left the object table while   *)
(* its destructor was a thread (virtual_machine_destroy, gc_destroy): such *)
(* an instance keeps its inner part and what it holds for ever.            *)
THEOREM PayloadsAreReleased == Spec => []PayloadsReleased
<1>1. LifeInv => PayloadsReleased
  <2> SUFFICES ASSUME LifeInv PROVE PayloadsReleased
    OBVIOUS
  <2>1. Held /\ PartsInv
    BY DEF LifeInv
  <2>2. \A r \in Raws : released[r] = IF place[r] = "gone" THEN 1 ELSE 0
    BY <2>1 DEF Held
  <2>3. ASSUME stage = "ended", ~ occurred, NEW r \in Raws
        PROVE  place[r] \in {"none", "gone"} \union Keepers
    <3>1. r \in Objects
      BY DEF Objects
    <3>2. place[r] \in {"none", "thread", "module", "global", "gone"} \union Instances
      BY <2>1, <3>1 DEF Held
    <3>3. /\ place[r] \notin Places \union {"thread"}
          /\ place[r] \notin Instances \ Keepers
      BY <2>1, <2>3, <3>1 DEF PartsInv
    <3> QED BY <3>2, <3>3 DEF Places
  <2>4. \A i \in lost : class[i].inner /\ class[i].destructing
    BY <2>1 DEF Held
  <2> QED BY <2>2, <2>3, <2>4 DEF PayloadsReleased
<1> QED BY <1>1, LifeInvariant, PTL

(* After a run that did not fail no thread of a destructor is thrown away, *)
(* the destructors of instances nobody refers to have run, and every part  *)
(* is gone at the end, except what an error in the rail may still need and *)
(* the collector after a start that failed.                                *)
THEOREM MachineEndsClean == Spec => []EndsClean
<1>1. LifeInv /\ DestructorsHaveRun => EndsClean
  BY DEF LifeInv, PartsInv, EndsClean
<1> QED BY <1>1, LifeInvariant, PTL

(* Before the first function runs, the modules are the files that the      *)
(* imports lead to, once each, whatever cycles the imports have (the       *)
(* loading queue of vm_run), and their functions run in the order that a   *)
(* program may rely on.                                                    *)
THEOREM LoadedAsImported == Spec => []LoadedInOrder
<1>1. Init => Control /\ Loads
  <2>1. Init => Loads
    BY DEF Init, Loads
  <2> QED BY <2>1, ControlInit
<1>2. Control /\ Loads /\ [Next]_vars => (Control /\ Loads)'
  <2> SUFFICES ASSUME Control, Loads, [Next]_vars PROVE Control' /\ Loads'
    OBVIOUS
  <2> QED BY ControlStep, LoadsStep
<1>3. Control /\ Loads => LoadedIsImported
  <2> SUFFICES ASSUME Control, Loads, stage \in {"init", "autorun", "main"}, WellNamed(program)
               PROVE  /\ {modules[i].file : i \in 2 .. Len(modules)} = Imported(program)
                      /\ Len(modules) = Cardinality(Imported(program)) + 1
                      /\ \A i \in 3 .. Len(modules) : \E j \in 2 .. (i - 1) :
                            modules[i].file \in ToSet(program.imports[modules[j].file])
    BY DEF LoadedIsImported
  <2>1. program \in Programs /\ modules \in Seq(Module)
    BY DEF Control
  <2>2. Gathered(program, queue, modules) /\ Unloaded(queue) = {}
    BY DEF Loads
  <2>3. /\ {modules[i].file : i \in 2 .. Len(modules)} = Imported(program)
        /\ Len(modules) = Cardinality(Imported(program)) + 1
    BY ONLY <2>1, <2>2, WellNamed(program), GatheredAll
  <2>4. \A i \in 3 .. Len(modules) : \E j \in 2 .. (i - 1) :
              modules[i].file \in ToSet(program.imports[modules[j].file])
    BY <2>2 DEF Gathered
  <2> QED BY <2>3, <2>4
<1>4. Spec => [](Control /\ Loads)
  BY <1>1, <1>2, PTL DEF Spec
<1> QED BY <1>3, <1>4, FunctionsRunInOrder, PTL DEF LoadedInOrder
=============================================================================
