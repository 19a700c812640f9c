---------------------------- MODULE CompositeData ----------------------------
(***************************************************************************)
(* The instructions on lists, arrays, hashes, pairs and tuples             *)
(* (vm/vm_cpu_composite_ds.c) and the data they work on.  A list, array,   *)
(* hash or pair object is a handle: its copies share one internal part,    *)
(* so what one holder changes all of them see.  A tuple is copied.  heap   *)
(* holds the internal parts, status whether the program still runs, was    *)
(* stopped by a run-time error, or did what C leaves undefined.            *)
(*                                                                         *)
(* An instruction takes its operands from the computing stack and leaves   *)
(* its result there: here it takes any operands, first the top, and leaves *)
(* out.  Most operands are resolved first: an identifier stands for the    *)
(* value of its variable (virtual_machine_variable_solve), and here for    *)
(* these operands the value is taken.  Not so the two halves of PAIRMK,    *)
(* the key and the value of HASHADD, the key of HASHDEL, and the key with  *)
(* which REFGET and REFSET look into a hash: there an identifier stays an  *)
(* identifier, and may come to lie in a pair or a hash.                    *)
(***************************************************************************)
EXTENDS DataValues, Naturals, SequencesExt
CONSTANTS Programs,     (* bound: what one program uses, see below *)
          MaxLen        (* bound: elements one structure counts *)
(* A program makes structures of some kinds, so many of them at most, and  *)
(* uses some integers, as elements and as indexes, and some names of       *)
(* variables where they are not resolved.                                  *)
ASSUME DataAssumption ==
    /\ MaxLen \in Nat
    /\ \A p \in Programs : p.cells \in Nat /\ p.numbers \subseteq Int

VARIABLES heap, instr, out, status,
          program,      (* the element of Programs that runs *)
          careful       (* no instruction ran that may leave a stale pointer *)
vars == <<heap, instr, out, status, program, careful>>

Nums == {Num(n) : n \in program.numbers}
Refs == {Ref(r) : r \in DOMAIN heap}
Sequences(S) == BoundedSeq(S, MaxLen)
Tuples == {Tuple(s) : s \in Sequences(Nums)}
Ids == {Id(x) : x \in program.names}
Values == Nums \cup Refs         \* what an operand is that was resolved
Elements == Values \cup Ids      \* what an operand is, and a structure may hold

L == INSTANCE ListInternal
A == INSTANCE ArrayInternal
H == INSTANCE HashInternal WITH Eq <- ObjectsEq

IsA(v, kind) == v[1] = "ref" /\ heap[v[2]].kind = kind
DataOf(v) == heap[v[2]].data
PairCar(v) == DataOf(v).car
PairCdr(v) == DataOf(v).cdr
TupleHas(t, i) == i \in Nums /\ i[2] >= 0 /\ i[2] < Len(t[2])
TupleGet(t, i) == t[2][i[2] + 1]
Of(kind) == {v \in Refs : IsA(v, kind)}

Init == /\ heap = <<>> /\ instr = <<"none", <<>>>> /\ out = <<>> /\ status = "running"
        /\ program \in Programs /\ careful = TRUE
-----------------------------------------------------------------------------
(* What was executed, and how it ended. *)
Instr(op, operands) == instr' = <<op, operands>>
Push(values) == out' = values /\ status' = "running" /\ UNCHANGED heap
Change(v, data, pushed) ==
    /\ heap' = [heap EXCEPT ![v[2]].data = data]
    /\ out' = pushed /\ status' = "running"
Create(kind, data) ==
    /\ kind \in program.kinds /\ Len(heap) < program.cells
    /\ heap' = Append(heap, [kind |-> kind, data |-> data])
    /\ out' = <<Ref(Len(heap) + 1)>> /\ status' = "running"
Fails == status' = "error" /\ out' = <<>> /\ UNCHANGED heap
Undefined == status' = "fault" /\ out' = <<>> /\ UNCHANGED heap
-----------------------------------------------------------------------------
LSTMK == \E s \in Sequences(Values) : Instr("LSTMK", s) /\ Create("list", L!Make(s))
ARRMK == \E s \in Sequences(Values) : Instr("ARRMK", s) /\ Create("array", A!Make(s))
HASHMK == \E s \in Sequences(Nums \X Values) : Instr("HASHMK", s) /\ Create("hash", H!Make(s))
(* The halves are not resolved.                                            *)
PAIRMK == \E car, cdr \in Elements :
    Instr("PAIRMK", <<car, cdr>>) /\ Create("pair", [car |-> car, cdr |-> cdr])
TUPMK == \E s \in Sequences(Nums) : Instr("TUPMK", s) /\ Push(<<Tuple(s)>>)

(* LSTCAR and LSTCDR also take a pair; anything else is an error. *)
LSTCAR == \E v \in Values :
    /\ Instr("LSTCAR", <<v>>)
    /\ IF IsA(v, "list") /\ L!InBounds(DataOf(v), 0) THEN Push(<<L!RefGet(DataOf(v), 0)>>)
       ELSE IF IsA(v, "pair") THEN Push(<<PairCar(v)>>)
       ELSE Fails
LSTCDR == \E v \in Values :
    /\ Instr("LSTCDR", <<v>>)
    /\ IF IsA(v, "list") /\ DataOf(v).size # 0 THEN Create("list", L!Cdr(DataOf(v)))
       ELSE IF IsA(v, "pair") THEN Push(<<PairCdr(v)>>)
       ELSE Fails

ARRCAR == \E v \in Values :
    /\ Instr("ARRCAR", <<v>>)
    /\ IF IsA(v, "array") /\ A!InBounds(DataOf(v), 0) THEN Push(<<A!RefGet(DataOf(v), 0)>>)
       ELSE Fails

(* ARRCDR does not look at the type.  Of an array that was cut before, the *)
(* copy may be written past its end.                                       *)
ARRCDR == \E v \in Values :
    /\ Instr("ARRCDR", <<v>>)
    /\ IF ~IsA(v, "array") THEN Undefined
       ELSE IF DataOf(v).size = 0 THEN Fails
       ELSE IF A!CloneFits(DataOf(v)) THEN Create("array", A!Cdr(DataOf(v)))
       ELSE Undefined

(* PAIRCAR, PAIRCDR, TUPCAR and TUPCDR: no case makes a result, and a NULL *)
(* object is pushed.                                                       *)
PAIRCAR == \E v \in Values \cup Tuples : Instr("PAIRCAR", <<v>>) /\ Undefined

(* A list, an array or a tuple is read at an integer, a hash at a key: an  *)
(* identifier is resolved for the first three only.                        *)
REFGET == \E v \in Values \cup Tuples, i \in Elements :
    /\ Instr("REFGET", <<v, i>>)
    /\ i \in Ids => IsA(v, "hash")
    /\ \/ /\ IsA(v, "list")
          /\ IF i \in Nums /\ L!InBounds(DataOf(v), i[2]) THEN Push(<<L!RefGet(DataOf(v), i[2])>>)
             ELSE Fails
       \/ /\ IsA(v, "array")
          /\ IF i \in Nums /\ A!InBounds(DataOf(v), i[2]) THEN Push(<<A!RefGet(DataOf(v), i[2])>>)
             ELSE Fails
       \/ /\ v \in Tuples
          /\ IF TupleHas(v, i) THEN Push(<<TupleGet(v, i)>>) ELSE Fails
       \/ /\ IsA(v, "hash")
          /\ IF DataOf(v).size = 0 THEN Fails
             ELSE IF H!Unsafe(DataOf(v), i) THEN Undefined
             ELSE IF H!Exists(DataOf(v), i) THEN Push(<<H!RefGet(DataOf(v), i)>>)
             ELSE Fails
       \/ (v \in Nums \/ IsA(v, "pair")) /\ Fails

(* The object that is pushed is destroyed when the instruction ends: as    *)
(* long as nothing else was given its block, the program goes on.  Of a    *)
(* tuple, a copy is changed and the original pushed.                       *)
REFSET == \E v \in Values \cup Tuples, i \in Elements, e \in Values :
    /\ Instr("REFSET", <<v, i, e>>)
    /\ i \in Ids => IsA(v, "hash")
    /\ \/ /\ IsA(v, "list")
          /\ IF i \in Nums /\ L!InBounds(DataOf(v), i[2])
             THEN Change(v, L!RefSet(DataOf(v), i[2], e), <<Freed>>)
             ELSE Fails
       \/ /\ IsA(v, "array")
          /\ IF i \in Nums /\ A!InBounds(DataOf(v), i[2])
             THEN Change(v, A!RefSet(DataOf(v), i[2], e), <<Freed>>)
             ELSE Fails
       \/ /\ v \in Tuples
          /\ IF TupleHas(v, i) THEN Push(<<Freed>>) ELSE Fails
       \/ /\ IsA(v, "hash")
          /\ IF DataOf(v).size = 0 THEN Fails
             ELSE IF H!Unsafe(DataOf(v), i) THEN Undefined
             ELSE /\ DataOf(v).size < MaxLen \/ H!Exists(DataOf(v), i)
                  /\ Change(v, H!RefSet(DataOf(v), i, e), <<Freed>>)
       \/ (v \in Nums \/ IsA(v, "pair")) /\ Fails

LSTADD == \E v, e \in Values :
    /\ Instr("LSTADD", <<v, e>>)
    /\ IF IsA(v, "list")
       THEN DataOf(v).size < MaxLen /\ Change(v, L!AppendTail(DataOf(v), e), <<v>>)
       ELSE Fails

(* The list changes, but it is not pushed again. *)
LSTADDH == \E v, e \in Values :
    /\ Instr("LSTADDH", <<v, e>>)
    /\ IF IsA(v, "list")
       THEN DataOf(v).size < MaxLen /\ Change(v, L!AppendHead(DataOf(v), e), <<>>)
       ELSE Fails

ARRADD == \E v, e \in Values :
    /\ Instr("ARRADD", <<v, e>>)
    /\ IF IsA(v, "array")
       THEN DataOf(v).size < MaxLen /\ Change(v, A!AppendTail(DataOf(v), e), <<v>>)
       ELSE Fails

(* Key and value go into the hash as they lie on the stack.                *)
HASHADD == \E v \in Values, k, e \in Elements :
    /\ Instr("HASHADD", <<v, k, e>>)
    /\ IF ~IsA(v, "hash") THEN Fails
       ELSE IF H!Unsafe(DataOf(v), k) THEN Undefined
       ELSE /\ DataOf(v).size < MaxLen \/ H!Exists(DataOf(v), k)
            /\ Change(v, H!AppendPair(DataOf(v), k, e), <<v>>)

HASHDEL == \E v \in Values, k \in Elements :
    /\ Instr("HASHDEL", <<v, k>>)
    /\ IF ~IsA(v, "hash") THEN Fails
       ELSE IF H!Unsafe(DataOf(v), k) THEN Undefined
       ELSE Change(v, H!Delete(DataOf(v), k), <<v>>)

(* The key is resolved: it asks for a value, never for a name.             *)
HASHHASKEY == \E v, k \in Values :
    /\ Instr("HASHHASKEY", <<v, k>>)
    /\ IF ~IsA(v, "hash") THEN Fails
       ELSE IF H!Unsafe(DataOf(v), k) THEN Undefined
       ELSE Push(<<Bool(H!Exists(DataOf(v), k))>>)

(* Neither looks at the type, HASHCAR not even at whether there is a key.  *)
(* HASHCDR takes the first node out of the hash itself.                    *)
HASHCAR == \E v \in Values :
    /\ Instr("HASHCAR", <<v>>)
    /\ IF IsA(v, "hash") /\ DataOf(v).nodes # <<>> /\ H!Car(DataOf(v)) # Freed
       THEN Push(<<H!Car(DataOf(v))>>)
       ELSE Undefined
HASHCDR == \E v \in Values :
    /\ Instr("HASHCDR", <<v>>)
    /\ IF ~IsA(v, "hash") THEN Undefined
       ELSE IF DataOf(v).nodes = <<>> THEN Fails
       ELSE IF H!Car(DataOf(v)) = Freed THEN Undefined
       ELSE Change(v, H!Cdr(DataOf(v)), <<v>>)

PAIRCARSET == \E v, e \in Values :
    /\ Instr("PAIRCARSET", <<v, e>>)
    /\ IF IsA(v, "pair") THEN Change(v, [DataOf(v) EXCEPT !.car = e], <<v>>) ELSE Fails
PAIRCDRSET == \E v, e \in Values :
    /\ Instr("PAIRCDRSET", <<v, e>>)
    /\ IF IsA(v, "pair") THEN Change(v, [DataOf(v) EXCEPT !.cdr = e], <<v>>) ELSE Fails

(* The result is a pair, whatever the member is: the test for a list is    *)
(* made of the list that is changed, and was passed already.               *)
LSTCDRSET == \E v, e \in Values :
    /\ Instr("LSTCDRSET", <<v, e>>)
    /\ IF IsA(v, "list") /\ DataOf(v).size # 0
       THEN Create("pair", [car |-> L!RefGet(DataOf(v), 0), cdr |-> e])
       ELSE Fails

(* The elements are pushed one by one, the first one last, then the size;  *)
(* LSTUNPACKR pushes them the other way round.                             *)
LSTUNPACK == \E v \in Values :
    /\ Instr("LSTUNPACK", <<v>>)
    /\ IF ~IsA(v, "list") THEN Fails
       ELSE IF L!Cut(DataOf(v)) THEN Undefined
       ELSE Push(<<Num(DataOf(v).size)>> \o Reverse(L!Unpack(DataOf(v))))
LSTUNPACKR == \E v \in Values :
    /\ Instr("LSTUNPACKR", <<v>>)
    /\ IF ~IsA(v, "list") THEN Fails
       ELSE Push(<<Num(DataOf(v).size)>> \o Reverse(L!UnpackReverse(DataOf(v))))

(* A hash tells its count, which may be more than its nodes. *)
SIZE == \E v \in Values \cup Tuples :
    /\ Instr("SIZE", <<v>>)
    /\ IF v \in Tuples THEN Push(<<Num(Len(v[2]))>>)
       ELSE IF v \in Refs /\ ~IsA(v, "pair") THEN Push(<<Num(DataOf(v).size)>>)
       ELSE Fails

(* The instructions a careful program does without: those that cut, and a  *)
(* REFSET of a hash at a key it does not have.                             *)
Risky == \/ instr'[1] \in {"LSTCDR", "ARRCDR", "HASHCAR", "HASHCDR", "PAIRCAR"}
         \/ /\ instr'[1] = "REFSET"
            /\ LET v == instr'[2][1] IN IsA(v, "hash") /\ ~H!Exists(DataOf(v), instr'[2][2])

Next ==
    /\ status = "running"
    /\ \/ LSTMK \/ ARRMK \/ HASHMK \/ PAIRMK \/ TUPMK
       \/ LSTCAR \/ LSTCDR \/ ARRCAR \/ ARRCDR \/ PAIRCAR
       \/ REFGET \/ REFSET \/ LSTADD \/ LSTADDH \/ ARRADD
       \/ HASHADD \/ HASHDEL \/ HASHHASKEY \/ HASHCAR \/ HASHCDR
       \/ PAIRCARSET \/ PAIRCDRSET \/ LSTCDRSET \/ LSTUNPACK \/ LSTUNPACKR \/ SIZE
    /\ careful' = (careful /\ ~Risky)
    /\ UNCHANGED program

Spec == Init /\ [][Next]_vars
-----------------------------------------------------------------------------
IsData(cell) ==
    \/ /\ cell.kind = "list"
       /\ cell.data.size \in 0..MaxLen
       /\ cell.data.next \in Seq(Elements) /\ cell.data.prev \in Seq(Elements \cup {Freed})
    \/ /\ cell.kind = "array"
       /\ {cell.data.pos, cell.data.size, cell.data.capacity} \subseteq Nat
       /\ cell.data.nodes \in [0..(cell.data.capacity - 1) -> Elements \cup {Freed, Null}]
    \/ /\ cell.kind = "hash"
       /\ cell.data.size \in Nat
       /\ cell.data.nodes \in Seq([key : Elements \cup {Freed}, value : Elements])
    \/ cell.kind = "pair" /\ cell.data \in [car : Elements, cdr : Elements]

(* Types: every structure holds what its kind says, nothing holds a handle *)
(* of a structure that was never made (vm/vm_cpu_composite_ds.c:33).       *)
TypeOK ==
    /\ Len(heap) <= program.cells /\ \A r \in DOMAIN heap : IsData(heap[r])
    /\ status \in {"running", "error", "fault"}
    /\ careful \in BOOLEAN

(* Walking a list from its end reads what walking it from its begin reads, *)
(* backwards; only where LSTCDR freed the node before the head does the    *)
(* walk run into it (vm/vm_object_list.c:580 and :780).                    *)
ChainsAgree == \A v \in Of("list") :
    LET l == DataOf(v)
    IN /\ l.size = Len(l.next)
       /\ Reverse(l.prev) = IF L!Cut(l) THEN <<Freed>> \o l.next ELSE l.next

(* The slots an array uses lie in its block and hold objects that live,    *)
(* whatever was cut off, copied or moved before                            *)
(* (vm/vm_object_array.c:608).                                             *)
ArrayFits == \A v \in Of("array") :
    LET a == DataOf(v)
    IN a.pos + a.size <= a.capacity /\ \A i \in A!Live(a) : a.nodes[i] \in Elements

(* A key that can be compared has one node, and the count of nodes never   *)
(* falls below them: HASHDEL leaves it too high, so that an empty hash may *)
(* be taken for one with elements, never the other way round               *)
(* (vm/vm_object_hash.c:288 and :550).                                     *)
KeysOnce == \A v \in Of("hash") :
    LET h == DataOf(v)
    IN /\ h.size >= Len(h.nodes)
       /\ \A i, j \in DOMAIN h.nodes : i # j => ~ObjectsEq(h.nodes[i].key, h.nodes[j].key)

=============================================================================
