------------------------------- MODULE DataTypes -------------------------------
(***************************************************************************)
(* What the instructions on composite data promise to a program, in terms  *)
(* of values: a list and an array are sequences, a hash is a sequence of   *)
(* pairs in which a key that can be compared occurs once, a pair has two   *)
(* places.  All holders of a handle see one value.  instr is the           *)
(* instruction that was executed, with its operands, first the top of the  *)
(* stack; out is what it left on the stack.                                *)
(*                                                                         *)
(* An identifier among the operands is none that the instruction resolves: *)
(* as a key it is a key of its own, other than the value of its variable   *)
(* and equal to the same name only, and where it lies in a pair or a hash  *)
(* it is the name that comes out again.                                    *)
(***************************************************************************)
EXTENDS DataValues, SequencesExt
VARIABLES value, instr, out, status
vars == <<value, instr, out, status>>

Init == value = <<>> /\ instr = <<"none", <<>>>> /\ out = <<>> /\ status = "running"

IsA(v, kind) == v[1] = "ref" /\ value[v[2]].kind = kind
Val(v) == value[v[2]].val
(* The position an index stands for, the entries with a key. *)
Within(s, i) == i[1] = "num" /\ i[2] + 1 \in DOMAIN s
Entries(v, k) == {i \in DOMAIN Val(v) : ObjectsEq(Val(v)[i][1], k)}
Stale(v) == \E i \in DOMAIN Val(v) : Val(v)[i][1] = Freed

Answer(pushed) == status' = "running" /\ out' = pushed /\ UNCHANGED value
Make(kind, val) ==
    /\ status' = "running" /\ out' = <<Ref(Len(value) + 1)>>
    /\ value' = Append(value, [kind |-> kind, val |-> val])
Put(v, val, pushed) ==
    /\ status' = "running" /\ out' = pushed
    /\ value' = [value EXCEPT ![v[2]].val = val]
Stop(how) == status' = how /\ out' = <<>> /\ UNCHANGED value
Error == Stop("error")
-----------------------------------------------------------------------------
(* A hash made of pairs: of a key that occurs twice, the first place and   *)
(* the last value.                                                         *)
LastAt(s, k) == CHOOSE i \in DOMAIN s : s[i][1] = k /\ \A j \in DOMAIN s : s[j][1] = k => j <= i
FirstAt(s, i) == \A j \in 1..(i - 1) : s[j][1] # s[i][1]
HashOf(s) == LET first == SelectSeq([i \in DOMAIN s |-> i], LAMBDA i : FirstAt(s, i))
             IN [n \in DOMAIN first |-> <<s[first[n]][1], s[LastAt(s, s[first[n]][1])][2]>>]

Makes(op, a) ==
    \/ op = "LSTMK" /\ Make("list", a)
    \/ op = "ARRMK" /\ Make("array", a)
    \/ op = "HASHMK" /\ Make("hash", HashOf(a))
    \/ op = "PAIRMK" /\ Make("pair", a)
    \/ op = "TUPMK" /\ Answer(<<Tuple(a)>>)

(* The first, and all the others as a structure of its own.                *)
Walks(op, v) ==
    \/ /\ \/ op = "LSTCAR" /\ IsA(v, "list")
          \/ op = "ARRCAR" /\ IsA(v, "array")
       /\ IF Val(v) = <<>> THEN Error ELSE Answer(<<Val(v)[1]>>)
    \/ /\ \/ op = "LSTCDR" /\ IsA(v, "list")
          \/ op = "ARRCDR" /\ IsA(v, "array")
       /\ IF Val(v) = <<>> THEN Error ELSE Make(value[v[2]].kind, Tail(Val(v)))
    \/ op = "ARRCDR" /\ Stop("fault")
    \/ op = "LSTCAR" /\ IsA(v, "pair") /\ Answer(<<Val(v)[1]>>)
    \/ op = "LSTCDR" /\ IsA(v, "pair") /\ Answer(<<Val(v)[2]>>)
    \/ op = "HASHCAR" /\ IsA(v, "hash") /\ Val(v) # <<>> /\ Answer(<<Val(v)[1][1]>>)
    \/ op = "HASHCDR" /\ IsA(v, "hash") /\ IF Val(v) = <<>> THEN Error ELSE Put(v, Tail(Val(v)), <<v>>)
    \/ op \in {"HASHCAR", "HASHCDR", "PAIRCAR"} /\ Stop("fault")
    \/ op = "LSTUNPACK" /\ IsA(v, "list") /\ Answer(<<Num(Len(Val(v)))>> \o Val(v))
    \/ op = "LSTUNPACK" /\ IsA(v, "list") /\ Stop("fault")
    \/ op = "LSTUNPACKR" /\ IsA(v, "list") /\ Answer(<<Num(Len(Val(v)))>> \o Reverse(Val(v)))
    \/ op \in {"LSTCAR", "LSTCDR"} /\ ~IsA(v, "list") /\ ~IsA(v, "pair") /\ Error
    \/ op = "ARRCAR" /\ ~IsA(v, "array") /\ Error
    \/ op \in {"LSTUNPACK", "LSTUNPACKR"} /\ ~IsA(v, "list") /\ Error

(* How much a structure holds; after a deletion a hash may say too much. *)
Sizes(v) ==
    \/ v[1] = "tuple" /\ Answer(<<Num(Len(v[2]))>>)
    \/ (IsA(v, "list") \/ IsA(v, "array")) /\ Answer(<<Num(Len(Val(v)))>>)
    \/ IsA(v, "hash") /\ Len(Val(v)) <= out'[1][2] /\ Answer(<<Num(out'[1][2])>>)
    \/ (v[1] = "num" \/ IsA(v, "pair")) /\ Error

Gets(v, i) ==
    \/ /\ IsA(v, "list") \/ IsA(v, "array")
       /\ IF Within(Val(v), i) THEN Answer(<<Val(v)[i[2] + 1]>>) ELSE Error
    \/ v[1] = "tuple" /\ IF Within(v[2], i) THEN Answer(<<v[2][i[2] + 1]>>) ELSE Error
    \/ /\ IsA(v, "hash")
       /\ \/ Entries(v, i) = {} /\ Error
          \/ \E n \in Entries(v, i) : Answer(<<Val(v)[n][2]>>)
          \/ Stale(v) /\ Stop("fault")
    \/ (v[1] = "num" \/ IsA(v, "pair")) /\ Error

(* What a replacement pushes is not to be used; an empty hash may refuse.  *)
Sets(v, i, e) ==
    \/ /\ IsA(v, "list") \/ IsA(v, "array")
       /\ IF Within(Val(v), i) THEN Put(v, [Val(v) EXCEPT ![i[2] + 1] = e], <<Freed>>) ELSE Error
    \/ v[1] = "tuple" /\ IF Within(v[2], i) THEN Answer(<<Freed>>) ELSE Error
    \/ /\ IsA(v, "hash")
       /\ \/ \E n \in Entries(v, i) : Put(v, [Val(v) EXCEPT ![n] = <<@[1], e>>], <<Freed>>)
          \/ Entries(v, i) = {} /\ Put(v, Append(Val(v), <<Freed, e>>), <<Freed>>)
          \/ Stale(v) /\ Stop("fault")
          \/ Val(v) = <<>> /\ Error
    \/ (v[1] = "num" \/ IsA(v, "pair")) /\ Error

Adds(op, v, e) ==
    \/ op = "LSTADD" /\ IsA(v, "list") /\ Put(v, Append(Val(v), e), <<v>>)
    \/ op = "LSTADDH" /\ IsA(v, "list") /\ Put(v, <<e>> \o Val(v), <<>>)
    \/ op = "ARRADD" /\ IsA(v, "array") /\ Put(v, Append(Val(v), e), <<v>>)
    \/ op = "PAIRCARSET" /\ IsA(v, "pair") /\ Put(v, <<e, Val(v)[2]>>, <<v>>)
    \/ op = "PAIRCDRSET" /\ IsA(v, "pair") /\ Put(v, <<Val(v)[1], e>>, <<v>>)
    \/ op = "LSTCDRSET" /\ IsA(v, "list") /\ Val(v) # <<>> /\ Make("pair", <<Val(v)[1], e>>)
    \/ op = "LSTCDRSET" /\ IsA(v, "list") /\ Val(v) = <<>> /\ Error
    \/ op \in {"LSTADD", "LSTADDH", "LSTCDRSET"} /\ ~IsA(v, "list") /\ Error
    \/ op = "ARRADD" /\ ~IsA(v, "array") /\ Error
    \/ op \in {"PAIRCARSET", "PAIRCDRSET"} /\ ~IsA(v, "pair") /\ Error

Keyed(op, v, k) ==
    \/ op = "HASHHASKEY" /\ Answer(<<Bool(Entries(v, k) # {})>>)
    \/ op = "HASHDEL" /\ IF Entries(v, k) = {} THEN Answer(<<v>>)
                         ELSE \E n \in Entries(v, k) : Put(v, RemoveAt(Val(v), n), <<v>>)
    \/ Stale(v) /\ Stop("fault")
KeyAdd(v, k, e) ==
    \/ \E n \in Entries(v, k) : Put(v, [Val(v) EXCEPT ![n] = <<@[1], e>>], <<v>>)
    \/ Entries(v, k) = {} /\ Put(v, Append(Val(v), <<k, e>>), <<v>>)
    \/ Stale(v) /\ Stop("fault")

Execute(op, a) ==
    \/ Makes(op, a)
    \/ Len(a) = 1 /\ Walks(op, a[1])
    \/ op = "SIZE" /\ Sizes(a[1])
    \/ op = "REFGET" /\ Gets(a[1], a[2])
    \/ op = "REFSET" /\ Sets(a[1], a[2], a[3])
    \/ Len(a) = 2 /\ Adds(op, a[1], a[2])
    \/ op \in {"HASHDEL", "HASHHASKEY"} /\ IF IsA(a[1], "hash") THEN Keyed(op, a[1], a[2]) ELSE Error
    \/ op = "HASHADD" /\ IF IsA(a[1], "hash") THEN KeyAdd(a[1], a[2], a[3]) ELSE Error

Next == status = "running" /\ Execute(instr'[1], instr'[2])
Spec == Init /\ [][Next]_vars
=============================================================================
