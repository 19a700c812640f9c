------------------------------- MODULE Scalars -------------------------------
(***************************************************************************)
(* Scalar objects and what the instructions compute of them                *)
(* (vm/vm_object.c, vm/vm_object_native.c, _bool.c, _float.c, _char.c,     *)
(* _str.c, _type.c, _none.c, _nan.c, _inf.c).  An object is a pair of its  *)
(* type and its value.  Integers and characters have w bits.  A string is  *)
(* the sequence of its bytes.  A float is a whole number of 1/One; those   *)
(* closer than Epsilon of these count as equal.                            *)
(*                                                                         *)
(* An operation yields a set of outcomes: what it makes, an error of the   *)
(* program, or the end of the process where the machine traps.  Overflow   *)
(* of a signed integer and shifts as long as the word, which C leaves      *)
(* undefined, are what the machine makes of them: the low bits, and the    *)
(* count modulo the width.                                                 *)
(***************************************************************************)
EXTENDS Integers, SequencesExt, FiniteSetsExt
CONSTANTS One, Epsilon,
          Spelling(_)   (* what sprintf or a table of names writes for a *)
                        (* float, a truth value or a type                *)

Type(v) == v[1]
Val(v) == v[2]
Integer(n) == <<"int", n>>
Truth(b) == <<"bool", b>>
Float(x) == <<"float", x>>
Char(c) == <<"char", c>>
Str(s) == <<"str", s>>
Symbol(s) == <<"symbol", s>>
TypeIs(t) == <<"type", t>>

Gives(v) == {<<"ok", v>>}
Refused == {<<"error">>}
Trapped == {<<"fault">>}

Signed(w, n) == LET m == n % 2^w IN IF m < 2^(w - 1) THEN m ELSE m - 2^w
Unsigned(w, n) == n % 2^w
Least(w) == -(2^(w - 1))
BitsOf(w, n) == {i \in 0..(w - 1) : (n \div 2^i) % 2 = 1}
FromBits(w, bits) == Signed(w, MapThenSumSet(LAMBDA i : 2^i, bits))
Size(n) == IF n < 0 THEN -n ELSE n
(* Mutant: division goes down. *)
QuotientDown(a, b) ==
    IF (a < 0) = (b < 0) THEN Size(a) \div Size(b)
    ELSE -((Size(a) + Size(b) - 1) \div Size(b))
(* Division in C goes towards zero. *)
Quotient(a, b) == LET q == Size(a) \div Size(b) IN IF (a < 0) = (b < 0) THEN q ELSE -q
-----------------------------------------------------------------------------
Bitwise(w, op, l, r) ==
    LET x == BitsOf(w, l) y == BitsOf(w, r)
    IN FromBits(w, CASE op = "ANDA" -> x \cap y
                     [] op = "ORA"  -> x \cup y
                     [] op = "XORA" -> (x \cup y) \ (x \cap y))
IntArithmetic(w, op, l, r) ==
    IF op \in {"DIV", "MOD"} /\ r = 0 THEN Refused
    ELSE IF op \in {"DIV", "MOD"} /\ l = Least(w) /\ r = -1 THEN Trapped
    ELSE Gives(Integer(CASE op = "ADD" -> Signed(w, l + r)
                      [] op = "SUB" -> Signed(w, l - r)
                      [] op = "MUL" -> Signed(w, l * r)
                      [] op = "DIV" -> Quotient(l, r)
                      [] op = "MOD" -> l - r * Quotient(l, r)
                      [] op = "LSHIFT" -> Signed(w, l * 2^(r % w))
                      [] op = "RSHIFT" -> l \div 2^(r % w)
                      [] op \in {"ANDA", "ORA", "XORA"} -> Bitwise(w, op, l, r)))

Compare(op, l, r) ==
    Gives(Truth(CASE op = "EQ" -> l = r [] op = "NE" -> l # r
                  [] op = "L" -> l < r  [] op = "G" -> l > r
                  [] op = "LE" -> l <= r [] op = "GE" -> l >= r))
(* Objects of two types are not equal. *)
Unequal(op) == Gives(Truth(op = "NE"))
IntCompare(op, l, r) ==
    IF Type(r) = "int" THEN Compare(op, Val(l), Val(r))
    ELSE IF op \in {"EQ", "NE"} THEN Unequal(op) ELSE Refused
(* A character is compared with an integer, as an unsigned one, and        *)
(* refused with a character.                                               *)
CharCompare(w, op, l, r) ==
    IF Type(r) = "int" THEN Compare(op, Val(l), Unsigned(w, Val(r))) ELSE Refused

FloatEqual(l, r) == Size(l - r) < Epsilon
FloatCompare(op, l, r) ==
    IF Type(r) # "float" THEN IF op \in {"EQ", "NE"} THEN Unequal(op) ELSE Refused
    ELSE IF op = "EQ" THEN Gives(Truth(FloatEqual(Val(l), Val(r))))
    ELSE IF op = "NE" THEN Gives(Truth(~FloatEqual(Val(l), Val(r))))
    ELSE Compare(op, Val(l), Val(r))
FloatArithmetic(op, l, r) ==
    CASE Type(r) # "float" -> Refused
      [] op = "DIV" /\ Size(Val(r)) < Epsilon -> Refused
      [] op = "ADD" -> Gives(Float(Val(l) + Val(r)))
      [] op = "SUB" -> Gives(Float(Val(l) - Val(r)))
      [] op = "MUL" -> Gives(Float(Quotient(Val(l) * Val(r), One)))
      [] op = "DIV" -> Gives(Float(Quotient(Val(l) * One, Val(r))))

BoolLogical(op, l, r) ==
    IF Type(r) # "bool" THEN Refused
    ELSE Gives(Truth(CASE op = "ANDL" -> Val(l) /\ Val(r)
                       [] op = "ORL"  -> Val(l) \/ Val(r)
                       [] op = "XORL" -> Val(l) # Val(r)))

StrAdd(l, r) == IF Type(r) = "str" THEN Gives(Str(Val(l) \o Val(r))) ELSE Refused
StrMul(l, r) ==
    IF Type(r) = "int" /\ Val(r) >= 0
    THEN Gives(Str(FlattenSeq([i \in 1..Val(r) |-> Val(l)]))) ELSE Refused

(* Bools, strings and types are equal when their values are; none, nan and *)
(* inf are equal to every other of their type, whatever its sign.          *)
SameValue(op, l, r) == IF Type(r) = Type(l) THEN Compare(op, Val(l), Val(r)) ELSE Unequal(op)
SameType(op, l, r) == Gives(Truth((Type(l) = Type(r)) = (op = "EQ")))

Equality == {"EQ", "NE"}
Order == {"L", "G", "LE", "GE"}
ArithmeticOps == {"ADD", "SUB", "MUL", "DIV", "MOD", "LSHIFT", "RSHIFT", "ANDA", "ORA", "XORA"}
LogicOps == {"ANDL", "ORL", "XORL"}
(* The function is looked up by the operator and the type of the left      *)
(* operand; without one the types do not match.                            *)
BinaryOperate(w, op, l, r) ==
    LET t == Type(l)
    IN CASE t = "int" /\ op \in ArithmeticOps ->
              IF Type(r) = "int" THEN IntArithmetic(w, op, Val(l), Val(r)) ELSE Refused
         [] t = "int" /\ op \in Equality \cup Order -> IntCompare(op, l, r)
         [] t = "char" /\ op \in Order -> CharCompare(w, op, l, r)
         [] t = "float" /\ op \in {"ADD", "SUB", "MUL", "DIV"} -> FloatArithmetic(op, l, r)
         [] t = "float" /\ op \in Equality \cup Order -> FloatCompare(op, l, r)
         [] t = "bool" /\ op \in LogicOps -> BoolLogical(op, l, r)
         [] t = "str" /\ op = "ADD" -> StrAdd(l, r)
         [] t = "str" /\ op = "MUL" -> StrMul(l, r)
         [] t \in {"bool", "str", "type"} /\ op \in Equality -> SameValue(op, l, r)
         [] t \in {"none", "nan", "inf"} /\ op \in Equality -> SameType(op, l, r)
         [] OTHER -> Refused

UnaryOperate(w, op, v) ==
    CASE op = "NEG" /\ Type(v) = "int" -> Gives(Integer(Signed(w, -Val(v))))
      [] op = "NOTA" /\ Type(v) = "int" -> Gives(Integer(-Val(v) - 1))
      [] op = "NEG" /\ Type(v) = "float" -> Gives(Float(-Val(v)))
      [] op = "NEG" /\ Type(v) \in {"nan", "inf"} -> Gives(<<Type(v), 1 - Val(v)>>)
      [] op = "NOTL" /\ Type(v) = "bool" -> Gives(Truth(~Val(v)))
      [] OTHER -> Refused
-----------------------------------------------------------------------------
(* The decimal digits of a number, a minus sign before them. *)
Digits(n) ==
    LET k == CHOOSE k \in 1..10 : n < 10^k /\ (k = 1 \/ n >= 10^(k - 1))
    IN [i \in 1..k |-> 48 + ((n \div 10^(k - i)) % 10)]
Decimal(n) == (IF n < 0 THEN <<45>> ELSE <<>>) \o Digits(Size(n))

(* How much one character adds.  Of bases 2, 8 and 10 the test that should *)
(* refuse what is no digit, ch < '0' && ch >= base, refuses hardly         *)
(* anything; a byte with its highest bit set is a negative character.      *)
Ord(s, i) == IF i \in DOMAIN s THEN IF s[i] < 128 THEN s[i] ELSE s[i] - 256 ELSE 0
Passes(base, c) == ~(c < 48 /\ c >= base)
HexDigit(c) == CASE c \in 48..57 -> c - 48 [] c \in 97..102 -> c - 87 [] c \in 65..70 -> c - 55
                 [] OTHER -> -1
(* The digits of base 2, 8 and 16 are shifted in, bit by bit. *)
DigitBits(base) == CASE base = 2 -> 1 [] base = 8 -> 3 [] base = 16 -> 4
DigitOf(base, c) == IF base = 16 THEN HexDigit(c) ELSE c - 48
Number(w, base, chars) ==
    IF base = 10 THEN FoldLeft(LAMBDA n, c : n * 10 + DigitOf(base, c), 0, chars)
    ELSE FromBits(w, 0..(w - 1) \cap
           FoldLeft(LAMBDA bits, c : {i + DigitBits(base) : i \in bits}
                                     \cup BitsOf(w, DigitOf(base, c)), {}, chars))
(* Mutant: a minus sign is passed over and forgotten. *)
StrToIntUnsigned(w, s) ==
    LET from == IF Ord(s, 1) = 45 THEN 2 ELSE 1
        base == IF Ord(s, from) = 48 THEN 8 ELSE 10
        chars == [i \in 1..(Len(s) + 1 - from) |-> Ord(s, i + from - 1)]
    IN IF s = <<>> THEN Refused ELSE Gives(Integer(Signed(w, Number(w, base, chars))))
StrToInt(w, s) ==
    LET sign == Ord(s, 1) = 45
        p == IF sign THEN 2 ELSE 1
        base == IF Ord(s, p) # 48 THEN 10
                ELSE IF Len(s) >= 2 /\ Ord(s, p + 1) \in {120, 88} THEN 16
                ELSE IF Len(s) >= 2 /\ Ord(s, p + 1) \in {98, 66} THEN 2 ELSE 8
        from == p + (CASE base = 10 -> 0 [] base = 8 -> 1 [] OTHER -> 2)
        chars == [i \in 1..(Len(s) + 1 - from) |-> Ord(s, i + from - 1)]
        bad == \E i \in DOMAIN chars :
                  IF base = 16 THEN HexDigit(chars[i]) = -1 ELSE ~Passes(base, chars[i])
        n == Number(w, base, chars)
    IN IF s = <<>> \/ bad THEN Refused ELSE Gives(Integer(Signed(w, IF sign THEN -n ELSE n)))

(* A character as one to six bytes. *)
Limits == <<2^7, 2^11, 2^16, 2^21, 2^26>>
Lead == <<0, 192, 224, 240, 248, 252>>
Utf8(c) ==
    LET n == Cardinality({i \in DOMAIN Limits : c >= Limits[i]})
    IN [i \in 1..(n + 1) |->
          IF i = 1 THEN Lead[n + 1] + (c \div 64^n) ELSE 128 + ((c \div 64^(n + 1 - i)) % 64)]

IntConvert(w, n, t) ==
    CASE t = "int" -> Integer(n)
      [] t = "bool" -> Truth(n # 0)
      [] t = "float" -> Float(n * One)
      [] t = "char" -> Char(Unsigned(w, n))
      [] t = "str" -> Str(Decimal(n))
(* What does not fit an integer becomes the least one. *)
FloatToInt(w, x) == LET n == Quotient(x, One)
                    IN IF n = Signed(w, n) THEN n ELSE Least(w)
FloatConvert(w, x, t) ==
    CASE t = "float" -> Float(x)
      [] t = "int" -> Integer(FloatToInt(w, x))
      [] t = "bool" -> Truth(FloatToInt(w, x) # 0)
      [] t = "str" -> Str(Spelling(Float(x)))
BoolConvert(b, t) ==
    CASE t = "bool" -> Truth(b)
      [] t = "int" -> Integer(IF b THEN 1 ELSE 0)
      [] t = "str" -> Str(Spelling(Truth(b)))
StrConvert(w, s, t) ==
    CASE t = "int" -> StrToInt(w, s)
      [] t = "str" -> Gives(Str(s))
      [] t = "bool" -> Gives(Truth(TRUE))
      [] t = "symbol" -> Gives(Symbol(s))
(* A character whose highest bit is set has no encoding. *)
CharConvert(w, c, t) ==
    CASE t = "int" -> Gives(Integer(Signed(w, c)))
      [] t = "str" -> IF c < 2^(w - 1) THEN Gives(Str(Utf8(c))) ELSE Refused

Convert(w, v, t) ==
    CASE Type(v) = "int" /\ t \in {"int", "bool", "str", "float", "char"} -> Gives(IntConvert(w, Val(v), t))
      [] Type(v) = "float" /\ t \in {"int", "bool", "str", "float"} -> Gives(FloatConvert(w, Val(v), t))
      [] Type(v) = "bool" /\ t \in {"bool", "int", "str"} -> Gives(BoolConvert(Val(v), t))
      [] Type(v) = "str" /\ t \in {"str", "int", "bool", "symbol"} -> StrConvert(w, Val(v), t)
      [] Type(v) = "char" /\ t \in {"int", "str"} -> CharConvert(w, Val(v), t)
      [] Type(v) = "type" /\ t = "str" -> Gives(Str(Spelling(v)))
      [] Type(v) = "symbol" /\ t = "str" -> Gives(Str(Val(v)))
      [] OTHER -> Refused

(* An integer beside a float becomes one. *)
TypeUpgrade(l, r) ==
    CASE Type(l) = "float" /\ Type(r) = "int" -> <<l, Float(Val(r) * One)>>
      [] Type(l) = "int" /\ Type(r) = "float" -> <<Float(Val(l) * One), r>>
      [] OTHER -> <<l, r>>

(* How hash keys are compared; nan and inf are not known there. *)
KeysEq(a, b) ==
    /\ Type(a) = Type(b)
    /\ CASE Type(a) \in {"int", "char", "str", "bool", "type", "symbol"} -> Val(a) = Val(b)
         [] Type(a) = "float" -> FloatEqual(Val(a), Val(b))
         [] Type(a) = "none" -> TRUE
         [] OTHER -> FALSE

(* Where a relative jump goes: the operand is a number in two's            *)
(* complement, and its size is added or taken away.                        *)
Relative(w, operand) ==
    IF operand < 2^(w - 1) THEN operand ELSE Signed(w, -(-Signed(w, operand - 1) - 1))
JumpTo(w, pc, operand) ==
    LET rel == Relative(w, operand)
    IN IF rel >= 0 THEN (pc + rel) % 2^w ELSE (pc - Unsigned(w, -rel)) % 2^w
=============================================================================
