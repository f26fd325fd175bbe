------------------------------- MODULE Values -------------------------------
(***************************************************************************)
(* Values of the language and the operations of the interpreter on them:   *)
(* ARITH_OP and the macros that go round it, NEG_OP, ObjCmp, CMP_OP,       *)
(* IsEqual and IsFalse of vm.cpp, for objects without metamethods          *)
(* (Lookup has those).                                                     *)
(*                                                                         *)
(* A value is a type and a number: the integer, the number of a float, 0   *)
(* or 1 of a bool, the place of a string in strcmp's order, the address of *)
(* any other object.  LVInteger is 64 bits wide, C's int 32 and LVFloat is *)
(* a float, which cannot tell large integers apart: the constants keep     *)
(* these three ranges nested.  A NaN, which no law of order holds for, is  *)
(* left out.                                                               *)
(***************************************************************************)
EXTENDS Integers

CONSTANTS
    IntMax,      \* the largest LVInteger
    CIntMax,     \* INT_MAX, the largest int of C, far below it
    FloatExact,  \* integers up to it have a float of their own
    FloatNumber, \* the numbers that floats are
    Addresses    \* the places of strings, the addresses of other objects

ASSUME ValuesAssumption ==
    /\ IntMax \in Nat /\ CIntMax \in Nat /\ CIntMax < IntMax
    /\ FloatExact \in Nat \ {0}
    /\ FloatNumber \subseteq -IntMax - 1 .. IntMax + 1 /\ 0 \in FloatNumber
    /\ \A n \in FloatNumber : -n \in FloatNumber
    /\ Addresses \subseteq Nat

VARIABLE
    triple  \* three values, of which laws are told below

CIntMin == -CIntMax - 1    \* INT_MIN

Typed(t, n) == [t |-> t, n |-> n]
Int1(n) == Typed("int", n)
Bool(b) == Typed("bool", IF b THEN 1 ELSE 0)
Null == Typed("null", 0)
NegZero == Typed("float", 2 * IntMax + 2)   \* -0.0, the float that is 0 with another sign
RaisesError == Typed("error", 0)            \* Raise_Error, and the operation returns false
Trap == Typed("trap", 0)                    \* the processor's exception
Kept == Typed("old", 0)                     \* the target keeps the value it had

Wrap(n) == ((n + IntMax + 1) % (2 * IntMax + 2)) - IntMax - 1

AnyValue ==
    {Typed("int", n) : n \in -IntMax - 1 .. IntMax}
    \cup {Typed("float", n) : n \in FloatNumber}
    \cup {Typed(t, n) : t \in {"string", "table"}, n \in Addresses}
    \cup {NegZero, Null, Bool(TRUE), Bool(FALSE)}

\* Values are only chosen.
ValuesInit == triple \in AnyValue \X AnyValue \X AnyValue
ValuesNext == UNCHANGED triple
ValuesSpec == ValuesInit /\ [][ValuesNext]_triple

IsNumeric(v) == v.t \in {"int", "float"}

\* tofloat: integers that no float has are rounded to the even one below.
ToFloat(v) ==
    CASE v = NegZero -> 0
      [] v.t = "int" /\ v.n \notin -FloatExact .. FloatExact -> v.n - (v.n % 2)
      [] OTHER -> v.n

\* The quotient and the remainder of C, toward zero.
Abs(n) == IF n < 0 THEN -n ELSE n
Quotient(a, b) == IF (a < 0) = (b < 0) THEN Abs(a) \div Abs(b) ELSE -(Abs(a) \div Abs(b))

\* Seeded bug: a remainder that is never negative.
Remainder_Mod(a, b) == a % Abs(b)

Remainder(a, b) == a - b * Quotient(a, b)

-----------------------------------------------------------------------------
\* The smallest LVInteger divided by -1 traps: the check below is for the
\* smallest C int.
Divided(a, b) == IF a = -IntMax - 1 /\ b = -1 THEN Trap ELSE Int1(Quotient(a, b))

\* The integer case of ARITH_OP, which compound assignments, increments and %
\* go through.
IntegerOp(op, a, b) ==
    CASE op = "+" -> Int1(Wrap(a + b))
      [] op = "-" -> Int1(Wrap(a - b))
      [] op = "*" -> Int1(Wrap(a * b))
      [] op = "/" -> IF b = 0 \/ (b = -1 /\ a = CIntMin) THEN RaisesError ELSE Divided(a, b)
      [] op = "%" -> IF b = 0 THEN RaisesError
                     ELSE IF b = -1 /\ a = CIntMin THEN Int1(0)
                     ELSE IF Divided(a, b) = Trap THEN Trap ELSE Int1(Remainder(a, b))

\* Of the result of an operation on floats only the type is kept; a string
\* makes + a concatenation, and nothing else has an arithmetic.
OtherOp(op, x, y) ==
    CASE IsNumeric(x) /\ IsNumeric(y) -> Typed("float", 0)
      [] op = "+" /\ "string" \in {x.t, y.t} -> Typed("string", 0)
      [] OTHER -> RaisesError

BothInts(x, y) == x.t = "int" /\ y.t = "int"

ArithOp(op, x, y) ==
    IF BothInts(x, y) THEN IntegerOp(op, x.n, y.n) ELSE OtherOp(op, x, y)

\* _OP_ADD to _OP_MOD: _ARITH_ and _ARITH_NOZERO do integers themselves, and a
\* division there checks for zero only.  _OP_MOD does not ask whether ARITH_OP
\* failed: the program goes on.
Instruction(op, x, y) ==
    IF op = "%" THEN IF ArithOp(op, x, y) = RaisesError THEN Kept ELSE ArithOp(op, x, y)
    ELSE IF op = "/" /\ BothInts(x, y)
           THEN IF y.n = 0 THEN RaisesError ELSE Divided(x.n, y.n)
           ELSE ArithOp(op, x, y)

NegOp(x) == CASE x.t = "int" -> Int1(Wrap(-x.n))
              [] x.t = "float" -> IF x = NegZero THEN Typed("float", 0)
                                  ELSE IF x.n = 0 THEN NegZero ELSE Typed("float", -x.n)
              [] OTHER -> RaisesError

IsFalse(x) == \/ x.t = "null"
              \/ x.t \in {"int", "bool", "float"} /\ (x.n = 0 \/ x = NegZero)

\* Values of one type are equal when their bits are.
IsEqual(x, y) ==
    IF x.t = y.t THEN x = y ELSE IsNumeric(x) /\ IsNumeric(y) /\ ToFloat(x) = ToFloat(y)

Sign(b) == IF b THEN -1 ELSE 1

\* The result of ObjCmp, or 2 when it raises an error.
ObjCmp(x, y) ==
    CASE x = y -> 0
      [] x # y /\ x.t = y.t ->
            Sign(IF x.t = "float" THEN ToFloat(x) < ToFloat(y) ELSE x.n < y.n)
      [] x.t # y.t /\ IsNumeric(x) /\ IsNumeric(y) ->
            IF ToFloat(x) = ToFloat(y) THEN 0 ELSE Sign(ToFloat(x) < ToFloat(y))
      [] OTHER -> IF x.t = "null" THEN -1 ELSE IF y.t = "null" THEN 1 ELSE 2

CmpOp(op, x, y) ==
    LET r == ObjCmp(x, y)
    IN IF r = 2 THEN RaisesError
       ELSE CASE op = "<" -> Bool(r < 0)
              [] op = ">" -> Bool(r > 0)
              [] op = "<=" -> Bool(r <= 0)
              [] op = ">=" -> Bool(r >= 0)
              [] op = "<=>" -> Int1(r)

-----------------------------------------------------------------------------
BothZeros == {NegZero, Typed("float", 0)}

\* What sorting and comparing need of ObjCmp and IsEqual: the two agree, the
\* order reads the same from both ends, and among values of one type it is
\* transitive.  The two zeros of floats differ whichever comes first.
OrderLaws(x, y, z) ==
    LET r == ObjCmp(x, y)
    IN {x, y} # BothZeros /\ r # 2 =>
        /\ ObjCmp(y, x) = -r
        /\ IsEqual(x, y) <=> r = 0
        /\ CmpOp("<", x, y) = CmpOp(">", y, x) /\ CmpOp("<=", x, y) = CmpOp(">=", y, x)
        /\ x.t = y.t /\ y.t = z.t /\ r <= 0 /\ ObjCmp(y, z) <= 0 => ObjCmp(x, z) <= 0

\* Equal values are false together, and a number negated twice is itself.
TruthLaws(x, y) ==
    /\ IsEqual(x, y) => (IsFalse(x) <=> IsFalse(y))
    /\ IsNumeric(x) => NegOp(NegOp(x)) = x

\* Quotient and remainder belong together, and an operator gives what the
\* compound assignment of the same operator gives, but for the smallest C int
\* divided by -1, which only the assignment refuses.  A division by zero is an
\* error; the remainder of one leaves the program running.
DivisionLaws(x, y) ==
    BothInts(x, y) =>
        LET q == Instruction("/", x, y)
            r == Instruction("%", x, y)
        IN /\ q.t = "int" => Wrap(q.n * y.n + r.n) = x.n /\ Abs(r.n) < Abs(y.n)
           /\ ArithOp("/", x, y) # q => x.n = CIntMin /\ y.n = -1
           /\ (q = Trap) <=> (r = Trap)
           /\ (q = RaisesError) <=> (r = Kept)

\* Comparison is an order, and division has its remainder (vm.cpp:60-218).
ValueLaws ==
    /\ OrderLaws(triple[1], triple[2], triple[3])
    /\ TruthLaws(triple[1], triple[2])
    /\ DivisionLaws(triple[1], triple[2])
=============================================================================
