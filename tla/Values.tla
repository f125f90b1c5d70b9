------------------------------- MODULE Values -------------------------------
(***************************************************************************)
(* A Value is 64 bits (runtime/include/value.h): a double, or, where the   *)
(* exponent is all ones, a signature of 16 bits and a payload.  Integers   *)
(* and functions have 32 bits of payload, two halves of HALF numbers each; *)
(* a pointer has the address of a HeapValue.                               *)
(*                                                                         *)
(* Doubles are whole numbers here; one beyond MaxFloat is infinite.        *)
(***************************************************************************)
EXTENDS Integers

CONSTANTS
  HALF,     \* 2^16: how many numbers 16 bits hold
  MaxFloat  \* the largest finite double

ASSUME WidthAssumption ==
  /\ HALF \in Nat \ {0}
  /\ HALF = 2 * (HALF \div 2)
  /\ MaxFloat \in Nat

INT  == HALF * HALF
HIGH == HALF \div 2

(* (int32_t) of 32 bits, (int16_t) of 16 bits, (uint32_t) of a number.     *)
Signed(n)   == IF n < HIGH * HALF THEN n ELSE n - INT
Signed16(n) == IF n < HIGH THEN n ELSE n - HALF
Unsigned(n) == n % INT

Word(signature, payload) == [signature |-> signature, payload |-> payload]
Signatures == {"FLOAT", "INFINITY", "INTEGER", "POINTER", "FUNCTION", "ONES", "SPECIAL"}
Words == [signature : Signatures, payload : Int]

kNull           == Word("SPECIAL", 0)
MAKE_INTEGER(n) == Word("INTEGER", Unsigned(n))
MAKE_PTR(a)     == Word("POINTER", a)
BOOL(b)         == MAKE_INTEGER(IF b THEN 1 ELSE 0)

GET_INT(w)   == Unsigned(w.payload)
GET_FLOAT(w) == w.payload
GET_PTR(w)   == w.payload
IS_PTR(w)    == w.signature = "POINTER"
IS_FUN(w)    == w.signature = "FUNCTION"

(* An infinity has no quiet bit: none of the signatures.                   *)
MAKE_FLOAT(x) ==
  IF -MaxFloat <= x /\ x <= MaxFloat THEN Word("FLOAT", x) ELSE Word("INFINITY", 0)

(* 0.0 / 0.0: the processor's NaN has the sign bit set, which makes it the *)
(* signature of a pointer, to address 0.                                   *)
NAN == MAKE_PTR(0)

(* (uint16_t)(y) << 16 is an int: where it is negative, its sign fills the *)
(* signature with ones.                                                    *)
MAKE_FUNCTION(x, y) ==
  Word(IF y % HALF < HIGH THEN "FUNCTION" ELSE "ONES", (x % HALF) + (y % HALF) * HALF)

(* What op_call and call_threaded read: two numbers of 16 bits, signed.    *)
FunctionAddress(w)    == Signed16(w.payload % HALF)
FunctionLocalSpace(w) == Signed16((w.payload \div HALF) % HALF)
-----------------------------------------------------------------------------
(* bindings/src/maths.c on two integers.  GET_INT is a uint64_t, so that   *)
(* the comparisons and the division are those of unsigned numbers.         *)
Arithmetic == {"add_value", "sub_value", "mul_value", "div_value"}
Order      == {"lt_value", "gt_value", "lte_value", "gte_value"}
Logic      == {"and_value", "or_value"}

Holds(f, x, y) ==
  \/ f = "lt_value"  /\ x < y
  \/ f = "gt_value"  /\ x > y
  \/ f = "lte_value" /\ x <= y
  \/ f = "gte_value" /\ x >= y

Computed(f, x, y) ==
  CASE f = "add_value" -> x + y
    [] f = "sub_value" -> x - y
    [] f = "mul_value" -> x * y
    [] f = "div_value" -> x \div y

OnIntegers(f, x, y) ==
  CASE f \in Arithmetic  -> MAKE_INTEGER(Computed(f, x, y))
    [] f \in Order       -> BOOL(Holds(f, x, y))
    [] f = "eq_value"    -> BOOL(x = y)
    [] f = "and_value"   -> BOOL(x # 0 /\ y # 0)
    [] f = "or_value"    -> BOOL(x # 0 \/ y # 0)

(* A quotient is cut to a whole number, as every double here.              *)
Quotient(x, y) ==
  LET size(n) == IF n < 0 THEN -n ELSE n
      q       == size(x) \div size(y)
  IN  IF (x < 0) = (y < 0) THEN q ELSE -q

OnFloats(f, x, y) ==
  CASE f = "div_value" /\ y = 0 -> IF x = 0 THEN NAN ELSE Word("INFINITY", 0)
    [] f = "div_value" /\ y # 0 -> MAKE_FLOAT(Quotient(x, y))
    [] f \in Arithmetic \ {"div_value"} -> MAKE_FLOAT(Computed(f, x, y))
    [] f \in Order     -> BOOL(Holds(f, x, y))
    [] f = "eq_value"  -> BOOL(x = y)
=============================================================================
