------------------------------ MODULE WasmOps ------------------------------
(***************************************************************************)
(* The operators of WebAssembly as the three engines of the runtime        *)
(* compute them: the classic interpreter (wasm_interp_classic.c), the fast *)
(* interpreter (wasm_interp_fast.c) and the code that the ahead-of-time    *)
(* compiler emits (aot_emit_numberic.c, aot_emit_compare.c,                *)
(* aot_emit_conversion.c, aot_emit_memory.c), beside the definitions of    *)
(* the WebAssembly standard.  Words are W32 and W64 bits wide, so that all *)
(* operands can be enumerated; a float is NaN or a signed number of        *)
(* halves.  An outcome is a value or a trap, and undefined behaviour of C  *)
(* or of LLVM is the set of all values.  The builds for ARM are modelled:  *)
(* those for x86 leave out the masking of shift counts.  The arithmetic of *)
(* floats (+, -, *, /, sqrt) is the hardware's and is left out.            *)
(***************************************************************************)
EXTENDS Integers, Sequences, FiniteSets, Bitwise

CONSTANTS
  W32,   \* width of i32 and f32
  W64,   \* width of i64 and f64
  Gran,  \* distance of neighbouring floats at the bounds of the integers
  Byte,  \* number of values of a byte; an i32 has 4 of them, an i64 8
  AddrMod   \* number of addresses

ASSUME WidthAssumption ==
  /\ W32 \in Nat \ {0, 1} /\ W64 = 2 * W32 /\ Gran \in Nat \ {0}
  /\ Byte \in Nat /\ Byte^4 = 2^W32 /\ AddrMod \in Nat \ {0}

----------------------------------------------------------------------------
(* C types, values and outcomes.                                           *)

Width(t) == IF t \in {"int32", "uint32", "float32"} THEN W32 ELSE W64
Word(t) == 0..2^Width(t) - 1
Fit(t, v) == v % 2^Width(t)
As(t, bits) ==
  IF t \in {"int32", "int64"} /\ bits >= 2^(Width(t) - 1) THEN bits - 2^Width(t) ELSE bits
MinInt(t) == -(2^(Width(t) - 1))

Val(v) == [k |-> "value", v |-> v]
Trap(m) == [k |-> m, v |-> 0]
Overflow == "integer overflow"
DivZero == "integer divide by zero"
Invalid == "invalid conversion to integer"
OutOfBounds == "out of bounds memory access"

Truth(b) == IF b THEN 1 ELSE 0
Quot(x, y) == LET q == (IF x < 0 THEN -x ELSE x) \div (IF y < 0 THEN -y ELSE y)
              IN IF (x < 0) # (y < 0) THEN -q ELSE q
Rem(x, y) == x - y * Quot(x, y)

Cond(c, x, y) ==
  CASE c = "==" -> x = y [] c = "!=" -> x # y
    [] c = "<" -> x < y  [] c = ">" -> x > y
    [] c = "<=" -> x <= y [] c = ">=" -> x >= y

\* A binary operator of C on values of type t; a shift by a count outside the
\* width is undefined.
CNumeric(c, t, x, y) ==
  LET bits == <<Fit(t, x), Fit(t, y)>> IN
  CASE c = "+" -> {Val(Fit(t, x + y))} [] c = "-" -> {Val(Fit(t, x - y))}
    [] c = "*" -> {Val(Fit(t, x * y))}
    [] c = "&" -> {Val(bits[1] & bits[2])} [] c = "|" -> {Val(bits[1] | bits[2])}
    [] c = "^" -> {Val(bits[1] ^^ bits[2])}
    [] c \in {"<<", ">>"} /\ y \notin 0..Width(t) - 1 -> {Val(v) : v \in Word(t)}
    [] c = "<<" -> {Val(Fit(t, x * 2^y))}
    [] c = ">>" -> {Val(Fit(t, x \div 2^y))}

\* Floats: NaN, or sign and magnitude in halves; Huge stands for infinity.
Huge == 2^(W64 + 3)
NaN == [nan |-> TRUE, neg |-> FALSE, mag |-> 0]
Float(neg, mag) == [nan |-> FALSE, neg |-> neg, mag |-> mag]
Num(f) == IF f.neg THEN -f.mag ELSE f.mag
FCond(c, f, g) == IF f.nan \/ g.nan THEN c = "!=" ELSE Cond(c, Num(f), Num(g))

----------------------------------------------------------------------------
(* The standard.                                                           *)

SignedOf(t) == IF t \in {"int32", "uint32"} THEN "int32" ELSE "int64"
Bit(v, i) == (v \div 2^i) % 2
FromBits(t, b) ==
  LET sum[i \in 0..Width(t)] == IF i = 0 THEN 0 ELSE sum[i - 1] + b[i - 1] * 2^(i - 1)
  IN sum[Width(t)]

IntRef(op, t, a, b) ==
  LET w == Width(t)
      sa == As(SignedOf(t), a)
      sb == As(SignedOf(t), b)
      set == {i \in 0..w - 1 : Bit(a, i) = 1}
      least(S, d) == IF S = {} THEN d ELSE CHOOSE i \in S : \A j \in S : i <= j
      k == b % w
  IN CASE op = "eqz" -> Val(Truth(a = 0))
       [] op = "eq" -> Val(Truth(a = b)) [] op = "ne" -> Val(Truth(a # b))
       [] op = "lt_s" -> Val(Truth(sa < sb)) [] op = "lt_u" -> Val(Truth(a < b))
       [] op = "gt_s" -> Val(Truth(sa > sb)) [] op = "gt_u" -> Val(Truth(a > b))
       [] op = "le_s" -> Val(Truth(sa <= sb)) [] op = "le_u" -> Val(Truth(a <= b))
       [] op = "ge_s" -> Val(Truth(sa >= sb)) [] op = "ge_u" -> Val(Truth(a >= b))
       [] op = "clz" -> Val(least({w - 1 - i : i \in set}, w))
       [] op = "ctz" -> Val(least(set, w))
       [] op = "popcnt" -> Val(Cardinality(set))
       [] op = "add" -> Val((a + b) % 2^w) [] op = "sub" -> Val((a - b) % 2^w)
       [] op = "mul" -> Val((a * b) % 2^w)
       [] op \in {"div_s", "div_u", "rem_s", "rem_u"} /\ b = 0 -> Trap(DivZero)
       [] op = "div_s" -> IF Quot(sa, sb) = 2^(w - 1) THEN Trap(Overflow)
                          ELSE Val(Quot(sa, sb) % 2^w)
       [] op = "div_u" -> Val(a \div b) [] op = "rem_u" -> Val(a % b)
       [] op = "rem_s" -> Val(Rem(sa, sb) % 2^w)
       [] op = "and" -> Val(FromBits(t, [i \in 0..w - 1 |-> Bit(a, i) * Bit(b, i)]))
       [] op = "or" -> Val(FromBits(t, [i \in 0..w - 1 |->
                                          Truth(Bit(a, i) + Bit(b, i) > 0)]))
       [] op = "xor" -> Val(FromBits(t, [i \in 0..w - 1 |-> Truth(Bit(a, i) # Bit(b, i))]))
       [] op = "shl" -> Val((a * 2^k) % 2^w) [] op = "shr_u" -> Val(a \div 2^k)
       [] op = "shr_s" -> Val((sa \div 2^k) % 2^w)
       [] op = "rotl" -> Val(FromBits(t, [i \in 0..w - 1 |-> Bit(a, (i - k) % w)]))
       [] op = "rotr" -> Val(FromBits(t, [i \in 0..w - 1 |-> Bit(a, (i + k) % w)]))

\* The integer nearest to a number of halves in the given direction.
Rounded(op, f) ==
  LET near == {m \in {f.mag - 1, f.mag, f.mag + 1} : m >= 0 /\ m % 2 = 0}
      low == CHOOSE m \in near : m <= f.mag
      high == CHOOSE m \in near : m >= f.mag
  IN [f EXCEPT !.mag =
        CASE op = "trunc" -> low
          [] op = "ceil" -> IF f.neg THEN low ELSE high
          [] op = "floor" -> IF f.neg THEN high ELSE low
          [] op = "nearest" -> CHOOSE m \in near : Cardinality(near) = 1 \/ m % 4 = 0]
FCompareRef(op, f, g) ==
  LET x == Num(f)
      y == Num(g)
  IN Val(Truth(IF f.nan \/ g.nan THEN op = "ne"
               ELSE CASE op = "eq" -> x = y [] op = "ne" -> x # y [] op = "lt" -> x < y
                      [] op = "gt" -> x > y [] op = "le" -> x <= y [] op = "ge" -> x >= y))
ConvertRef(op, a) ==
  Val(CASE op = "extend_u" -> a [] op = "wrap" -> a % 2^W32
        [] op = "extend_s" -> IF a >= 2^(W32 - 1) THEN a + 2^W64 - 2^W32 ELSE a)

FloatRef(op, f, g) ==
  LET below == IF Num(f) = Num(g) THEN (IF f.neg THEN f ELSE g)
               ELSE IF Num(f) < Num(g) THEN f ELSE g
      above == IF Num(f) = Num(g) THEN (IF f.neg THEN g ELSE f)
               ELSE IF Num(f) > Num(g) THEN f ELSE g
  IN CASE op = "min" -> IF f.nan \/ g.nan THEN NaN ELSE below
       [] op = "max" -> IF f.nan \/ g.nan THEN NaN ELSE above
       [] op = "neg" -> [f EXCEPT !.neg = ~@]
       [] op = "abs" -> [f EXCEPT !.neg = FALSE]
       [] op = "copysign" -> [f EXCEPT !.neg = g.neg]
       [] op \in {"ceil", "floor", "trunc", "nearest"} -> IF f.nan THEN NaN ELSE Rounded(op, f)

TruncRef(t, f) ==
  LET v == Quot(Num(f), 2)
      lo == IF t \in {"int32", "int64"} THEN MinInt(t) ELSE 0
      hi == IF t \in {"int32", "int64"} THEN -MinInt(t) - 1 ELSE 2^Width(t) - 1
  IN IF f.nan THEN Trap(Invalid)
     ELSE IF v \in lo..hi THEN Val(Fit(t, v)) ELSE Trap(Overflow)

----------------------------------------------------------------------------
(* What the two interpreters share: inline functions, division.            *)

rotl(t, n, c) ==
  LET k == c % Width(t)
      back == (-k) % Width(t)
  IN Fit(t, n * 2^k) | (n \div 2^back)
rotr(t, n, c) ==
  LET k == c % Width(t)
      back == (-k) % Width(t)
  IN (n \div 2^k) | Fit(t, n * 2^back)

clz(t, type) ==
  LET num[u \in Word(t)] ==
        IF u >= 2^(Width(t) - 1) THEN 0 ELSE 1 + num[Fit(t, 2 * u)]
  IN IF type = 0 THEN Width(t) ELSE num[type]
ctz(t, type) ==
  LET num[u \in Word(t)] == IF u % 2 = 1 THEN 0 ELSE 1 + num[u \div 2]
  IN IF type = 0 THEN Width(t) ELSE num[type]
popcount(t, type) ==
  LET ret[u \in Word(t)] == IF u = 0 THEN 0 ELSE 1 + ret[u & (u - 1)]
  IN ret[type]

\* fmin and fmax of the C library may return either zero of two zeros.
fmin_of(f, g) == IF Num(f) < Num(g) THEN {f} ELSE IF Num(g) < Num(f) THEN {g} ELSE {f, g}
fmax_of(f, g) == fmin_of([f EXCEPT !.neg = ~@], [g EXCEPT !.neg = ~@])
wa_fmin(f, g) ==
  {IF c.mag = 0 /\ Num(f) = Num(g) THEN (IF f.neg THEN f ELSE g) ELSE c : c \in fmin_of(f, g)}
wa_fmax(f, g) ==
  {IF c.mag = 0 /\ Num(f) = Num(g) THEN (IF f.neg THEN g ELSE f) ELSE [c EXCEPT !.neg = ~@] :
     c \in fmax_of(f, g)}

\* The overflow of the signed forms is not looked at.
\* DIV_S, DIV_U, REM_S and REM_U: the overflow of the signed ones is looked at
\* before the zero.
DivRem(op, t, a, b) ==
  LET x == As(t, a)
      y == As(t, b)
      over == t = SignedOf(t) /\ x = MinInt(t) /\ y = -1
  IN IF over THEN {IF op = "div" THEN Trap(Overflow) ELSE Val(0)}
     ELSE IF y = 0 THEN {Trap(DivZero)}
     ELSE {Val(Fit(t, IF op = "div" THEN Quot(x, y) ELSE Rem(x, y)))}

----------------------------------------------------------------------------
(* The macros of the handlers.                                             *)

DEF_OP_EQZ(a) == {Val(Truth(a = 0))}
DEF_OP_CMP(t, c, a, b) == {Val(Truth(Cond(c, As(t, a), As(t, b))))}
DEF_OP_BIT_COUNT(t, f, a) ==
  {Val(CASE f = "clz" -> clz(t, a) [] f = "ctz" -> ctz(t, a) [] f = "popcnt" -> popcount(t, a))}
DEF_OP_NUMERIC(t, c, a, b) == CNumeric(c, t, As(t, a), As(t, b))
\* The count of a shift: the classic macro reads it as src_type2, which is
\* unsigned, the fast one as src_type1.
DEF_OP_NUMERIC2(t1, t2, c, a, b) == CNumeric(c, t1, As(t1, a), Rem(As(t2, b), Width(t2)))
fast_DEF_OP_NUMERIC2(t1, t2, c, a, b) ==
  CNumeric(c, t1, As(t1, a), Rem(As(t1, b), Width(t1)))
\* Floor, ceil, trunc and rint of a number of halves; the sign stays.
DEF_OP_MATH(f, x) ==
  LET down == Quot(x.mag, 2) * 2
      up == Quot(x.mag + 1, 2) * 2
      even == IF x.mag % 4 = 1 THEN down ELSE up
  IN CASE x.nan -> NaN
       [] f = "abs" -> [x EXCEPT !.neg = FALSE]
       [] f = "trunc" -> [x EXCEPT !.mag = down]
       [] f = "ceil" -> [x EXCEPT !.mag = IF x.neg THEN down ELSE up]
       [] f = "floor" -> [x EXCEPT !.mag = IF x.neg THEN up ELSE down]
       [] f = "nearest" -> [x EXCEPT !.mag = even]
\* DEF_OP_TRUNC with its bounds in halves.
DEF_OP_TRUNC(t, f, lo, hi) ==
  IF f.nan THEN Trap(Invalid)
  ELSE IF Num(f) <= lo \/ Num(f) >= hi THEN Trap(Overflow)
  ELSE Val(Fit(t, Quot(Num(f), 2)))

----------------------------------------------------------------------------
(* The handlers of integers: op |-> the C type and the C operator.         *)

IntCompare(u, s) ==
  [eq |-> <<u, "==">>, ne |-> <<u, "!=">>, lt_s |-> <<s, "<">>, lt_u |-> <<u, "<">>,
   gt_s |-> <<s, ">">>, gt_u |-> <<u, ">">>, le_s |-> <<s, "<=">>, le_u |-> <<u, "<=">>,
   ge_s |-> <<s, ">=">>, ge_u |-> <<u, ">=">>]
IntNumeric(u) ==
  [add |-> <<u, "+">>, sub |-> <<u, "-">>, mul |-> <<u, "*">>, and |-> <<u, "&">>,
   or |-> <<u, "|">>, xor |-> <<u, "^">>]
IntDiv(u, s) ==
  [div_s |-> <<s, "div">>, div_u |-> <<u, "div">>, rem_s |-> <<s, "rem">>, rem_u |-> <<u, "rem">>]
IntShift(u, s) == [shl |-> <<u, "<<">>, shr_s |-> <<s, ">>">>, shr_u |-> <<u, ">>">>]

CompareHandler(h, op, a, b) ==
  IF op = "eqz" THEN DEF_OP_EQZ(a) ELSE DEF_OP_CMP(h[op][1], h[op][2], a, b)
NumericHandler(u, s, op, a, b) ==
  CASE op \in {"clz", "ctz", "popcnt"} -> DEF_OP_BIT_COUNT(u, op, a)
    [] op \in DOMAIN IntDiv(u, s) -> DivRem(IntDiv(u, s)[op][2], IntDiv(u, s)[op][1], a, b)
    [] op = "rotl" -> {Val(rotl(u, a, b))}
    [] op = "rotr" -> {Val(rotr(u, a, b))}
    [] op \in DOMAIN IntNumeric(u) -> DEF_OP_NUMERIC(u, IntNumeric(u)[op][2], a, b)

classic_I32_compare(op, a, b) == CompareHandler(IntCompare("uint32", "int32"), op, a, b)
classic_I64_compare(op, a, b) == CompareHandler(IntCompare("uint64", "int64"), op, a, b)
classic_I32_numeric(op, a, b) ==
  LET h == IntShift("uint32", "int32") IN
  IF op \in DOMAIN h THEN DEF_OP_NUMERIC2(h[op][1], "uint32", h[op][2], a, b)
  ELSE NumericHandler("uint32", "int32", op, a, b)
classic_I64_numeric(op, a, b) ==
  LET h == IntShift("uint64", "int64") IN
  IF op \in DOMAIN h THEN DEF_OP_NUMERIC2(h[op][1], "uint64", h[op][2], a, b)
  ELSE NumericHandler("uint64", "int64", op, a, b)

fast_I32_compare(op, a, b) == CompareHandler(IntCompare("uint32", "int32"), op, a, b)
fast_I64_compare(op, a, b) == CompareHandler(IntCompare("uint64", "int64"), op, a, b)
fast_I32_numeric(op, a, b) ==
  LET h == IntShift("uint32", "int32") IN
  IF op \in DOMAIN h THEN fast_DEF_OP_NUMERIC2(h[op][1], "uint32", h[op][2], a, b)
  ELSE NumericHandler("uint32", "int32", op, a, b)
fast_I64_numeric(op, a, b) ==
  LET h == IntShift("uint64", "int64") IN
  IF op \in DOMAIN h THEN fast_DEF_OP_NUMERIC2(h[op][1], "uint64", h[op][2], a, b)
  ELSE NumericHandler("uint64", "int64", op, a, b)

----------------------------------------------------------------------------
(* The handlers of floats, and the conversions.  Floats of a type are      *)
(* Gran apart beyond the integers of its width.                            *)

FloatConds == [eq |-> "==", ne |-> "!=", lt |-> "<", gt |-> ">", le |-> "<=", ge |-> ">="]
FloatCompare(op, f, g) == {Val(Truth(FCond(FloatConds[op], f, g)))}
FloatUnary(op, f) ==
  IF op = "neg" THEN {[f EXCEPT !.neg = ~@]} ELSE {DEF_OP_MATH(op, f)}
FloatBinary(op, f, g) ==
  CASE op \in {"min", "max"} /\ (f.nan \/ g.nan) -> {NaN}
    [] op = "min" -> wa_fmin(f, g) [] op = "max" -> wa_fmax(f, g)
    [] op = "copysign" -> {[f EXCEPT !.neg = g.neg]}

classic_F32_compare(op, f, g) == FloatCompare(op, f, g)
classic_F64_compare(op, f, g) == FloatCompare(op, f, g)
classic_F32_unary(op, f) == FloatUnary(op, f)
classic_F64_unary(op, f) == FloatUnary(op, f)
classic_F32_binary(op, f, g) == FloatBinary(op, f, g)
classic_F64_binary(op, f, g) == FloatBinary(op, f, g)
fast_F32_compare(op, f, g) == FloatCompare(op, f, g)
fast_F64_compare(op, f, g) == FloatCompare(op, f, g)
fast_F32_unary(op, f) == FloatUnary(op, f)
fast_F64_unary(op, f) == FloatUnary(op, f)
fast_F32_binary(op, f, g) == FloatBinary(op, f, g)
fast_F64_binary(op, f, g) == FloatBinary(op, f, g)

\* The next float below the least integer; -1 for the unsigned ones.
TruncMin(t, src) ==
  2 * (CASE t \in {"uint32", "uint64"} -> -1
         [] t = "int32" /\ src = "float64" -> MinInt(t) - 1
         [] OTHER -> MinInt(t) - Gran)
TruncMax(t) == 2 * (IF t \in {"int32", "int64"} THEN -MinInt(t) ELSE 2^Width(t))

classic_trunc_i32(t, src, f) == {DEF_OP_TRUNC(t, f, TruncMin(t, src), TruncMax(t))}
classic_trunc_i64(t, src, f) == {DEF_OP_TRUNC(t, f, TruncMin(t, src), TruncMax(t))}
fast_trunc_i32(t, src, f) == {DEF_OP_TRUNC(t, f, TruncMin(t, src), TruncMax(t))}
fast_trunc_i64(t, src, f) == {DEF_OP_TRUNC(t, f, TruncMin(t, src), TruncMax(t))}
\* I64_EXTEND_S_I32, I64_EXTEND_U_I32 and I32_WRAP_I64.
DEF_OP_CONVERT(op, a) ==
  {Val(CASE op = "extend_s" -> Fit("int64", As("int32", a))
         [] op = "extend_u" -> Fit("int64", As("uint32", a))
         [] op = "wrap" -> Fit("int32", a))}

----------------------------------------------------------------------------
(* Memory.  The heap of the application lies below address 0 of the linear *)
(* memory: heap_base is negative, total is the size of both together.      *)

\* op |-> bytes, whether the value is sign extended, type of the operand stack.
Loads ==
  [i32_load |-> <<4, FALSE, "int32">>, i64_load |-> <<8, FALSE, "int64">>,
   i32_load8_s |-> <<1, TRUE, "int32">>, i32_load8_u |-> <<1, FALSE, "int32">>,
   i32_load16_s |-> <<2, TRUE, "int32">>, i32_load16_u |-> <<2, FALSE, "int32">>,
   i64_load8_s |-> <<1, TRUE, "int64">>, i64_load8_u |-> <<1, FALSE, "int64">>,
   i64_load16_s |-> <<2, TRUE, "int64">>, i64_load16_u |-> <<2, FALSE, "int64">>,
   i64_load32_s |-> <<4, TRUE, "int64">>, i64_load32_u |-> <<4, FALSE, "int64">>]
Stores ==
  [i32_store |-> <<4, "int32">>, i32_store8 |-> <<1, "int32">>, i32_store16 |-> <<2, "int32">>,
   i64_store |-> <<8, "int64">>, i64_store8 |-> <<1, "int64">>, i64_store16 |-> <<2, "int64">>,
   i64_store32 |-> <<4, "int64">>]

Signed32(v) == LET u == v % AddrMod IN IF u >= AddrMod \div 2 THEN u - AddrMod ELSE u
MutLastByteRefused(offset, addr, bytes, heap_base, total) ==
  LET offset1 == Signed32(offset + addr) IN
  IF ((offset1 - heap_base) % AddrMod) + bytes < total THEN {offset1} ELSE {}
\* CHECK_MEMORY_OVERFLOW: the address that is accessed, or no address.
CHECK_MEMORY_OVERFLOW(offset, addr, bytes, heap_base, total) ==
  LET offset1 == Signed32(offset + addr)
      offset2 == (offset1 - heap_base) % AddrMod
  IN IF offset2 + bytes <= total THEN {offset1} ELSE {}

LoadBytes(mem, at, bytes) ==
  LET sum[k \in 0..bytes] == IF k = 0 THEN 0 ELSE sum[k - 1] + mem[at + k - 1] * Byte^(k - 1)
  IN sum[bytes]
StoreBytes(mem, at, bytes, v) ==
  [x \in DOMAIN mem |-> IF x \in at..at + bytes - 1 THEN (v \div Byte^(x - at)) % Byte ELSE mem[x]]
Extend(v, bytes, sign, t) ==
  IF sign /\ v >= Byte^bytes \div 2 THEN Fit(t, v - Byte^bytes) ELSE v

\* The handlers: the value loaded, or the memory after the store; {} is a trap.
classic_load(op, mem, offset, addr, heap_base, total) ==
  LET l == Loads[op] IN
  {Extend(LoadBytes(mem, at, l[1]), l[1], l[2], l[3]) :
     at \in CHECK_MEMORY_OVERFLOW(offset, addr, l[1], heap_base, total)}
fast_load(op, mem, offset, addr, heap_base, total) ==
  LET l == Loads[op] IN
  {Extend(LoadBytes(mem, at, l[1]), l[1], l[2], l[3]) :
     at \in CHECK_MEMORY_OVERFLOW(offset, addr, l[1], heap_base, total)}
classic_store(op, mem, offset, addr, v, heap_base, total) ==
  {StoreBytes(mem, at, Stores[op][1], v) :
     at \in CHECK_MEMORY_OVERFLOW(offset, addr, Stores[op][1], heap_base, total)}
fast_store(op, mem, offset, addr, v, heap_base, total) ==
  {StoreBytes(mem, at, Stores[op][1], v) :
     at \in CHECK_MEMORY_OVERFLOW(offset, addr, Stores[op][1], heap_base, total)}
=============================================================================
