----------------------------- MODULE WasmOpsAot -----------------------------
(***************************************************************************)
(* The operators in the code of the ahead-of-time compiler                 *)
(* (aot_emit_numberic.c, aot_emit_compare.c, aot_emit_conversion.c,        *)
(* aot_emit_memory.c).  The compiler emits other code when an operand is a *)
(* constant, so every operand comes with the question whether it is one.   *)
(* What an LLVM instruction computes is external; a shift by the width or  *)
(* more and a division that overflows are undefined.                       *)
(***************************************************************************)
EXTENDS WasmOps

Poison(t) == {Val(v) : v \in Word(t)}
\* SDiv, UDiv, SRem, URem
LLVMDiv(op, t, a, b) ==
  LET x == As(t, a)
      y == As(t, b)
  IN IF y = 0 \/ (t = SignedOf(t) /\ x = MinInt(t) /\ y = -1) THEN Poison(t)
     ELSE {Val(Fit(t, IF op \in {"div_s", "div_u"} THEN Quot(x, y) ELSE Rem(x, y)))}
LLVMOp(c, t, a, b) == CNumeric(c, t, As(t, a), b)
DivType(op, u) == IF op \in {"div_s", "rem_s"} THEN SignedOf(u) ELSE u

int_cond_to_llvm_op ==
  [eqz |-> <<"u", "==">>, eq |-> <<"u", "==">>, ne |-> <<"u", "!=">>, lt_s |-> <<"s", "<">>,
   lt_u |-> <<"u", "<">>, gt_s |-> <<"s", ">">>, gt_u |-> <<"u", ">">>, le_s |-> <<"s", "<=">>,
   le_u |-> <<"u", "<=">>, ge_s |-> <<"s", ">=">>, ge_u |-> <<"u", ">=">>]
\* The predicates are ordered, of a NaN false, but for une.
float_cond_to_llvm_op == [eq |-> "==", ne |-> "!=", lt |-> "<", gt |-> ">", le |-> "<=", ge |-> ">="]

aot_compile_op_int_compare(op, u, a, b) ==
  LET p == int_cond_to_llvm_op[op]
      t == IF p[1] = "s" THEN SignedOf(u) ELSE u
  IN {Val(Truth(Cond(p[2], As(t, a), IF op = "eqz" THEN 0 ELSE As(t, b))))}
aot_compile_op_float_compare(op, f, g) == {Val(Truth(FCond(float_cond_to_llvm_op[op], f, g)))}

\* llvm.ctlz, llvm.cttz with zero_undef false, and llvm.ctpop.
aot_compile_int_bit_count(op, u, a) == {IntRef(op, u, a, 0)}

MutRemOverflows(u, a, b) == LLVMDiv("rem_s", SignedOf(u), a, b)
\* overflow_cond selects the zero of the phi.
compile_rems(u, a, b) ==
  IF As(SignedOf(u), a) = MinInt(SignedOf(u)) /\ As(SignedOf(u), b) = -1 THEN {Val(0)}
  ELSE LLVMDiv("rem_s", SignedOf(u), a, b)

\* const: the divisor is a constant.
compile_int_div(op, u, a, b, const) ==
  LET s == SignedOf(u)
      y == As(s, b)
      div == op \in {"div_s", "div_u"}
      min == As(s, a) = MinInt(s)
      build == LLVMDiv(op, DivType(op, u), a, b)
  IN CASE b = 0 -> {Trap(DivZero)}
       [] const /\ y = 1 -> {Val(IF div THEN a ELSE 0)}
       [] const /\ y = -1 /\ op = "div_s" -> IF min THEN {Trap(Overflow)} ELSE {Val(Fit(s, -a))}
       [] const /\ y = -1 /\ op = "rem_s" -> {Val(0)}
       [] const /\ y \notin {0, 1} /\ (y = -1 => op \in {"div_u", "rem_u"}) -> build
       [] ~const /\ b # 0 /\ op = "div_s" -> IF min /\ y = -1 THEN {Trap(Overflow)} ELSE build
       [] ~const /\ b # 0 /\ op = "rem_s" -> compile_rems(u, a, b)
       [] ~const /\ b # 0 /\ op \in {"div_u", "rem_u"} -> build

compile_int_add(u, a, b, ca, cb) ==
  IF ca /\ a = 0 THEN {Val(b)} ELSE IF cb /\ b = 0 THEN {Val(a)} ELSE LLVMOp("+", u, a, b)
compile_int_sub(u, a, b, cb) == IF cb /\ b = 0 THEN {Val(a)} ELSE LLVMOp("-", u, a, b)
compile_int_mul(u, a, b, ca, cb) ==
  IF (ca /\ a = 0) \/ (cb /\ b = 0) THEN {Val(0)} ELSE LLVMOp("*", u, a, b)

compile_op_int_arithmetic(op, u, a, b, ca, cb) ==
  CASE op = "add" -> compile_int_add(u, a, b, ca, cb)
    [] op = "sub" -> compile_int_sub(u, a, b, cb)
    [] op = "mul" -> compile_int_mul(u, a, b, ca, cb)
    [] OTHER -> compile_int_div(op, u, a, b, cb)

compile_op_int_bitwise(op, u, a, b) ==
  CASE op = "and" -> LLVMOp("&", u, a, b) [] op = "or" -> LLVMOp("|", u, a, b)
    [] op = "xor" -> LLVMOp("^", u, a, b)

SHIFT_COUNT_MASK(u, b) == b & (Width(u) - 1)
compile_int_shl(u, a, b) == LLVMOp("<<", u, a, SHIFT_COUNT_MASK(u, b))
compile_int_shr_s(u, a, b) == LLVMOp(">>", SignedOf(u), a, SHIFT_COUNT_MASK(u, b))
compile_int_shr_u(u, a, b) == LLVMOp(">>", u, a, SHIFT_COUNT_MASK(u, b))
\* The two halves of the word, shifted by count and by BITS - count.
compile_int_rot(u, a, b, is_rotl) ==
  LET count == SHIFT_COUNT_MASK(u, b)
      rest == Width(u) - count
      l == IF is_rotl THEN LLVMOp("<<", u, a, count) ELSE LLVMOp(">>", u, a, count)
      r == IF is_rotl THEN LLVMOp(">>", u, a, rest) ELSE LLVMOp("<<", u, a, rest)
  IN IF Cardinality(r) > 1 THEN Poison(u) ELSE {Val(x.v | y.v) : x \in l, y \in r}

compile_op_int_shift(op, u, a, b) ==
  CASE op = "shl" -> compile_int_shl(u, a, b) [] op = "shr_s" -> compile_int_shr_s(u, a, b)
    [] op = "shr_u" -> compile_int_shr_u(u, a, b)
    [] op = "rotl" -> compile_int_rot(u, a, b, TRUE)
    [] op = "rotr" -> compile_int_rot(u, a, b, FALSE)

\* minnum and maxnum may return either of two equal operands; those are combined
\* bit by bit, so that the sign of the result is the or, the and, of the signs.
compile_op_float_min_max(op, f, g) ==
  IF f.nan \/ g.nan THEN {NaN}
  ELSE IF Num(f) = Num(g)
  THEN {[f EXCEPT !.neg = IF op = "min" THEN f.neg \/ g.neg ELSE f.neg /\ g.neg]}
  ELSE IF op = "min" THEN fmin_of(f, g)
  ELSE {[c EXCEPT !.neg = ~@] : c \in fmax_of(f, g)}
\* The LLVM intrinsics fabs, ceil, floor, trunc and rint, and the negation.
compile_op_float_math(op, f) ==
  IF op = "neg" THEN {[f EXCEPT !.neg = ~@]} ELSE {DEF_OP_MATH(op, f)}
compile_float_copysign(f, g) == {[f EXCEPT !.neg = g.neg]}

trunc_float_to_int(t, f, min_value, max_value) ==
  IF f.nan THEN {Trap(Invalid)}
  ELSE IF Num(f) <= min_value \/ Num(f) >= max_value THEN {Trap(Overflow)}
  ELSE {Val(Fit(t, Quot(Num(f), 2)))}
aot_compile_op_i32_trunc(t, src, f) == trunc_float_to_int(t, f, TruncMin(t, src), TruncMax(t))
aot_compile_op_i64_trunc(t, src, f) == trunc_float_to_int(t, f, TruncMin(t, src), TruncMax(t))
aot_compile_op_extend_wrap(op, a) ==
  {Val(CASE op = "extend_s" -> Fit("int64", As("int32", a)) [] op = "extend_u" -> a
         [] op = "wrap" -> a % 2^W32)}

----------------------------------------------------------------------------
(* Memory.  bound is mem_check_bound: the total size less the bytes; const *)
(* tells whether the address is a constant, init is the initial size.      *)

get_memory_check_bound(bytes, total) == (total - bytes) % AddrMod
check_memory_overflow(offset, addr, bytes, heap_base, total, init, const) ==
  LET offset1 == (offset + addr) % AddrMod
      offset2 == (offset1 - heap_base) % AddrMod
  IN IF const /\ init > 0 /\ offset1 <= (init - bytes) % AddrMod THEN {Signed32(offset1)}
     ELSE IF (init = 0 /\ total = 0) \/ offset2 > get_memory_check_bound(bytes, total) THEN {}
     ELSE {Signed32(offset1)}

aot_compile_op_load(op, mem, offset, addr, heap_base, total, init, const) ==
  LET l == Loads[op] IN
  {Extend(LoadBytes(mem, at, l[1]), l[1], l[2], l[3]) :
     at \in check_memory_overflow(offset, addr, l[1], heap_base, total, init, const)}
aot_compile_op_store(op, mem, offset, addr, v, heap_base, total, init, const) ==
  {StoreBytes(mem, at, Stores[op][1], v) :
     at \in check_memory_overflow(offset, addr, Stores[op][1], heap_base, total, init, const)}
=============================================================================
