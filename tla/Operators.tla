----------------------------- MODULE Operators -----------------------------
(***************************************************************************)
(* One instruction executed by the three engines.  The operands are what   *)
(* any code may push, so they are chosen freely; ca and cb tell whether    *)
(* the compiler sees a constant.                                           *)
(***************************************************************************)
EXTENDS WasmOpsAot

CONSTANTS
  Words,      \* operands, by C type
  Mags,       \* magnitudes of floats, in halves
  Memories,   \* [heap: heap_base, size, init: initial size]
  Offsets,    \* offsets of loads and stores
  Contents    \* bytes of the memory, by address

VARIABLES
  instr,   \* the instruction and its operands
  out      \* its outcomes: ref, classic, fast and aot
opVars == <<instr, out>>

Idle == [kind |-> "none"]
OpInit == instr = Idle /\ out = Idle

Compares == DOMAIN IntCompare("uint32", "int32") \cup {"eqz"}
Arithmetic == {"add", "sub", "mul", "div_s", "div_u", "rem_s", "rem_u"}
Bitwises == {"and", "or", "xor"}
Shifts == {"shl", "shr_s", "shr_u", "rotl", "rotr"}
BitCounts == {"clz", "ctz", "popcnt"}
Floats == {NaN} \cup {Float(n, m) : n \in BOOLEAN, m \in Mags}

AotInt(op, t, a, b, ca, cb) ==
  CASE op \in Compares -> aot_compile_op_int_compare(op, t, a, b)
    [] op \in Arithmetic -> compile_op_int_arithmetic(op, t, a, b, ca, cb)
    [] op \in Bitwises -> compile_op_int_bitwise(op, t, a, b)
    [] op \in Shifts -> compile_op_int_shift(op, t, a, b)
    [] op \in BitCounts -> aot_compile_int_bit_count(op, t, a)

Integer(op, t, a, b, ca, cb) ==
  /\ instr' = [kind |-> "int", op |-> op, t |-> t, a |-> a, b |-> b, const |-> <<ca, cb>>]
  /\ out' = [ref |-> IntRef(op, t, a, b),
             classic |-> CASE op \in Compares /\ t = "uint32" -> classic_I32_compare(op, a, b)
                           [] op \in Compares /\ t = "uint64" -> classic_I64_compare(op, a, b)
                           [] op \notin Compares /\ t = "uint32" -> classic_I32_numeric(op, a, b)
                           [] op \notin Compares /\ t = "uint64" -> classic_I64_numeric(op, a, b),
             fast |-> CASE op \in Compares /\ t = "uint32" -> fast_I32_compare(op, a, b)
                        [] op \in Compares /\ t = "uint64" -> fast_I64_compare(op, a, b)
                        [] op \notin Compares /\ t = "uint32" -> fast_I32_numeric(op, a, b)
                        [] op \notin Compares /\ t = "uint64" -> fast_I64_numeric(op, a, b),
             aot |-> AotInt(op, t, a, b, ca, cb)]

FloatCompares(op, wide, f, g) ==
  /\ instr' = [kind |-> "fcmp", op |-> op, wide |-> wide, f |-> f, g |-> g]
  /\ out' = [ref |-> FCompareRef(op, f, g),
             classic |-> IF wide THEN classic_F64_compare(op, f, g)
                                 ELSE classic_F32_compare(op, f, g),
             fast |-> IF wide THEN fast_F64_compare(op, f, g) ELSE fast_F32_compare(op, f, g),
             aot |-> aot_compile_op_float_compare(op, f, g)]

FloatUnaries(op, wide, f) ==
  /\ instr' = [kind |-> "funary", op |-> op, wide |-> wide, f |-> f]
  /\ out' = [ref |-> FloatRef(op, f, f),
             classic |-> IF wide THEN classic_F64_unary(op, f) ELSE classic_F32_unary(op, f),
             fast |-> IF wide THEN fast_F64_unary(op, f) ELSE fast_F32_unary(op, f),
             aot |-> compile_op_float_math(op, f)]

FloatBinaries(op, wide, f, g) ==
  /\ instr' = [kind |-> "fbinary", op |-> op, wide |-> wide, f |-> f, g |-> g]
  /\ out' = [ref |-> FloatRef(op, f, g),
             classic |-> IF wide THEN classic_F64_binary(op, f, g) ELSE classic_F32_binary(op, f, g),
             fast |-> IF wide THEN fast_F64_binary(op, f, g) ELSE fast_F32_binary(op, f, g),
             aot |-> IF op = "copysign" THEN compile_float_copysign(f, g)
                     ELSE compile_op_float_min_max(op, f, g)]

\* A float32 beyond the integers of the target is a multiple of Gran, as is a
\* float64 where the target is an i64.
Representable(t, src, f) ==
  (t \in {"int64", "uint64"} \/ src = "float32") /\ f.mag >= 2 * 2^(Width(t) - 1)
    => f.mag % (2 * Gran) = 0
Truncate(t, src, f) ==
  /\ Representable(t, src, f)
  /\ instr' = [kind |-> "trunc", t |-> t, src |-> src, f |-> f]
  /\ LET wide == t \in {"int64", "uint64"} IN
     out' = [ref |-> TruncRef(t, f),
             classic |-> IF wide THEN classic_trunc_i64(t, src, f) ELSE classic_trunc_i32(t, src, f),
             fast |-> IF wide THEN fast_trunc_i64(t, src, f) ELSE fast_trunc_i32(t, src, f),
             aot |-> IF wide THEN aot_compile_op_i64_trunc(t, src, f)
                     ELSE aot_compile_op_i32_trunc(t, src, f)]

Convert(op, a) ==
  /\ instr' = [kind |-> "convert", op |-> op, a |-> a]
  /\ out' = [ref |-> ConvertRef(op, a), classic |-> DEF_OP_CONVERT(op, a),
             fast |-> DEF_OP_CONVERT(op, a), aot |-> aot_compile_op_extend_wrap(op, a)]

OpLoad(op, m, mem, offset, addr, const) ==
  LET total == m.size - m.heap IN
  /\ instr' = [kind |-> "load", op |-> op, m |-> m, mem |-> mem, offset |-> offset, addr |-> addr,
               const |-> const]
  /\ out' = [classic |-> classic_load(op, mem, offset, addr, m.heap, total),
             fast |-> fast_load(op, mem, offset, addr, m.heap, total),
             aot |-> aot_compile_op_load(op, mem, offset, addr, m.heap, total, m.init, const)]

OpStore(op, m, mem, offset, addr, v, const) ==
  LET total == m.size - m.heap IN
  /\ instr' = [kind |-> "store", op |-> op, m |-> m, mem |-> mem, offset |-> offset, addr |-> addr,
               v |-> v, const |-> const]
  /\ out' = [classic |-> classic_store(op, mem, offset, addr, v, m.heap, total),
             fast |-> fast_store(op, mem, offset, addr, v, m.heap, total),
             aot |-> aot_compile_op_store(op, mem, offset, addr, v, m.heap, total, m.init, const)]

MemoryOf(m, c) == [x \in m.heap..m.size - 1 |-> c[x]]
\* The program stops after one instruction.
OpNext ==
  /\ instr = Idle
  /\ \/ \E t \in {"uint32", "uint64"} : \E op \in Compares \cup Arithmetic \cup Bitwises \cup Shifts,
          a, b \in Words[t], ca, cb \in BOOLEAN : Integer(op, t, a, b, ca, cb)
     \/ \E op \in BitCounts, t \in {"uint32", "uint64"} : \E a \in Words[t] :
          Integer(op, t, a, 0, FALSE, FALSE)
     \/ \E op \in DOMAIN FloatConds, wide \in BOOLEAN, f, g \in Floats : FloatCompares(op, wide, f, g)
     \/ \E op \in {"abs", "neg", "ceil", "floor", "trunc", "nearest"}, wide \in BOOLEAN, f \in Floats :
          FloatUnaries(op, wide, f)
     \/ \E op \in {"min", "max", "copysign"}, wide \in BOOLEAN, f, g \in Floats :
          FloatBinaries(op, wide, f, g)
     \/ \E t \in {"int32", "uint32", "int64", "uint64"}, src \in {"float32", "float64"}, f \in Floats :
          Truncate(t, src, f)
     \/ \E op \in {"extend_s", "extend_u"}, a \in Words["uint32"] : Convert(op, a)
     \/ \E a \in Words["uint64"] : Convert("wrap", a)
     \/ \E op \in DOMAIN Loads, m \in Memories, c \in Contents, offset \in Offsets, addr \in 0..AddrMod - 1,
           const \in BOOLEAN : OpLoad(op, m, MemoryOf(m, c), offset, addr, const)
     \/ \E op \in DOMAIN Stores, m \in Memories, c \in Contents, offset \in Offsets, addr \in 0..AddrMod - 1,
           v \in {0, 1, 2^W64 - 2}, const \in BOOLEAN :
          OpStore(op, m, MemoryOf(m, c), offset, addr, Fit(Stores[op][2], v), const)

----------------------------------------------------------------------------
Same(x, y) == x = y \/ ("nan" \in DOMAIN x /\ "nan" \in DOMAIN y /\ x.nan /\ y.nan)
Computes == instr.kind \in {"int", "fcmp", "funary", "fbinary", "trunc", "convert"}

\* The handlers of the classic interpreter compute what the standard defines,
\* value or trap, and depend on no undefined behaviour of C.
ClassicMatches == Computes => \A r \in out.classic : Same(r, out.ref)

\* So do those of the fast interpreter and the code of the compiler, but for what
\* C and LLVM leave undefined: in the fast interpreter an arithmetic shift whose
\* count is negative as a signed number, in compiled code a rotation by a multiple
\* of the width.
FastAndAotMatch ==
  Computes =>
    /\ (\A r \in out.fast : Same(r, out.ref))
         \/ (instr.op = "shr_s" /\ As(SignedOf(instr.t), instr.b) < 0)
    /\ (\A r \in out.aot : Same(r, out.ref))
         \/ (instr.op \in {"rotl", "rotr"} /\ instr.b % Width(instr.t) = 0)

\* The three engines compute what the standard defines, so far as C and LLVM let
\* them: the constants, the special cases of division and shifts, the conversions
\* and the rules for NaN and signed zero.
OperatorsMatch == ClassicMatches /\ FastAndAotMatch

\* A load or a store that is granted stays between the base of the heap and the
\* end of the memory, its value has the bytes at the address, and the constant
\* address of compiled code is granted the same as a computed one.
MemoryMatches ==
  instr.kind \in {"load", "store"} =>
    LET at == Signed32(instr.offset + instr.addr)
        bytes == IF instr.kind = "load" THEN Loads[instr.op][1] ELSE Stores[instr.op][1]
        inside == at \in instr.m.heap..instr.m.size - bytes
        bits == [k \in 0..bytes - 1 |-> instr.mem[at + k]]
        outcomes == out.classic \cup out.fast \cup out.aot
    IN /\ (out.classic = {}) = ~inside /\ (out.fast = {}) = ~inside /\ (out.aot = {}) = ~inside
       /\ instr.kind = "load" =>
            \A r \in outcomes :
              \A k \in 0..7 : Bit(r \div Byte^k, 0) =
                IF k < bytes THEN bits[k]
                ELSE IF Loads[instr.op][2] /\ k < (IF Loads[instr.op][3] = "int64" THEN 8 ELSE 4)
                THEN bits[bytes - 1] ELSE 0
       /\ instr.kind = "store" =>
            \A r \in outcomes : \A x \in DOMAIN r :
              r[x] = IF x \in at..at + bytes - 1 THEN (instr.v \div Byte^(x - at)) % Byte
                     ELSE instr.mem[x]
=============================================================================
