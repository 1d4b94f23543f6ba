----------------------------- MODULE WasmCalls -----------------------------
(***************************************************************************)
(* What an embedder and compiled code ask of an instance, in the           *)
(* interpreter and in AOT code: addresses checked and translated, calls    *)
(* through the table, and the application's main function.  An address     *)
(* space is [heap, size, base]: heap bytes below the linear memory, size   *)
(* bytes of it, at the native address base.                                *)
(***************************************************************************)
EXTENDS AotModule

CONSTANT Half          \* 2^31, reduced: int32 holds -Half..Half - 1

Int32(n) == ((n + Half) % (2 * Half)) - Half

----------------------------------------------------------------------------
(* Addresses.  The interpreter multiplies its page count when asked, AOT   *)
(* code keeps the size.                                                    *)

DataSize(inst) == Int32(Len(inst.memory))
Space(inst, base) == [heap |-> inst.heap, size |-> DataSize(inst), base |-> base]

MutNoWrapTest(a, off, size) ==
  LET end == Int32(off + Int32(size)) IN off > -a.heap /\ end <= a.size
wasm_validate_app_addr(a, off, size) ==
  LET end == Int32(off + Int32(size)) IN end >= off /\ off > -a.heap /\ end <= a.size
aot_validate_app_addr(a, off, size) ==
  LET end == Int32(off + Int32(size)) IN end >= off /\ ~(off <= -a.heap \/ end > a.size)
wasm_validate_native_addr(a, p, size) == p > a.base - a.heap /\ p + size <= a.base + a.size
aot_validate_native_addr(a, p, size) == ~(p <= a.base - a.heap \/ p + size > a.base + a.size)
wasm_addr_app_to_native(a, off) == IF -a.heap < off /\ off < a.size THEN a.base + off ELSE 0
aot_addr_app_to_native(a, off) == IF -a.heap < off /\ off < a.size THEN a.base + off ELSE 0
wasm_addr_native_to_app(a, p) ==
  IF a.base - a.heap < p /\ p < a.base + a.size THEN p - a.base ELSE 0
aot_addr_native_to_app(a, p) ==
  IF a.base - a.heap < p /\ p < a.base + a.size THEN p - a.base ELSE 0
wasm_get_app_addr_range(a, off) ==
  IF -a.heap < off /\ off < a.size THEN <<-a.heap, a.size>> ELSE <<>>
aot_get_app_addr_range(a, off) ==
  IF -a.heap < off /\ off < a.size THEN <<-a.heap, a.size>> ELSE <<>>
wasm_get_native_addr_range(a, p) ==
  IF a.base - a.heap < p /\ p < a.base + a.size THEN <<a.base - a.heap, a.base + a.size>> ELSE <<>>
aot_get_native_addr_range(a, p) ==
  IF a.base - a.heap < p /\ p < a.base + a.size THEN <<a.base - a.heap, a.base + a.size>> ELSE <<>>
\* A string must end before the memory does; bytes is the memory, and the
\* string does not start in the heap below it.
wasm_runtime_validate_app_str_addr(a, bytes, off) ==
  /\ wasm_get_app_addr_range(a, off) # <<>>
  /\ \E k \in off..a.size - 1 : bytes[k + 1] = 0

----------------------------------------------------------------------------
(* memory.grow: what the program gets, and the instance; memory is the     *)
(* verdict of the allocator, and moving the heap never fails (gc_migrate). *)
(* The build defines EVAL_NO_AEROGEL as 1: wasm_instantiate leaves         *)
(* access_control NULL, and the interpreter's wasm_enlarge_memory reads    *)
(* through it before it looks at anything else.                            *)

wasm_enlarge_memory == "reads through NULL"

Uint32(n) == n % (2 * Half)
Refuses(pages, total, lim, size, memory) ==
  total < pages \/ total > lim.max \/ size >= 2 * Half - 1 \/ ~memory

aot_enlarge_memory(inst, lim, inc, memory) ==
  LET pages == Len(inst.memory) \div lim.page
      total == Uint32(pages + inc)
  IN CASE inc = 0 -> [ok |-> TRUE, inst |-> inst]
       [] inc > 0 /\ Refuses(pages, total, lim, inst.heap + lim.page * total, memory) ->
            [ok |-> FALSE, inst |-> inst]
       [] OTHER ->
            [ok |-> TRUE, inst |-> [inst EXCEPT !.memory = @ \o [k \in 1..lim.page * inc |-> 0]]]
get_memory_size(inst, lim) == Len(inst.memory) \div lim.page
aot_compile_op_memory_grow(inst, lim, inc, memory) ==
  LET r == aot_enlarge_memory(inst, lim, inc, memory)
  IN [ret |-> IF r.ok THEN get_memory_size(inst, lim) ELSE -1, inst |-> r.inst]

----------------------------------------------------------------------------
(* call_indirect: the exception, or the function called.                   *)

SameType(t, u) == t.params = u.params /\ t.results = u.results
wasm_call_indirect_op(m, inst, type, val) ==
  LET v == Int32(val) IN
  CASE type >= Len(m.types) -> "type index is overflow"
    [] type < Len(m.types) /\ (v < 0 \/ v >= Len(inst.table)) -> "undefined element"
    [] OTHER ->
         LET f == inst.table[v + 1] IN
         IF f = None THEN "uninitialized element"
         ELSE IF SameType(m.types[type + 1], FuncType(m, f)) THEN <<"calls", f>>
         ELSE "type mismatch"
aot_is_wasm_type_equal(m, t, u) ==
  /\ t < Len(m.types) /\ u < Len(m.types)
  /\ t = u \/ SameType(m.types[t + 1], m.types[u + 1])
aot_call_indirect(m, inst, type, val) ==
  CASE val >= Len(inst.table) -> "undefined element"
    [] OTHER ->
         LET f == inst.table[val + 1] IN
         IF f = None THEN "uninitialized element"
         ELSE IF aot_is_wasm_type_equal(m, type, inst.types[f + 1]) THEN <<"calls", f>>
         ELSE "type mismatch"
\* A type that is not there stops the compilation.
aot_compile_op_call_indirect(c, type) == type < Len(c.types)

----------------------------------------------------------------------------
(* The application's main function: the exception, or the function and the *)
(* number of its arguments.                                                *)

FuncExports(m) == Of(m.exports, LAMBDA e : e.kind = "func")
First(exports, names) ==
  LET hits == Of(exports, LAMBDA e : e.name \in names) IN
  IF hits = <<>> THEN None ELSE hits[1].index
is_wasi_mode(imports) ==
  \E i \in DOMAIN imports : imports[i].module \in {"wasi_unstable", "wasi_snapshot_preview1"}
resolve_main_function(exports) == First(exports, {"_main", "main"})
check_main_func_type(t) == t.params \in {0, 2} /\ t.results <= 1
lookup_wasi_start_function(exports, Type(_)) ==
  LET f == First(exports, {"_start"}) IN
  IF f # None /\ Type(f).params = 0 /\ Type(f).results = 0 THEN f ELSE None

execute_main(wasi, exports, imports, Type(_)) ==
  LET start == IF wasi THEN lookup_wasi_start_function(exports, Type) ELSE None
      main == resolve_main_function(exports)
  IN CASE start # None -> <<"calls", start, 0>>
       [] start = None /\ (main = None \/ main < imports) -> "lookup main function failed"
       [] OTHER -> IF check_main_func_type(Type(main)) THEN <<"calls", main, Type(main).params>>
                   ELSE "invalid function type of main function"
wasm_application_execute_main(m) ==
  execute_main(is_wasi_mode(Imports(m, "func")), FuncExports(m), Len(Imports(m, "func")),
               LAMBDA f : FuncType(m, f))
aot_application_execute_main(m) ==
  LET n == Len(m.import_funcs) IN
  execute_main(is_wasi_mode(m.import_funcs), m.exports, n,
               LAMBDA f : m.types[1 + IF f < n THEN m.import_funcs[f + 1].type ELSE m.funcs[f - n + 1]])

\* A function named by the embedder, given a number of arguments.
execute_func(exports, imports, Type(_), n, args) ==
  LET f == First(exports, {n}) IN
  CASE f = None \/ f < imports -> "lookup function failed"
    [] OTHER -> IF Type(f).params = args THEN <<"calls", f, args>> ELSE "invalid input argument count"
wasm_application_execute_func(m, n, args) ==
  execute_func(FuncExports(m), Len(Imports(m, "func")), LAMBDA f : FuncType(m, f), n, args)
aot_application_execute_func(m, n, args) ==
  LET k == Len(m.import_funcs) IN
  execute_func(m.exports, k, LAMBDA f : m.types[1 + m.funcs[f - k + 1]], n, args)
=============================================================================
