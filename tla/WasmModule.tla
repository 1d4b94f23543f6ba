----------------------------- MODULE WasmModule -----------------------------
(***************************************************************************)
(* A WebAssembly binary read into a WASMModule (wasm_loader.c) and its     *)
(* instance in the interpreter (wasm_runtime.c).  A loader is a record l:  *)
(* whether it still succeeds, the allocations up to the one that fails,     *)
(* what it has allocated, and the module so far.  A section is the         *)
(* sequence of its entries; cut says that its bytes end too early or too   *)
(* late.  Function bodies are the WasmLoader module's: here a body is valid*)
(* or not, and may grow the memory.                                        *)
(***************************************************************************)
EXTENDS Integers, Sequences, FiniteSets, SequencesExt

CONSTANTS
  PageSize,       \* DEFAULT_NUM_BYTES_PER_PAGE
  PoolPages,      \* pages the memory pool allows an application
  HeapMin,        \* APP_HEAP_SIZE_MIN
  HeapMax,        \* APP_HEAP_SIZE_MAX
  HeapDefault,    \* APP_HEAP_SIZE_DEFAULT
  NativeGlobals   \* value of every global libc-builtin defines, by module and name

ASSUME SizesAssumption ==
  /\ {PageSize, PoolPages, HeapMin, HeapMax, HeapDefault} \subseteq Nat \ {0}
  /\ HeapMin <= HeapDefault /\ HeapDefault <= HeapMax

None == -1                          \* the start function that is not there
Align(n, b) == ((n + b - 1) \div b) * b
Lesser(a, b) == IF a < b THEN a ELSE b
Greater(a, b) == IF a < b THEN b ELSE a
Of(s, Test(_)) == SelectSeq(s, Test)

Refuse(l) == [l EXCEPT !.ok = FALSE]
Check(l, c) == IF c THEN l ELSE Refuse(l)

Then(l, Op(_)) == IF l.ok THEN Op(l) ELSE l

\* The allocation after l.left others fails, and no later one.
Alloc(l, what) ==
  CASE ~l.ok -> l
    [] l.ok /\ l.left = 0 -> [l EXCEPT !.ok = FALSE, !.left = -1]
    [] OTHER -> [l EXCEPT !.left = @ - 1, !.held = @ \cup {what}]

\* The entries of a section in their order, until one is refused.
ForEach(One(_, _, _), l, items) ==
  LET f[i \in 0..Len(items)] ==
        IF i = 0 \/ ~l.ok THEN l
        ELSE LET before == f[i - 1] IN IF before.ok THEN One(before, i, items[i]) ELSE before
  IN f[Len(items)]

\* const_str_list_insert: a name is stored once.
Name(l, n) == IF ~l.ok \/ <<"str", n>> \in l.held THEN l ELSE Alloc(l, <<"str", n>>)

Blank == [types |-> <<>>, imports |-> <<>>, functions |-> <<>>, tables |-> <<>>,
          memories |-> <<>>, globals |-> <<>>, exports |-> <<>>, elems |-> <<>>,
          datas |-> <<>>, start |-> None, grow |-> FALSE,
          aux |-> [data_end |-> 0, bottom |-> 0, size |-> 0, global |-> 0]]

create_module(quota) ==
  Alloc([ok |-> TRUE, left |-> quota, held |-> {}, m |-> Blank, wild |-> FALSE], <<"module">>)

----------------------------------------------------------------------------
(* What a module holds, imports before definitions.                        *)

Imports(m, k) == Of(m.imports, LAMBDA im : im.kind = k)
Count(m, k) ==
  Len(Imports(m, k)) + CASE k = "func" -> Len(m.functions) [] k = "table" -> Len(m.tables)
                         [] k = "memory" -> Len(m.memories) [] k = "global" -> Len(m.globals)

----------------------------------------------------------------------------
(* The sections.  An index counts from 0, as in the binary.                *)

load_type_section(l, sec) ==
  LET array == IF sec.items = <<>> THEN l ELSE Alloc(l, <<"types">>)
      one(a, i, t) ==
        LET checked == Alloc(Check(a, t.results <= 1), <<"type", i>>)
        IN [checked EXCEPT !.m.types = IF checked.ok THEN Append(@, t) ELSE @]
  IN Check(ForEach(one, array, sec.items), ~sec.cut)

load_table(t) == [size |-> t.size, max |-> IF t.max = None THEN 65536 ELSE t.max]
load_memory(mem) ==
  [page |-> PageSize, init |-> mem.init,
   max |-> IF mem.max = None THEN PoolPages ELSE Lesser(mem.max, PoolPages)]

\* The first pass counts the imports of every kind and refuses a second table
\* or memory; the names of the modules the runtime knows are stored.
ScanImports(l, sec) ==
  LET array == IF sec.items = <<>> THEN l ELSE Alloc(l, <<"imports">>)
      few(k) == Len(Of(sec.items, LAMBDA im : im.kind = k)) <= 1
      scanned == Check(array, few("table") /\ few("memory"))
  IN IF sec.items = <<>> THEN scanned
     ELSE Name(Name(Name(scanned, "env"), "wasi_unstable"), "wasi_snapshot_preview1")

\* The second links functions and globals.  A function that is not found is left
\* for the call to report.
load_import_section(l, sec) ==
  LET one(a, i, im) ==
        LET named == Name(Name(a, im.module), im.name)
            linked == Check(named,
                        CASE im.kind = "func" -> im.type < Len(a.m.types)
                          [] im.kind = "global" -> <<im.module, im.name>> \in DOMAIN NativeGlobals
                          [] OTHER -> TRUE)
            read == CASE im.kind = "table" -> [im EXCEPT !.limits = load_table(@)]
                      [] im.kind = "memory" -> [im EXCEPT !.limits = load_memory(@)]
                      [] OTHER -> im
        IN [linked EXCEPT !.m.imports = IF linked.ok THEN Append(@, read) ELSE @]
  IN Check(ForEach(one, ScanImports(l, sec), sec.items), ~sec.cut)

\* The bodies are read with the function section; code is the code section.
load_function_section(l, sec, code) ==
  LET counted == Check(l, Len(sec.items) = Len(code.items))
      array == IF sec.items = <<>> THEN counted ELSE Alloc(counted, <<"functions">>)
      one(a, i, t) ==
        LET typed == Check(a, t < Len(a.m.types) /\ code.items[i].size > 0)
            made == Alloc(Alloc(typed, <<"function", i>>), <<"local_offsets", i>>)
        IN [made EXCEPT !.m.functions =
              IF made.ok THEN Append(@, [type |-> t, body |-> code.items[i]]) ELSE @]
  IN Check(ForEach(one, array, sec.items), ~sec.cut)

load_table_section(l, sec) ==
  LET array == IF sec.items = <<>> THEN l ELSE Alloc(Check(l, Len(sec.items) = 1), <<"tables">>)
      one(a, i, t) == [a EXCEPT !.m.tables = Append(@, load_table(t))]
  IN Check(ForEach(one, array, sec.items), ~sec.cut)

load_memory_section(l, sec) ==
  LET array == IF sec.items = <<>> THEN l ELSE Alloc(Check(l, Len(sec.items) = 1), <<"memories">>)
      one(a, i, mem) == [a EXCEPT !.m.memories = Append(@, load_memory(mem))]
  IN Check(ForEach(one, array, sec.items), ~sec.cut)

\* An initializer is a constant or the value of a global: [get, type, v].
load_init_expr(e) == e.get \/ e.type \in {"i32", "i64", "f32", "f64"}

load_global_section(l, sec) ==
  LET array == IF sec.items = <<>> THEN l ELSE Alloc(l, <<"globals">>)
      one(a, i, g) ==
        LET checked == Check(a, g.mutable \in {0, 1} /\ load_init_expr(g.init))
        IN [checked EXCEPT !.m.globals = IF checked.ok THEN Append(@, g) ELSE @]
  IN Check(ForEach(one, array, sec.items), ~sec.cut)

load_export_section(l, sec) ==
  LET array == IF sec.items = <<>> THEN l ELSE Alloc(l, <<"exports">>)
      one(a, i, e) ==
        LET named == Name(a, e.name)
            checked == Check(named, e.index < Count(a.m, e.kind))
        IN [checked EXCEPT !.m.exports = IF checked.ok THEN Append(@, e) ELSE @]
  IN Check(ForEach(one, array, sec.items), ~sec.cut)

\* Function 0 is not recorded: the test is on the index itself.
load_start_section(l, sec) ==
  LET f == sec.items[1]
      checked == Check(l, f = 0 \/ f < Count(l.m, "func"))
  IN Check(IF f = 0 \/ ~checked.ok THEN checked ELSE [checked EXCEPT !.m.start = f], ~sec.cut)

load_table_segment_section(l, sec) ==
  LET array == IF sec.items = <<>> THEN l ELSE Alloc(l, <<"table_segments">>)
      one(a, i, s) ==
        LET made == Alloc(Check(a, load_init_expr(s.offset)), <<"func_indexes", i>>)
        IN [made EXCEPT !.m.elems = IF made.ok THEN Append(@, s) ELSE @]
  IN Check(ForEach(one, array, sec.items), ~sec.cut)

load_code_section(l, sec, func) == Check(l, Len(sec.items) = Len(func.items))

load_data_segment_section(l, sec) ==
  LET array == IF sec.items = <<>> THEN l ELSE Alloc(l, <<"data_segments">>)
      one(a, i, s) ==
        LET made == Alloc(Check(a, load_init_expr(s.offset)), <<"data_segment", i>>)
        IN [made EXCEPT !.m.datas = IF made.ok THEN Append(@, s) ELSE @]
  IN Check(ForEach(one, array, sec.items), ~sec.cut)

load_user_section(l, sec) == Check(l, sec.items # <<>> /\ ~sec.cut)

----------------------------------------------------------------------------
(* The whole binary.                                                       *)

SectionIds == <<"type", "import", "func", "table", "memory", "global", "export", "start",
                "elem", "code", "data">>
IdOf(t) == CHOOSE i \in DOMAIN SectionIds : SectionIds[i] = t

\* Sections other than custom ones come at most once and in order.
create_sections(l, bin) ==
  LET known == Of(bin, LAMBDA s : s.id # "user")
      inorder == \A i \in 1..Len(known) - 1 : IdOf(known[i].id) < IdOf(known[i + 1].id)
      one(a, i, s) == Alloc(a, <<"section", i>>)
  IN Check(ForEach(one, l, bin), inorder)

destroy_sections(l) == [l EXCEPT !.held = {h \in @ : h[1] # "section"}]

SectionOf(bin, t) ==
  IF \E i \in DOMAIN bin : bin[i].id = t
  THEN bin[CHOOSE i \in DOMAIN bin : bin[i].id = t]
  ELSE [id |-> t, items |-> <<>>, cut |-> FALSE]

LoadSection(l, s, bin) ==
  CASE s.id = "type" -> load_type_section(l, s)
    [] s.id = "import" -> load_import_section(l, s)
    [] s.id = "func" -> load_function_section(l, s, SectionOf(bin, "code"))
    [] s.id = "table" -> load_table_section(l, s)
    [] s.id = "memory" -> load_memory_section(l, s)
    [] s.id = "global" -> load_global_section(l, s)
    [] s.id = "export" -> load_export_section(l, s)
    [] s.id = "start" -> load_start_section(l, s)
    [] s.id = "elem" -> load_table_segment_section(l, s)
    [] s.id = "code" -> load_code_section(l, s, SectionOf(bin, "func"))
    [] s.id = "data" -> load_data_segment_section(l, s)
    [] s.id = "user" -> load_user_section(l, s)

\* Every body is prepared; the cache of block addresses is freed only when all
\* of them are valid.
PrepareBodies(l) ==
  LET one(a, i, f) ==
        LET made == Alloc(Alloc(a, <<"code_compiled", i>>), <<"consts", i>>)
            valid == Check(made, f.body.valid)
        IN [valid EXCEPT !.m.grow = @ \/ (valid.ok /\ f.body.grow)]
      done == ForEach(one, Alloc(l, <<"block_addr_cache">>), l.m.functions)
  IN IF done.ok THEN [done EXCEPT !.held = @ \ {<<"block_addr_cache">>}] ELSE done

\* The exported globals that clang's linker defines, when no code grows the
\* memory: the stack pointer is the global before the lower of the two.  The exports
\* are looked through until both are found.  The index of an imported global wraps
\* below 0, and what is read there lies outside the globals.
AuxGlobals(m) ==
  LET imported == Len(Imports(m, "global"))
      one(a, e) ==
        LET g == e.index - imported
            x == m.globals[g + 1] IN
        CASE a.wild \/ (a.heap # None /\ a.data # None) -> a
          [] e.kind # "global" \/ e.name \notin {"__heap_base", "__data_end"} -> a
          [] g < 0 -> [a EXCEPT !.wild = TRUE]
          [] x.type # "i32" \/ x.mutable # 0 \/ x.init.get \/ x.init.type # "i32" -> a
          [] OTHER -> IF e.name = "__heap_base" THEN [a EXCEPT !.heap = g]
                      ELSE [a EXCEPT !.data = g]
  IN FoldLeft(one, [heap |-> None, data |-> None, wild |-> FALSE], m.exports)
Shrink(mem, base, end) ==
  IF Greater(base, end) <= mem.page * mem.init
  THEN [mem EXCEPT !.page = Greater(base, end), !.init = 1] ELSE mem
ResolveAux(m) ==
  LET heap == AuxGlobals(m).heap data == AuxGlobals(m).data
      low == Lesser(heap, data)
      top == m.globals[low]                  \* the global before the lower one
      base == m.globals[heap + 1].init.v
      end == Align(m.globals[data + 1].init.v, 16)
      found == /\ heap # None /\ data # None
               /\ Greater(heap, data) = low + 1 /\ Greater(heap, data) > 1
               /\ top.type = "i32" /\ top.mutable = 1 /\ ~top.init.get /\ top.init.type = "i32"
               /\ top.init.v <= base
  IN IF m.grow \/ ~found THEN m
     ELSE [m EXCEPT !.memories = [i \in DOMAIN @ |-> Shrink(@[i], base, end)],
                    !.imports = [i \in DOMAIN @ |-> IF @[i].kind = "memory"
                                   THEN [@[i] EXCEPT !.limits = Shrink(@, base, end)] ELSE @[i]],
                    !.aux = [data_end |-> end, bottom |-> top.init.v, global |-> low - 1,
                             size |-> IF top.init.v > end THEN top.init.v - end ELSE top.init.v]]

load_from_sections(l, bin) ==
  LET one(a, i, s) == LoadSection(a, s, bin)
      prepared == Then(ForEach(one, l, bin), PrepareBodies)
  IN Then(prepared, LAMBDA p :
       IF ~p.m.grow /\ AuxGlobals(p.m).wild THEN [p EXCEPT !.wild = TRUE]
       ELSE [p EXCEPT !.m = ResolveAux(@)])

MutConstsKept ==
  {"types", "type", "imports", "functions", "function", "local_offsets", "code_compiled",
   "tables", "memories", "globals", "exports", "table_segments", "func_indexes",
   "data_segments", "data_segment", "str", "module"}
ModuleKinds == {"types", "type", "imports", "functions", "function", "local_offsets",
                "code_compiled", "consts", "tables", "memories", "globals", "exports",
                "table_segments", "func_indexes", "data_segments", "data_segment", "str",
                "module"}
wasm_loader_unload(held) == {h \in held : h[1] \notin ModuleKinds}

wasm_loader_load(bin, quota) ==
  LET made == create_module(quota)
      sections == IF made.ok THEN create_sections(made, bin) ELSE made
      unloaded(read) == IF read.ok THEN read ELSE [read EXCEPT !.held = wasm_loader_unload(@)]
  IN unloaded(destroy_sections(Then(sections, LAMBDA l : load_from_sections(l, bin))))

----------------------------------------------------------------------------
(* An instance in the interpreter.  A memory is a function from offsets to *)
(* bytes, a table from elements to function indexes (None where no segment *)
(* reaches), globals are their initial values.                             *)

HeapSize(n) ==
  LET a == Align(n, 8) IN
  IF a = 0 THEN HeapDefault ELSE Lesser(Greater(a, HeapMin), HeapMax)

globals_instantiate(m) ==
  LET imps == Imports(m, "global") IN
  [i \in 1..Len(imps) |-> NativeGlobals[<<imps[i].module, imps[i].name>>]]

\* The imports that depend on the instance, then the initializers.
globals_instantiate_fix(m, mem) ==
  LET imps == Imports(m, "global")
      linked == globals_instantiate(m)
      fixed == [i \in 1..Len(imps) |->
                  CASE imps[i].module = "env" /\ imps[i].name = "DYNAMICTOP_PTR" -> Len(mem)
                    [] imps[i].module = "env" /\ imps[i].name \in {"memoryBase",
                         "__memory_base", "tableBase", "__table_base", "STACKTOP", "STACK_MAX"} -> 0
                    [] OTHER -> linked[i]]
  IN fixed \o [i \in 1..Len(m.globals) |->
                 LET e == m.globals[i].init IN IF e.get THEN fixed[e.v + 1] ELSE e.v]

\* The value of a segment's offset.  It is written over the initializer, which
\* keeps its kind: a second instance takes it for the index of a global.
InGlobals(e, globals) == e.get => e.v < Len(globals)
Offset(e, globals) == IF e.get /\ InGlobals(e, globals) THEN globals[e.v + 1] ELSE e.v
Resolved(segs, globals) ==
  [i \in DOMAIN segs |-> [segs[i] EXCEPT !.offset.v = Offset(segs[i].offset, globals)]]

MemoryOf(m) ==
  LET imps == Imports(m, "memory") IN
  CASE imps # <<>> -> imps[1].limits [] imps = <<>> /\ m.memories # <<>> -> m.memories[1]
    [] OTHER -> [page |-> 0, init |-> 0, max |-> 0]
TableOf(m) ==
  LET imps == Imports(m, "table") IN
  CASE imps # <<>> -> imps[1].limits [] imps = <<>> /\ m.tables # <<>> -> m.tables[1]
    [] OTHER -> [size |-> 0, max |-> 0]

memory_instantiate(mem) == [k \in 1..mem.page * mem.init |-> 0]

\* Bytes copied at an offset, elements of the table clipped to its size.
DataFits(s, mem, at) ==
  Len(s.bytes) > 0 => at < Len(mem) /\ at + Len(s.bytes) <= Len(mem)
CopyData(mem, s, at) ==
  [k \in DOMAIN mem |-> IF k > at /\ k <= at + Len(s.bytes) THEN s.bytes[k - at] ELSE mem[k]]
tables_instantiate(t) == [k \in 1..t.size |-> None]
CopyElems(tab, s, at) ==
  [k \in DOMAIN tab |-> IF k > at /\ k <= at + Len(s.funcs) THEN s.funcs[k - at] ELSE tab[k]]
ElemsInRange(m, tab, s, at) ==
  \A j \in 1..Len(s.funcs) : at < Len(tab) /\ j <= Len(tab) - at => s.funcs[j] < Count(m, "func")

\* execute_post_inst_function ignores an exported function of another type;
\* the functions run, in their order.
FuncType(m, f) ==
  LET n == Len(Imports(m, "func")) IN
  m.types[1 + IF f < n THEN Imports(m, "func")[f + 1].type ELSE m.functions[f - n + 1].type]
ExportedFunc(m, n) ==
  LET hits == Of(m.exports, LAMBDA e : e.kind = "func" /\ e.name = n)
  IN IF hits = <<>> THEN None ELSE hits[1].index
Takes(t, params, results) == t.params = params /\ t.results = results
execute_post_inst_function(m) ==
  LET f == ExportedFunc(m, "__post_instantiate") IN
  IF f # None /\ Takes(FuncType(m, f), 0, 0) THEN <<f>> ELSE <<>>
execute_start_function(m) == IF m.start = None THEN <<>> ELSE <<m.start>>

\* The functions run, each in an exec_env of its own; the one at trap, if any,
\* throws an exception.
ExecEnv == {<<"exec_env">>, <<"argv_buf">>}
RunFunctions(a, runs, trap) ==
  LET one(b, i, f) ==
        LET env == Alloc(Alloc(b, <<"exec_env">>), <<"argv_buf">>)
        IN [env EXCEPT !.ok = @ /\ i # trap, !.held = @ \ ExecEnv]
  IN ForEach(one, a, runs)

\* wasm_runtime_init_wasi: the context, and for an instance with a memory the tables
\* of arguments, descriptors and directories.  It may find the heap of the instance
\* full ("full"), or fail when the context has its tables ("late", or no memory for
\* their entries): then it frees them and leaves them in the context, and
\* wasm_runtime_destroy_wasi reads and frees them again.
wasm_runtime_init_wasi(a, ctx, memory, ends) ==
  LET made == Alloc(a, <<ctx>>)
      tables == Alloc(made, <<ctx, "tables">>)
  IN CASE ~made.ok \/ ~memory -> made
       [] made.ok /\ memory /\ ends = "full" -> Refuse(made)
       [] OTHER -> [tables EXCEPT !.ok = @ /\ ends # "late", !.wild = ~tables.ok \/ ends = "late"]

InstanceKinds == {"inst", "inst_globals", "inst_memories", "inst_memory", "inst_heap", "inst_tables",
                  "inst_table", "inst_functions", "inst_exports", "wasi_ctx"}
wasm_deinstantiate(held) == {h \in held : h[1] \notin InstanceKinds}

\* The allocations in their order, the first before the instance exists.
InstanceAllocs(m) ==
  LET when(c, what) == IF c THEN <<what>> ELSE <<>>
      globals == Count(m, "global") memory == Count(m, "memory") IN
  when(globals > 0, <<"inst_globals">>) \o <<<<"inst">>>>
    \o when(memory + globals > 0, <<"inst_memories">>)
    \o when(memory + globals > 0, <<"inst_memory">>)
    \o when(memory + globals > 0, <<"inst_heap">>)
    \o when(Count(m, "table") > 0, <<"inst_tables">>)
    \o when(Count(m, "table") > 0, <<"inst_table">>)
    \o when(Count(m, "func") > 0, <<"inst_functions">>)
    \o when(\E i \in DOMAIN m.exports : m.exports[i].kind = "func", <<"inst_exports">>)

\* An assertion stops the runtime at an initializer whose global is not there.
wasm_instantiate(l, heap, quota, wasi, trap) ==
  LET m == l.m
      alloc(a, i, what) == Alloc(a, what)
      made == ForEach(alloc, [l EXCEPT !.left = quota], InstanceAllocs(m))
      zeroed == memory_instantiate(MemoryOf(m))
      globals == globals_instantiate_fix(m, zeroed)
      datas == IF MemoryOf(m).init > 0 THEN Resolved(m.datas, globals) ELSE m.datas
      elems == IF Count(m, "table") > 0 THEN Resolved(m.elems, globals) ELSE m.elems
      data(a, i, s) ==
        LET at == s.offset.v fits == Check(a, DataFits(s, a.memory, at))
        IN IF fits.ok THEN [fits EXCEPT !.memory = CopyData(@, s, at)] ELSE fits
      elem(a, i, s) ==
        LET at == s.offset.v good == Check(a, ElemsInRange(m, a.table, s, at))
        IN IF good.ok THEN [good EXCEPT !.table = CopyElems(@, s, at)] ELSE good
      known(segs) == \A i \in DOMAIN segs : InGlobals(segs[i].offset, globals)
      start == [ok |-> made.ok /\ (MemoryOf(m).init > 0 => known(m.datas))
                               /\ (Count(m, "table") > 0 => known(m.elems)),
                memory |-> zeroed, table |-> tables_instantiate(TableOf(m))]
      filled == ForEach(elem, ForEach(data, start, IF MemoryOf(m).init > 0 THEN datas ELSE <<>>),
                        IF Count(m, "table") > 0 THEN elems ELSE <<>>)
      inst == [memory |-> filled.memory, table |-> filled.table, globals |-> globals,
               heap |-> HeapSize(heap), runs |-> execute_post_inst_function(m)
                                                   \o execute_start_function(m)]
      ready == wasm_runtime_init_wasi([made EXCEPT !.ok = filled.ok], "wasi_ctx",
                                      Count(m, "memory") + Count(m, "global") > 0, wasi)
      ended == IF filled.ok THEN RunFunctions(ready, inst.runs, trap) ELSE [made EXCEPT !.ok = FALSE]
  IN [l |-> IF ended.ok THEN [ended EXCEPT !.m.datas = datas, !.m.elems = elems]
            ELSE [ended EXCEPT !.held = wasm_deinstantiate(@),
                               !.m.datas = IF made.ok THEN datas ELSE @,
                               !.m.elems = IF filled.ok THEN elems ELSE @],
      inst |-> inst]
=============================================================================
