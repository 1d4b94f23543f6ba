----------------------------- MODULE AotModule -----------------------------
(***************************************************************************)
(* The runtime's side of an AOT file: aot_loader.c reads the file that     *)
(* AotFile writes, field by field with the reader's own alignment, and     *)
(* aot_runtime.c makes an instance of it.  The loader record of WasmModule *)
(* has the position p, the end of what may be read, the file's fields, the *)
(* values read last and whether a read met anything but a field.           *)
(***************************************************************************)
EXTENDS AotFile

CONSTANTS
  Target,       \* what get_current_target and the build say of the machine
  PltSize,      \* get_plt_table_size
  Runtime       \* names of the runtime's functions, in the order of the PLT

----------------------------------------------------------------------------
(* Reading.                                                                *)

Wild(l) == [l EXCEPT !.ok = FALSE, !.wild = TRUE]
MutAlignWhole(l, n) ==
  LET p == Align(l.p, n) IN
  CASE ~l.ok \/ p + n > l.end -> Refuse(l)
    [] l.ok /\ p + n <= l.end /\ p \in DOMAIN l.file /\ l.file[p].n = n ->
         [l EXCEPT !.p = p + n, !.got = Append(@, l.file[p].v)]
    [] OTHER -> Wild(l)
TEMPLATE_READ(l, n) ==
  LET p == Align(l.p, Lesser(n, 4)) IN
  CASE ~l.ok \/ p + n > l.end -> Refuse(l)
    [] l.ok /\ p + n <= l.end /\ p \in DOMAIN l.file /\ l.file[p].n = n ->
         [l EXCEPT !.p = p + n, !.got = Append(@, l.file[p].v)]
    [] OTHER -> Wild(l)
read_byte_array(l, n) ==
  CASE ~l.ok \/ l.p + n > l.end -> Refuse(l)
    [] l.ok /\ n = 0 -> [l EXCEPT !.got = Append(@, <<>>)]
    [] l.ok /\ n > 0 /\ l.p + n <= l.end /\ l.p \in DOMAIN l.file /\ l.file[l.p].n = n ->
         [l EXCEPT !.p = l.p + n, !.got = Append(@, l.file[l.p].v)]
    [] OTHER -> Wild(l)

LastRead(l) == l.got[Len(l.got)]

\* The copy is made before the set is searched.
const_str_set_insert(l, n) ==
  LET copied == Alloc(l, <<"a_str", n>>)
      noded == Alloc(copied, <<"node", n>>)
  IN IF <<"node", n>> \in l.held THEN copied
     ELSE IF noded.ok THEN noded ELSE [noded EXCEPT !.held = l.held]
read_string(l) ==
  Then(TEMPLATE_READ(l, 2), LAMBDA len :
    Then(read_byte_array(len, LastRead(len)), LAMBDA text :
      [const_str_set_insert(text, LastRead(text)) EXCEPT !.got = Append(l.got, LastRead(text))]))

\* Several fields in a row, into l.got.
Width(k) == CASE k = "u8" -> 1 [] k = "u16" -> 2 [] k = "u32" -> 4 [] k = "u64" -> 8
              [] k = "ptr" -> IF Target.bin \in {0, 1} THEN 4 ELSE 8
Read(l, kinds) ==
  LET one(a, i, k) == IF k = "str" THEN read_string(a) ELSE TEMPLATE_READ(a, Width(k))
  IN ForEach(one, [l EXCEPT !.got = <<>>], kinds)
align_ptr(l, b) == [l EXCEPT !.p = Align(@, b)]

\* A list of n items after an array for them; the array of no items is not made.
ReadList(l, n, kind, One(_, _, _)) ==
  IF ~l.ok \/ n = 0 THEN l ELSE ForEach(One, Alloc(l, <<kind>>), [i \in 1..n |-> i])
ReadCounted(l, kind, One(_, _, _)) ==
  Then(Read(l, <<"u32">>), LAMBDA head : ReadList(head, head.got[1], kind, One))
AtEnd(l, end) == Then(l, LAMBDA done : Check(done, done.p = end))
InitOf(e, v) == [get |-> e[1], type |-> e[2], v |-> v]

----------------------------------------------------------------------------
(* The sections.                                                           *)

get_aot_file_target(machine, arch) ==
  CASE machine = "x86_64" -> str_starts_with(arch, "x86_64")
    [] machine = "i386" -> str_starts_with(arch, "i386")
    [] machine \in {"arm", "aarch64"} -> TRUE
    [] machine = "mips" -> str_starts_with(arch, "mips")
    [] machine = "xtensa" -> str_starts_with(arch, "xtensa")
    [] OTHER -> FALSE
check_machine_info(machine, arch) == get_aot_file_target(machine, arch) /\ arch = Target.arch
load_target_info_section(l) ==
  Then(read_byte_array(Read(l, <<"u16", "u16", "u16", "u16", "u32", "u32", "u32">>), 16),
    LAMBDA done :
      Check(done, /\ done.p = l.end
                  /\ done.got[1] % 2 = Target.bin % 2 /\ done.got[1] \div 2 = Target.bin \div 2
                  /\ done.got[3] = "rel" /\ check_machine_info(done.got[4], done.got[8])
                  /\ done.got[5] = 1))

load_mem_init_data_list(l, i, j) ==
  Then(Alloc(Read(l, <<"u32", "u64", "u32">>), <<"a_data", i>>), LAMBDA made :
    Then(read_byte_array(made, made.got[3]), LAMBDA done :
      [done EXCEPT !.m.datas = Append(@, [offset |-> InitOf(done.got[1], done.got[2]),
                                          bytes |-> LastRead(done)])]))
load_memory_info(l) ==
  Then(Read(l, <<"u32", "u32", "u32", "u32">>), LAMBDA head :
    ReadList([head EXCEPT !.m.page = head.got[1], !.m.init = head.got[2], !.m.max = head.got[3]],
             head.got[4], "a_data", load_mem_init_data_list))

load_table_init_data_list(l, i, j) ==
  Then(Alloc(Read(l, <<"u32", "u64", "u32">>), <<"a_elem", i>>), LAMBDA made :
    Then(Read(made, [k \in 1..made.got[3] |-> "u32"]), LAMBDA done :
      [done EXCEPT !.m.elems = Append(@, [offset |-> InitOf(made.got[1], made.got[2]),
                                          funcs |-> done.got])]))
load_table_info(l) ==
  Then(Read(l, <<"u32", "u32">>), LAMBDA head :
    ReadList([head EXCEPT !.m.size = head.got[1]], head.got[2], "a_elem",
             load_table_init_data_list))

load_func_types(l, i, j) ==
  Then(Alloc(Read(l, <<"u32", "u32">>), <<"a_type", i>>), LAMBDA made :
    Then(read_byte_array(made, made.got[1] + made.got[2]), LAMBDA done :
      [done EXCEPT !.m.types = Append(@, [params |-> made.got[1], results |-> made.got[2]])]))
load_func_type_info(l) == ReadCounted(l, "a_type", load_func_types)

\* The value of an imported global is not linked: it stays 0.
load_import_globals(l, i, j) ==
  Then(Read(align_ptr(l, 2), <<"u8", "u8", "str", "str">>), LAMBDA done :
    [done EXCEPT !.m.import_globals =
       Append(@, [type |-> done.got[1], module |-> done.got[3], name |-> done.got[4]])])
load_import_global_info(l) == ReadCounted(l, "a_import_globals", load_import_globals)

load_globals(l, i, j) ==
  Then(Read(l, <<"u8", "u8", "u16", "u64">>), LAMBDA done :
    [done EXCEPT !.m.globals =
       Append(@, [type |-> done.got[1], mutable |-> done.got[2],
                  init |-> InitOf(done.got[3], done.got[4])])])
load_global_info(l) == ReadCounted(l, "a_globals", load_globals)

load_import_funcs(l, i, j) ==
  Then(Read(l, <<"u16">>), LAMBDA type :
    Then(Read(Check(type, type.got[1] < Len(l.m.types)), <<"str", "str">>), LAMBDA done :
      [done EXCEPT !.m.import_funcs =
         Append(@, [type |-> type.got[1], module |-> done.got[1], name |-> done.got[2]])]))
load_import_func_info(l) == ReadCounted(l, "a_import_funcs", load_import_funcs)

load_object_data_sections(l, i, j) ==
  Then(Alloc(Read(l, <<"str", "u32">>), <<"a_section", i>>), LAMBDA made :
    Then(read_byte_array(made, made.got[2]), LAMBDA done :
      [done EXCEPT !.m.sections = Append(@, [name |-> made.got[1], size |-> made.got[2]])]))
load_object_data_sections_info(l) == ReadCounted(l, "a_section", load_object_data_sections)

\* A start function must be one of the compiled ones.
Counts(counts) ==
  LET imports == Len(counts.m.import_funcs)
      start == counts.got[2]
  IN [Check(counts, start = None \/ start \in imports..imports + counts.got[1] - 1)
        EXCEPT !.m.func_count = counts.got[1], !.m.start = start,
               !.m.aux = [data_end |-> counts.got[3], bottom |-> counts.got[4],
                          size |-> counts.got[5], global |-> counts.got[6]]]
load_init_data_section(l) ==
  LET lists == load_import_func_info(load_global_info(load_import_global_info(
                 load_func_type_info(load_table_info(load_memory_info(l))))))
  IN AtEnd(load_object_data_sections_info(
             Then(Read(lists, <<"u32", "u32", "u32", "u32", "u32", "u32">>), Counts)), l.end)

\* The text is in a mapping of its own, the PLT at its end.
load_text_section(l, size) ==
  Then(Read(l, <<"u32">>), LAMBDA head :
    [head EXCEPT !.m.literal = head.got[1],
                 !.m.code = Align(size + PltSize, 4) - 4 - head.got[1]])

aot_load_function_section(l) ==
  LET each == [i \in 1..l.m.func_count |-> i]
      offset(a, i, j) ==
        Then(Read(a, <<"ptr">>), LAMBDA r :
          Check([r EXCEPT !.m.func_ptrs = Append(@, r.got[1])], r.got[1] < r.m.code))
      type(a, i, j) ==
        Then(Read(a, <<"u32">>), LAMBDA r :
          Check([r EXCEPT !.m.funcs = Append(@, r.got[1])], r.got[1] < Len(r.m.types)))
      pointers == ForEach(offset, Alloc(l, <<"a_func_ptrs">>), each)
  IN AtEnd(ForEach(type, Alloc(pointers, <<"a_func_types">>), each), l.end)

load_export_funcs(l, i, j) ==
  Then(Read(l, <<"u32">>), LAMBDA index :
    Then(Read(Check(index, index.got[1] < l.m.func_count + Len(l.m.import_funcs)), <<"str">>),
      LAMBDA done :
        [done EXCEPT !.m.exports = Append(@, [index |-> index.got[1], name |-> done.got[1]])]))
aot_load_export_section(l) == AtEnd(ReadCounted(l, "a_exports", load_export_funcs), l.end)

----------------------------------------------------------------------------
(* Relocation, on x86-64.                                                  *)

get_data_section_addr(m, n) ==
  LET hits == Of(m.sections, LAMBDA s : s.name = n) IN
  IF hits = <<>> THEN None ELSE hits[1].size
resolve_target_sym(n) ==
  IF \E i \in DOMAIN Runtime : Runtime[i] = n
  THEN (CHOOSE i \in DOMAIN Runtime : Runtime[i] = n) - 1 ELSE None
RelocSize(type) == CASE type = "R_X86_64_64" -> 8
                     [] type \in {"R_X86_64_PC32", "R_X86_64_32", "R_X86_64_32S",
                                  "R_X86_64_PLT32"} -> 4
                     [] OTHER -> 0
check_reloc_offset(size, offset, n) == offset < size /\ offset + n <= size

\* The text and the data sections are mappings of their own, the functions of the
\* runtime are in its executable; far names those that lie out of the reach of 32
\* bits from the others and from 0.
Place(to) == CASE to[1] = "data" -> to[2] [] to[1] = "runtime" -> "runtime"
               [] to[1] = "literal" -> "literal" [] OTHER -> "code"
InReach(far, type, into, to) ==
  CASE type = "R_X86_64_64" -> TRUE
    [] type \in {"R_X86_64_32", "R_X86_64_32S"} -> Place(to) \notin far
    [] OTHER -> into = Place(to) \/ {into, Place(to)} \cap far = {}

\* What a relocation patches, and with the address of what.  A call through
\* the PLT goes to the slot of the runtime's function.
apply_relocation(l, into, size, r, to, slot) ==
  LET n == RelocSize(r.type)
      target == IF r.type = "R_X86_64_PLT32" /\ slot # None THEN <<"plt", slot>> ELSE to
  IN IF n > 0 /\ check_reloc_offset(size, r.offset, n) /\ InReach(l.far, r.type, into, target)
     THEN [l EXCEPT !.m.patched = Append(@, [into |-> into, at |-> r.offset, to |-> target,
                                            addend |-> r.addend, type |-> r.type])]
     ELSE Refuse(l)
\* funcs is the number in the name of a compiled function, by name.
do_text_relocation(l, g, funcs) ==
  LET literal == g.name = ".rela.literal"
      size == IF literal THEN l.m.literal ELSE l.m.code
      one(a, i, r) ==
        LET s == r.symbol
            to == CASE str_starts_with(s, "aot_func#") ->
                         IF funcs[s] <= a.m.func_count THEN <<"func", a.m.func_ptrs[funcs[s] + 1]>>
                         ELSE <<>>
                    [] s = ".text" -> <<"code">>
                    [] is_data_section(s) ->
                         IF get_data_section_addr(a.m, s) # None THEN <<"data", s>> ELSE <<>>
                    [] s = ".literal" -> <<"literal">>
                    [] OTHER -> IF resolve_target_sym(s) # None THEN <<"runtime", s>> ELSE <<>>
        IN IF to = <<>> THEN Refuse(a)
           ELSE apply_relocation(a, IF literal THEN "literal" ELSE "code", size, r, to,
                                 resolve_target_sym(s))
  IN ForEach(one, l, g.rels)
do_data_relocation(l, g) ==
  LET n == IF str_starts_with(g.name, ".rela.") THEN SubSeq(g.name, 6, Len(g.name))
           ELSE SubSeq(g.name, 5, Len(g.name))
      size == get_data_section_addr(l.m, n)
      one(a, i, r) == IF r.symbol = ".text" THEN apply_relocation(a, n, size, r, <<"code">>, None)
                      ELSE Refuse(a)
  IN ForEach(one, Check(l, g.rels = <<>> \/ size # None), g.rels)

\* The symbols, each with its offset from the first.
validate_symbol_table(l, offsets) ==
  LET base == l.p
      one(a, i, at) ==
        Then(TEMPLATE_READ(Check([a EXCEPT !.got = <<>>], a.p - base = at), 2), LAMBDA len :
          Then(read_byte_array(len, len.got[1]), LAMBDA text :
            align_ptr([text EXCEPT !.names = Append(@, text.got[2])], 2)))
  IN ForEach(one, l, offsets)

\* A name by its index among the symbols.
InsertName(l, r, k) ==
  IF r.got[k] >= Len(l.names) THEN Refuse(r) ELSE const_str_set_insert(r, l.names[r.got[k] + 1])
read_relocations(l, i) ==
  LET rel(a, j, x) ==
        Then(Read(a, <<"ptr", "ptr", "u32", "u32">>), LAMBDA r :
          Then(InsertName(l, r, 4), LAMBDA known :
            [known EXCEPT !.rels = Append(@, [offset |-> r.got[1], addend |-> r.got[2],
                             type |-> r.got[3], symbol |-> l.names[r.got[4] + 1]])]))
  IN Then(Read(l, <<"u32">>), LAMBDA count :
       ForEach(rel, [Alloc(count, <<"relocations", i>>) EXCEPT !.rels = <<>>],
               [j \in 1..count.got[1] |-> j]))
\* A group that cannot be applied is left where it is: nothing is freed.
relocate(l, name, funcs) ==
  LET g == [name |-> name, rels |-> l.rels]
      kept(patched) == [patched EXCEPT !.kept = ~patched.ok]
  IN kept(IF name \in {".rel.text", ".rela.text", ".rela.literal"}
          THEN do_text_relocation(l, g, funcs) ELSE do_data_relocation(l, g))
Group(l, i, funcs) ==
  Then(Read(align_ptr(l, 4), <<"u32">>), LAMBDA head :
    Then(InsertName(l, head, 1), LAMBDA named :
      Then(read_relocations(named, i), LAMBDA read :
        relocate(read, l.names[head.got[1] + 1], funcs))))

\* An exported function must be a compiled one.
load_relocation_groups(l, funcs) ==
  LET one(a, i, x) == Group(a, i, funcs)
      imports == Len(l.m.import_funcs)
      exported == \A i \in DOMAIN l.m.exports :
                    l.m.exports[i].index - imports \in 0..l.m.func_count - 1
      freed(done) == IF done.kept THEN done
                     ELSE [done EXCEPT !.held = {h \in @ : h[1] \notin {"groups", "relocations"}}]
  IN Then(Read(l, <<"u32">>), LAMBDA groups :
       freed(Check(ForEach(one, Alloc(groups, <<"groups">>), [i \in 1..groups.got[1] |-> i]),
                   exported)))
load_relocation_section(l, funcs) ==
  Then(Read(l, <<"u32">>), LAMBDA count :
    Then(Read(count, [i \in 1..count.got[1] |-> "u32"]), LAMBDA table :
      Then(Read(table, <<"u32">>), LAMBDA total :
        LET end == total.p + total.got[1]
            after(symbols) == Check([symbols EXCEPT !.end = l.end], symbols.p = end)
        IN load_relocation_groups(
             after(validate_symbol_table([total EXCEPT !.end = end], table.got)), funcs))))

----------------------------------------------------------------------------
(* The file.                                                               *)

AotSections == <<"target", "init", "text", "function", "export", "relocation">>
ModuleBlank == [page |-> 0, init |-> 0, max |-> 0, datas |-> <<>>, size |-> 0, elems |-> <<>>,
                types |-> <<>>, import_globals |-> <<>>, globals |-> <<>>, import_funcs |-> <<>>,
                func_count |-> 0, start |-> None, sections |-> <<>>, literal |-> 0, code |-> 0,
                aux |-> [data_end |-> 0, bottom |-> 0, size |-> 0, global |-> 0],
                func_ptrs |-> <<>>, funcs |-> <<>>, exports |-> <<>>, patched |-> <<>>]
aot_create_module(l, quota) ==
  LET made == Alloc(Alloc([l EXCEPT !.left = quota], <<"a_module">>), <<"a_set">>)
  IN IF made.ok THEN made ELSE [made EXCEPT !.held = l.held]

\* Heads are read until the file ends; the text is copied out of it.
ReadHead(l, i, t) ==
  LET copied(r) ==
        LET made == Alloc(r, <<"a_head", i>>) IN
        IF made.ok /\ r.got[1] = "text" /\ r.got[2] > 0
        THEN LET text == Alloc(made, <<"text">>) IN
             IF text.ok THEN text ELSE [text EXCEPT !.held = r.held]
        ELSE made
  IN Then(Read(l, <<"u32", "u32">>), LAMBDA r :
       Then(copied(r), LAMBDA text :
         IF text.p + r.got[2] > l.end THEN Refuse(text)
         ELSE [text EXCEPT !.p = @ + r.got[2],
                 !.heads = Append(@, [type |-> r.got[1], at |-> text.p, size |-> r.got[2]])]))
aot_create_sections(l) == ForEach(ReadHead, [l EXCEPT !.p = 8], AotSections)
aot_destroy_sections(held, text) ==
  {h \in held : h[1] # "a_head" /\ (text => h[1] # "text")}

aot_load_from_section(l, h, funcs) ==
  LET at == [l EXCEPT !.p = h.at, !.end = h.at + h.size] IN
  CASE h.type = "target" -> load_target_info_section(at)
    [] h.type = "init" -> load_init_data_section(at)
    [] h.type = "text" -> load_text_section(at, h.size)
    [] h.type = "function" -> aot_load_function_section(at)
    [] h.type = "export" -> aot_load_export_section(at)
    [] h.type = "relocation" -> load_relocation_section(at, funcs)
aot_load_from_sections(l, funcs) ==
  LET one(a, i, h) == aot_load_from_section(Check(a, h.type = AotSections[i]), h, funcs)
  IN Check(ForEach(one, l, l.heads), Len(l.heads) = Len(AotSections))

AotKinds == {"a_module", "a_set", "a_str", "node", "a_data", "a_elem", "a_type", "a_import_globals",
             "a_globals", "a_import_funcs", "a_section", "a_func_ptrs", "a_func_types",
             "a_exports", "text"}
aot_unload(held) == {h \in held : h[1] \notin AotKinds}

aot_load(l) ==
  LET freed(read, text) == [read EXCEPT !.held = aot_destroy_sections(@, text)]
      loaded(read) == freed(read, ~read.ok)
      load(sections) == IF sections.ok THEN loaded(aot_load_from_sections(sections, l.funcs))
                        ELSE freed(sections, TRUE)
  IN load(aot_create_sections(l))
aot_load_from_aot_file(file, funcs, far, held, quota) ==
  LET blank == [ok |-> TRUE, left |-> quota, held |-> held, m |-> ModuleBlank, p |-> 0,
                end |-> file.size, file |-> file.cells, got |-> <<>>, wild |-> FALSE,
                names |-> <<>>, rels |-> <<>>, kept |-> FALSE, heads |-> <<>>, funcs |-> funcs,
                far |-> far]
      unloaded(done) == IF done.ok THEN done ELSE [done EXCEPT !.held = aot_unload(@)]
  IN unloaded(Then(aot_create_module(blank, quota), aot_load))

----------------------------------------------------------------------------
(* An instance.                                                            *)

MutDefinedFirst(m) ==
  [i \in 1..Len(m.globals) |-> IF m.globals[i].init.get THEN 0 ELSE m.globals[i].init.v]
    \o [i \in 1..Len(m.import_globals) |-> 0]
global_instantiate(m) ==
  [i \in 1..Len(m.import_globals) |-> 0] \o
  [i \in 1..Len(m.globals) |-> IF m.globals[i].init.get THEN 0 ELSE m.globals[i].init.v]
\* A segment that starts in the table is copied whole.
table_instantiate(a, i, s) ==
  LET at == Offset(s.offset, a.globals)
  IN IF at >= Len(a.table) THEN a
     ELSE [a EXCEPT !.table = CopyElems(@, s, at), !.wild = @ \/ at + Len(s.funcs) > Len(a.table)]
aot_memory_instantiate(a, i, s) ==
  LET at == Offset(s.offset, a.globals)
      fits == Check(a, DataFits(s, a.memory, at))
  IN IF fits.ok THEN [fits EXCEPT !.memory = CopyData(@, s, at)] ELSE fits
aot_lookup_function(m, n) ==
  LET hits == Of(m.exports, LAMBDA e : e.name = n) IN IF hits = <<>> THEN None ELSE hits[1].index
AotInstanceKinds == {"ai", "ai_memory", "ai_heap", "ai_func_ptrs", "ai_func_types", "ai_wasi_ctx"}
aot_deinstantiate(held) == {h \in held : h[1] \notin AotInstanceKinds}

aot_instantiate(l, heap, quota, wasi, trap) ==
  LET m == l.m
      alloc(a, i, what) == Alloc(a, what)
      made == ForEach(alloc, [l EXCEPT !.left = quota],
                      <<<<"ai">>, <<"ai_memory">>, <<"ai_heap">>, <<"ai_func_ptrs">>, <<"ai_func_types">>>>)
      start == [ok |-> made.ok, wild |-> FALSE, globals |-> global_instantiate(m),
                table |-> tables_instantiate(m),
                memory |-> memory_instantiate([page |-> m.page, init |-> m.init])]
      filled == ForEach(aot_memory_instantiate, ForEach(table_instantiate, start, m.elems),
                        IF m.init > 0 THEN m.datas ELSE <<>>)
      post == aot_lookup_function(m, "__post_instantiate")
      types == [i \in DOMAIN m.import_funcs |-> m.import_funcs[i].type] \o m.funcs
      inst == [memory |-> filled.memory, table |-> filled.table, globals |-> filled.globals,
               heap |-> HeapSize(heap), types |-> types,
               runs |-> (IF post = None THEN <<>> ELSE <<post>>)
                          \o IF m.start = None THEN <<>> ELSE <<m.start>>]
      ready == wasm_runtime_init_wasi([made EXCEPT !.ok = filled.ok], "ai_wasi_ctx", TRUE, wasi)
      ended == IF filled.ok THEN RunFunctions(ready, inst.runs, trap) ELSE [made EXCEPT !.ok = FALSE]
  IN [l |-> IF ended.ok THEN ended ELSE [ended EXCEPT !.held = aot_deinstantiate(@)],
      inst |-> inst, wild |-> filled.wild]
=============================================================================
