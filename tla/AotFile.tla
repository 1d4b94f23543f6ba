------------------------------ MODULE AotFile ------------------------------
(***************************************************************************)
(* A loaded module compiled ahead of time into an AOT file: the            *)
(* compilation data copied from the module (aot.c), what is taken from the *)
(* ELF object LLVM produces, and the file written field by field into a    *)
(* buffer whose size was computed beforehand (aot_emit_aot_file.c).  Sizes *)
(* and offsets are those of the code; the bytes of a field are its value.  *)
(***************************************************************************)
EXTENDS WasmModule, TLC
LOCAL INSTANCE SequencesExt

Each(s, F(_)) == FlattenSeq([i \in DOMAIN s |-> F(s[i])])

----------------------------------------------------------------------------
(* aot.c: every list of the module is copied, import by import and segment *)
(* by segment.  l.m becomes the compilation data.                          *)

AllocEach(l, kind, s) ==
  LET one(a, i, x) == Alloc(a, <<kind, i>>)
  IN IF s = <<>> THEN l ELSE ForEach(one, Alloc(l, <<kind>>), s)
AllocList(l, kind, s) == IF s = <<>> THEN l ELSE Alloc(l, <<kind>>)

aot_create_mem_init_data_list(l, m) == AllocEach(l, "c_data", m.datas)
aot_create_table_init_data_list(l, m) == AllocEach(l, "c_elem", m.elems)
aot_create_import_globals(m) ==
  LET imps == Imports(m, "global") IN
  [i \in DOMAIN imps |-> [type |-> imps[i].type, module |-> imps[i].module, name |-> imps[i].name]]
aot_create_globals(m) == m.globals
aot_create_func_types(l, m) == AllocEach(l, "c_type", m.types)
aot_create_import_funcs(m) ==
  LET imps == Imports(m, "func") IN
  [i \in DOMAIN imps |-> [type |-> imps[i].type, module |-> imps[i].module, name |-> imps[i].name]]
aot_create_funcs(l, m) == AllocEach(l, "c_func", m.functions)
aot_create_export_funcs(m) ==
  LET funcs == Of(m.exports, LAMBDA e : e.kind = "func") IN
  [i \in DOMAIN funcs |-> [index |-> funcs[i].index, name |-> funcs[i].name]]

CompKinds == {"comp", "c_data", "c_elem", "c_import_globals", "c_globals", "c_type",
              "c_import_funcs", "c_func", "c_exports"}
aot_destroy_comp_data(held) == {h \in held : h[1] \notin CompKinds}

\* The auxiliary stack of the module is not among what is copied.
aot_create_comp_data(l, quota) ==
  LET m == l.m
      data == aot_create_mem_init_data_list(Alloc([l EXCEPT !.left = quota], <<"comp">>), m)
      elem == aot_create_table_init_data_list(data, m)
      globals == AllocList(AllocList(elem, "c_import_globals", aot_create_import_globals(m)),
                           "c_globals", m.globals)
      funcs == aot_create_funcs(AllocList(aot_create_func_types(globals, m), "c_import_funcs",
                                          aot_create_import_funcs(m)), m)
      done == AllocList(funcs, "c_exports", aot_create_export_funcs(m))
      mem == MemoryOf(m)
  IN IF ~done.ok THEN [done EXCEPT !.held = aot_destroy_comp_data(@)]
     ELSE [done EXCEPT !.m =
             [page |-> mem.page, init |-> mem.init, max |-> mem.max, datas |-> m.datas,
              size |-> TableOf(m).size, elems |-> m.elems, types |-> m.types,
              import_globals |-> aot_create_import_globals(m), globals |-> aot_create_globals(m),
              import_funcs |-> aot_create_import_funcs(m),
              funcs |-> [i \in DOMAIN m.functions |-> m.functions[i].type],
              exports |-> aot_create_export_funcs(m), start |-> m.start,
              aux |-> [data_end |-> 0, bottom |-> 0, size |-> 0, global |-> 0]]]

----------------------------------------------------------------------------
(* The object file: elf is [target, sections, symbols], a section [name,   *)
(* size, rels], a symbol [name, func, section, addr] where func is the     *)
(* number in the name of a compiled function, None for another.            *)

str_starts_with(s, prefix) ==
  Len(s) >= Len(prefix) /\ SubSeq(s, 1, Len(prefix)) = prefix

aot_resolve_target_info(elf) == elf.target
SizeOf(elf, n) ==
  LET hits == Of(elf.sections, LAMBDA s : s.name = n) IN IF hits = <<>> THEN 0 ELSE hits[1].size
aot_resolve_text(elf) == SizeOf(elf, ".text")
aot_resolve_literal(elf) == SizeOf(elf, ".literal")
is_data_section(n) == n \in {".data", ".rodata"} \/ str_starts_with(n, ".rodata.cst")
aot_resolve_object_data_sections(elf) == Of(elf.sections, LAMBDA s : is_data_section(s.name))
is_relocation_section(n) ==
  \/ n \in {".rela.text", ".rel.text", ".rela.literal", ".rela.data", ".rel.data",
            ".rela.rodata", ".rel.rodata"}
  \/ str_starts_with(n, ".rela.rodata.cst") \/ str_starts_with(n, ".rel.rodata.cst")

MutPoolStart(sec, r) ==
  LET addend == IF str_starts_with(sec.name, ".rela") THEN r.addend ELSE 0
      pool == str_starts_with(r.sym.name, ".LCPI")
  IN [offset |-> r.offset, type |-> r.type, addend |-> addend,
      symbol |-> IF pool THEN r.sym.section ELSE r.sym.name]
\* A reference to the constant pool becomes one to the section that holds it.
Relocation(sec, r) ==
  LET addend == IF str_starts_with(sec.name, ".rela") THEN r.addend ELSE 0
      pool == str_starts_with(r.sym.name, ".LCPI")
  IN [offset |-> r.offset, type |-> r.type,
      addend |-> addend + (IF pool THEN r.sym.addr ELSE 0),
      symbol |-> IF pool THEN r.sym.section ELSE r.sym.name]
aot_resolve_object_relocation_group(l, i, sec) ==
  LET made == Alloc(Check(l, sec.rels # <<>>), <<"o_relocations", i>>)
      group == [name |-> sec.name, rels |-> [j \in DOMAIN sec.rels |-> Relocation(sec, sec.rels[j])]]
  IN IF made.ok THEN [made EXCEPT !.m.groups = Append(@, group)] ELSE made
aot_resolve_object_relocation_groups(l, elf) ==
  LET secs == Of(elf.sections, LAMBDA s : is_relocation_section(s.name))
  IN ForEach(aot_resolve_object_relocation_group, AllocList(l, "o_groups", secs), secs)

\* Text offset of every compiled function, by the last symbol that names it.
aot_resolve_functions(elf, count) ==
  [i \in 1..count |->
     LET hits == Of(elf.symbols, LAMBDA s : str_starts_with(s.name, "aot_func#") /\ s.func = i - 1)
     IN IF hits = <<>> THEN 0 ELSE hits[Len(hits)].addr]

ObjectKinds == {"obj", "o_data", "o_groups", "o_relocations", "o_funcs", "o_symbol"}
aot_obj_data_destroy(held) == {h \in held : h[1] \notin ObjectKinds}

aot_obj_data_create(l, elf, quota) ==
  LET datas == aot_resolve_object_data_sections(elf)
      target == aot_resolve_target_info(elf)
      blank == [target |-> target, text |-> aot_resolve_text(elf),
                literal |-> aot_resolve_literal(elf), datas |-> datas, groups |-> <<>>,
                funcs |-> aot_resolve_functions(elf, Len(l.m.funcs))]
      made == Check(Alloc([l EXCEPT !.left = quota, !.m = blank], <<"obj">>), target.bin \in 0..3)
      done == Alloc(aot_resolve_object_relocation_groups(AllocList(made, "o_data", datas), elf),
                    <<"o_funcs">>)
  IN IF done.ok THEN done ELSE [done EXCEPT !.held = aot_obj_data_destroy(@)]

is_32bit_binary(o) == o.target.bin \in {0, 1}

----------------------------------------------------------------------------
(* The size of every part, computed before anything is written.            *)

AlignedSum(sizes, b) ==
  LET f[i \in 0..Len(sizes)] == IF i = 0 THEN 0 ELSE Align(f[i - 1], b) + sizes[i]
  IN f[Len(sizes)]
SumOver(s, Size(_), b) == AlignedSum([i \in DOMAIN s |-> Size(s[i])], b)

get_file_header_size == 8
get_string_size(s) == 2 + Len(s)
get_target_info_section_size == 4 * 2 + 3 * 4 + 16
get_mem_init_data_size(d) == 4 + 8 + 4 + Len(d.bytes)
get_mem_info_size(c) == 4 * 4 + SumOver(c.datas, get_mem_init_data_size, 4)
get_table_init_data_size(e) == 4 + 8 + 4 + 4 * Len(e.funcs)
get_table_info_size(c) == 4 * 2 + SumOver(c.elems, get_table_init_data_size, 4)
get_func_type_size(t) == 4 * 2 + t.params + t.results
get_func_type_info_size(c) == 4 + SumOver(c.types, get_func_type_size, 4)
get_import_global_size(g) == Align(2 + get_string_size(g.module), 2) + get_string_size(g.name)
get_import_global_info_size(c) == 4 + SumOver(c.import_globals, get_import_global_size, 2)
get_global_size(g) == 1 + 1 + 2 + 8
get_global_info_size(c) == 4 + SumOver(c.globals, get_global_size, 4)
get_import_func_size(f) == Align(2 + get_string_size(f.module), 2) + get_string_size(f.name)
get_import_func_info_size(c) == 4 + SumOver(c.import_funcs, get_import_func_size, 2)
get_object_data_section_size(d) == Align(get_string_size(d.name), 4) + 4 + d.size
get_object_data_section_info_size(o) == 4 + SumOver(o.datas, get_object_data_section_size, 2)
MutUnaligned(c, o) ==
  Align(Align(get_mem_info_size(c), 4) + get_table_info_size(c), 4)
    + get_func_type_info_size(c) + get_import_global_info_size(c)
    + get_global_info_size(c) + get_import_func_info_size(c) + 6 * 4
    + get_object_data_section_info_size(o)
get_init_data_section_size(c, o) ==
  Align(AlignedSum(<<get_mem_info_size(c), get_table_info_size(c), get_func_type_info_size(c),
                     get_import_global_info_size(c), get_global_info_size(c),
                     get_import_func_info_size(c)>>, 4), 4)
    + 2 * 4 + 4 * 4 + get_object_data_section_info_size(o)
get_text_section_size(o) == Align(4 + o.literal + o.text, 4)
Pointer(o) == IF is_32bit_binary(o) THEN 4 ELSE 8
get_func_section_size(c, o) == Len(c.funcs) * (Pointer(o) + 4)
get_export_func_size(e) == 4 + get_string_size(e.name)
get_export_section_size(c) == 4 + SumOver(c.exports, get_export_func_size, 4)
get_relocation_size(o) == 2 * Pointer(o) + 4 + 4
get_relocation_group_size(o, g) ==
  4 + 4 + AlignedSum([j \in DOMAIN g.rels |-> get_relocation_size(o)], 4)
get_relocation_groups_size(o) ==
  AlignedSum([i \in DOMAIN o.groups |-> get_relocation_group_size(o, o.groups[i])], 4)

\* Names are numbered in the order they are first met: a group's, then those
\* of its relocations.
get_relocation_symbol_index(list, n) ==
  IF \E i \in DOMAIN list : list[i] = n THEN (CHOOSE i \in DOMAIN list : list[i] = n) - 1
  ELSE Len(list)
NamesOf(g) == <<g.name>> \o [j \in DOMAIN g.rels |-> g.rels[j].symbol]
get_relocation_groups_symbol_size(l, o) ==
  LET one(a, i, n) ==
        IF get_relocation_symbol_index(a.list, n) < Len(a.list) THEN a
        ELSE LET made == Alloc(a, <<"o_symbol", n>>)
             IN IF made.ok THEN [made EXCEPT !.list = Append(@, n)] ELSE made
  IN ForEach(one, [ok |-> TRUE, left |-> l.left, held |-> l.held, list |-> <<>>],
             Each(o.groups, NamesOf))
get_symbol_size_from_symbol_list(list) ==
  Align(AlignedSum([i \in DOMAIN list |-> 2 + Len(list[i])], 2), 2)
get_relocation_section_symbol_size(list) ==
  4 + 4 * Len(list) + 4 + get_symbol_size_from_symbol_list(list)
get_relocation_section_size(o, list) ==
  4 + Align(get_relocation_section_symbol_size(list), 4) + get_relocation_groups_size(o)

\* A symbol that cannot be allocated makes the last size -1, and the buffer
\* too small for the head of that section.
get_aot_file_size(c, o, symbols) ==
  AlignedSum(<<get_file_header_size, 8 + get_target_info_section_size,
               8 + get_init_data_section_size(c, o), 8 + get_text_section_size(o),
               8 + get_func_section_size(c, o), 8 + get_export_section_size(c),
               8 + (IF symbols.ok THEN get_relocation_section_size(o, symbols.list) ELSE -1)>>, 4)

----------------------------------------------------------------------------
(* The writer: where it is, the fields written so far by their offset, and *)
(* the size of the buffer.                                                 *)

Field(n, v) == [n |-> n, v |-> v, pad |-> 1]
EMIT_U8(v) == <<Field(1, v)>>
EMIT_U16(v) == <<Field(2, v)>>
EMIT_U32(v) == <<Field(4, v)>>
EMIT_U64(v) == <<Field(8, v)>>
EMIT_BUF(v, n) == <<Field(n, v)>>
EMIT_STR(s) == EMIT_U16(Len(s)) \o EMIT_BUF(s, Len(s))
align_uint(b) == <<[n |-> 0, v |-> 0, pad |-> b]>>

CHECK_BUF(w, n) == w.ok /\ w.at + n <= w.size
Put(w, i, f) ==
  LET at == Align(w.at, f.pad) IN
  CASE f.n = 0 -> [w EXCEPT !.at = at]
    [] f.n > 0 /\ CHECK_BUF(w, f.n) -> [w EXCEPT !.at = at + f.n, !.cells = @ @@ (at :> f)]
    [] OTHER -> Refuse(w)

\* A part starts on a multiple of 4 and must come out as long as computed.
Emit(w, fields, size) ==
  LET from == Align(w.at, 4)
      done == ForEach(Put, [w EXCEPT !.at = from], fields)
  IN Check(done, done.at - from = size)

InitExpr(e) == <<e.get, e.type>>

aot_emit_file_header(w) ==
  Emit(w, EMIT_U8("0") \o EMIT_U8("a") \o EMIT_U8("o") \o EMIT_U8("t") \o EMIT_U32("version"), 8)
aot_emit_target_info_section(w, o) ==
  LET t == o.target IN
  Emit(w, EMIT_U32("target") \o EMIT_U32(get_target_info_section_size)
            \o EMIT_U16(t.bin) \o EMIT_U16(0) \o EMIT_U16(t.type) \o EMIT_U16(t.machine)
            \o EMIT_U32(t.version) \o EMIT_U32(0) \o EMIT_U32(0) \o EMIT_BUF(t.arch, 16),
       8 + get_target_info_section_size)
aot_emit_mem_info(w, c) ==
  LET one(d) == align_uint(4) \o EMIT_U32(InitExpr(d.offset)) \o EMIT_U64(d.offset.v)
                  \o EMIT_U32(Len(d.bytes)) \o EMIT_BUF(d.bytes, Len(d.bytes))
  IN Emit(w, EMIT_U32(c.page) \o EMIT_U32(c.init) \o EMIT_U32(c.max) \o EMIT_U32(Len(c.datas))
               \o Each(c.datas, one), get_mem_info_size(c))
aot_emit_table_info(w, c) ==
  LET one(e) == align_uint(4) \o EMIT_U32(InitExpr(e.offset)) \o EMIT_U64(e.offset.v)
                  \o EMIT_U32(Len(e.funcs)) \o Each(e.funcs, EMIT_U32)
  IN Emit(w, EMIT_U32(c.size) \o EMIT_U32(Len(c.elems)) \o Each(c.elems, one),
          get_table_info_size(c))
aot_emit_func_type_info(w, c) ==
  LET one(t) == align_uint(4) \o EMIT_U32(t.params) \o EMIT_U32(t.results)
                  \o EMIT_BUF(t, t.params + t.results)
  IN Emit(w, EMIT_U32(Len(c.types)) \o Each(c.types, one), get_func_type_info_size(c))
aot_emit_import_global_info(w, c) ==
  LET one(g) == align_uint(2) \o EMIT_U8(g.type) \o EMIT_U8(0) \o EMIT_STR(g.module)
                  \o align_uint(2) \o EMIT_STR(g.name)
  IN Emit(w, EMIT_U32(Len(c.import_globals)) \o Each(c.import_globals, one),
          get_import_global_info_size(c))
aot_emit_global_info(w, c) ==
  LET one(g) == align_uint(4) \o EMIT_U8(g.type) \o EMIT_U8(g.mutable)
                  \o EMIT_U16(InitExpr(g.init)) \o EMIT_U64(g.init.v)
  IN Emit(w, EMIT_U32(Len(c.globals)) \o Each(c.globals, one), get_global_info_size(c))
aot_emit_import_func_info(w, c) ==
  LET one(f) == align_uint(2) \o EMIT_U16(f.type) \o EMIT_STR(f.module)
                  \o align_uint(2) \o EMIT_STR(f.name)
  IN Emit(w, EMIT_U32(Len(c.import_funcs)) \o Each(c.import_funcs, one),
          get_import_func_info_size(c))
aot_emit_object_data_section_info(w, o) ==
  LET one(d) == align_uint(2) \o EMIT_STR(d.name) \o align_uint(4) \o EMIT_U32(d.size)
                  \o EMIT_BUF(d.name, d.size)
  IN Emit(w, EMIT_U32(Len(o.datas)) \o Each(o.datas, one), get_object_data_section_info_size(o))
aot_emit_init_data_section(w, c, o) ==
  LET from == Align(w.at, 4)
      size == get_init_data_section_size(c, o)
      lists == aot_emit_import_func_info(aot_emit_global_info(aot_emit_import_global_info(
                 aot_emit_func_type_info(aot_emit_table_info(aot_emit_mem_info(
                   Emit(w, EMIT_U32("init") \o EMIT_U32(size), 8), c), c), c), c), c), c)
      counts == Emit(lists, EMIT_U32(Len(c.funcs)) \o EMIT_U32(c.start) \o EMIT_U32(c.aux.data_end)
                              \o EMIT_U32(c.aux.bottom) \o EMIT_U32(c.aux.size)
                              \o EMIT_U32(c.aux.global), 24)
      done == aot_emit_object_data_section_info(counts, o)
  IN Check(done, done.at - from = 8 + size)
aot_emit_text_section(w, o) ==
  Emit(w, EMIT_U32("text") \o EMIT_U32(get_text_section_size(o)) \o EMIT_U32(o.literal)
            \o EMIT_BUF("literal", o.literal) \o EMIT_BUF("text", o.text)
            \o EMIT_BUF(0, get_text_section_size(o) - 4 - o.literal - o.text),
       8 + get_text_section_size(o))
aot_emit_func_section(w, c, o) ==
  LET offset(a) == EMIT_BUF(a, Pointer(o)) IN
  Emit(w, EMIT_U32("function") \o EMIT_U32(get_func_section_size(c, o)) \o Each(o.funcs, offset)
            \o Each(c.funcs, EMIT_U32),
       8 + get_func_section_size(c, o))
aot_emit_export_section(w, c) ==
  LET one(e) == align_uint(4) \o EMIT_U32(e.index) \o EMIT_STR(e.name) IN
  Emit(w, EMIT_U32("export") \o EMIT_U32(get_export_section_size(c))
            \o EMIT_U32(Len(c.exports)) \o Each(c.exports, one),
       8 + get_export_section_size(c))
aot_emit_relocation_symbol_table(list) ==
  LET offset(i) == Align(AlignedSum([j \in 1..i - 1 |-> 2 + Len(list[j])], 2), 2)
      one(s) == EMIT_STR(s) \o align_uint(2)
  IN EMIT_U32(Len(list)) \o Each([i \in DOMAIN list |-> offset(i)], EMIT_U32)
       \o EMIT_U32(offset(Len(list) + 1)) \o Each(list, one)
aot_emit_relocation_section(w, o, list) ==
  LET rel(r) == align_uint(4) \o EMIT_BUF(r.offset, Pointer(o)) \o EMIT_BUF(r.addend, Pointer(o))
                  \o EMIT_U32(r.type) \o EMIT_U32(get_relocation_symbol_index(list, r.symbol))
      one(g) == align_uint(4) \o EMIT_U32(get_relocation_symbol_index(list, g.name))
                  \o align_uint(4) \o EMIT_U32(Len(g.rels)) \o Each(g.rels, rel)
  IN Emit(w, EMIT_U32("relocation") \o EMIT_U32(get_relocation_section_size(o, list))
               \o aot_emit_relocation_symbol_table(list) \o align_uint(4)
               \o EMIT_U32(Len(o.groups)) \o Each(o.groups, one),
          8 + get_relocation_section_size(o, list))

\* The file is the writer's last state.  What the emitter allocates it frees
\* on every path.
EmitSections(c, o, symbols, size) ==
  LET w == [ok |-> symbols.left # 0, at |-> 0, cells |-> <<>>, size |-> size]
      whole(done) == Check(done, done.at = size)
  IN whole(aot_emit_relocation_section(aot_emit_export_section(aot_emit_func_section(
             aot_emit_text_section(aot_emit_init_data_section(aot_emit_target_info_section(
               aot_emit_file_header(w), o), c, o), o), c, o), c), o, symbols.list))
aot_emit_aot_file(l, elf, quota) ==
  LET written(o, symbols) ==
        [file |-> EmitSections(l.m, o, symbols, get_aot_file_size(l.m, o, symbols)),
         held |-> aot_obj_data_destroy(symbols.held)]
      emitted(obj) == IF obj.ok THEN written(obj.m, get_relocation_groups_symbol_size(obj, obj.m))
                      ELSE [file |-> [ok |-> FALSE], held |-> obj.held]
  IN emitted(aot_obj_data_create(l, elf, quota))
=============================================================================
