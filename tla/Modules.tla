------------------------------ MODULE Modules ------------------------------
(***************************************************************************)
(* One WebAssembly binary through the tool chain: loaded, compiled ahead   *)
(* of time into a file, the file loaded, instances made by both runtimes   *)
(* and everything released.  In each step one allocation may fail.         *)
(***************************************************************************)
EXTENDS Natives

CONSTANTS
  Binaries,      \* the binaries tried
  Objects,       \* the object files LLVM may produce
  Rich,          \* the binaries for which allocations fail and natives are called
  Quotas,        \* the allocation that fails, Plenty for none
  Plenty,
  AppHeap,       \* the heap size an embedder asks for
  Layouts,       \* the mappings out of the reach of 32 bits
  Base,          \* native address of a linear memory
  CompiledFuncs, \* the number in the name of every compiled function
  Increments,    \* pages a program asks for
  Tables,        \* the tables of native functions, in the order of registration
  Calls          \* calls of native functions: [module, field, type, values]

VARIABLES
  phase,         \* the step done last, "failed" or "undefined"
  bin, elf,      \* the binary, and the object file it is compiled into
  quota,         \* the allocation that failed, or Plenty
  wasm,          \* the module, after its instances as they left it
  comp,          \* its compilation data
  file,          \* the AOT file
  aot,           \* the module loaded from it
  inst,          \* the interpreter's two instances and the AOT one
  ran,           \* what the instances ran: [kind, ...], with both outcomes
  held           \* what is allocated

vars == <<phase, bin, elf, quota, wasm, comp, file, aot, inst, ran, held>>

Init ==
  /\ phase = "new" /\ bin \in Binaries /\ elf = <<>>
  /\ quota = Plenty /\ held = {}
  /\ wasm = <<>> /\ comp = <<>> /\ file = <<>> /\ aot = <<>> /\ inst = <<>>
  /\ ran = [kind |-> "nothing"]

\* In phase p, with memory for q allocations, and a step to phase p after which h is held.
At(p, q) == phase = p /\ q \in (IF bin \in Rich THEN Quotas ELSE {}) \cup {Plenty}
\* After a wild access nothing can be said.
Step(p, l, q) ==
  /\ phase' = IF l.wild THEN "undefined" ELSE IF l.ok THEN p ELSE "failed"
  /\ quota' = IF l.ok THEN Plenty ELSE q
  /\ held' = l.held /\ UNCHANGED <<bin, ran>>
Done(l) == [l EXCEPT !.left = Plenty]

wasm_runtime_load(q) ==
  /\ At("new", q)
  /\ \E l \in {wasm_loader_load(bin, q)} :
       Step("loaded", l, q) /\ wasm' = Done(l)
  /\ UNCHANGED <<elf, comp, file, aot, inst>>

Compile(q) ==
  /\ At("loaded", q)
  /\ \E l \in {aot_create_comp_data(wasm, q)} :
       Step("compiled", l, q) /\ comp' = Done(l)
  /\ UNCHANGED <<elf, wasm, file, aot, inst>>

\* The object file LLVM makes has no symbol of a function that is not compiled.
Produces(c, e) ==
  LET named(n) == n \in DOMAIN CompiledFuncs => CompiledFuncs[n] < Len(c.funcs) IN
  \A i \in DOMAIN e.sections : \A j \in DOMAIN e.sections[i].rels :
    named(e.sections[i].rels[j].sym.name)
EmitFile(q) ==
  /\ At("compiled", q)
  /\ \E e \in {o \in Objects : Produces(comp.m, o)} :
     \E r \in {aot_emit_aot_file([comp EXCEPT !.held = held], e, q)} :
       /\ Step("emitted", [ok |-> r.file.ok, held |-> r.held, wild |-> FALSE], q)
       /\ file' = r.file /\ elf' = e
  /\ UNCHANGED <<wasm, comp, aot, inst>>

LoadFile(q) ==
  /\ At("emitted", q)
  /\ \E far \in Layouts : \E l \in {aot_load_from_aot_file(file, CompiledFuncs, far, held, q)} :
       Step("read", l, q) /\ aot' = Done(l)
  /\ UNCHANGED <<elf, wasm, comp, file, inst>>

\* How the initialization of wasi may end, and which of the functions that run
\* first throws an exception, 0 for none; one step fails in one way.
Ends(q) == IF bin \in Rich /\ q = Plenty THEN {"full", "late", "ok"} \X {0, 1, 2} ELSE {<<"ok", 0>>}

\* Twice from the same module, the first instance released before the second.
Instantiate(q) ==
  LET before == IF phase = "once" THEN wasm_deinstantiate(held) ELSE held IN
  /\ phase \in {"read", "once"} /\ At(phase, q)
  /\ \E e \in Ends(q) :
     \E r \in {wasm_instantiate([wasm EXCEPT !.held = before], AppHeap, q, e[1], e[2])} :
       /\ Step(IF phase = "read" THEN "once" ELSE "twice", r.l, q)
       /\ wasm' = Done(r.l) /\ inst' = Append(inst, [ok |-> r.l.ok, i |-> r.inst, wild |-> FALSE])
  /\ UNCHANGED <<elf, comp, file, aot>>

InstantiateAot(q) ==
  /\ At("twice", q)
  /\ \E e \in Ends(q) :
     \E r \in {aot_instantiate([aot EXCEPT !.held = held], AppHeap, q, e[1], e[2])} :
       /\ Step("all", r.l, q)
       /\ inst' = Append(inst, [ok |-> r.l.ok, i |-> r.inst, wild |-> r.wild])
  /\ UNCHANGED <<elf, wasm, comp, file, aot>>

\* The loader lets only a module that has a memory grow it.
MayGrow ==
  /\ phase = "all" /\ MemoryOf(wasm.m).page > 0
  /\ \E i \in DOMAIN bin : bin[i].id = "code" /\ \E j \in DOMAIN bin[i].items : bin[i].items[j].grow

\* AOT code grows the memory of its instance.
Grow(inc, memory) ==
  LET a == aot_compile_op_memory_grow(inst[3].i, MemoryOf(wasm.m), inc, memory)
  IN /\ MayGrow /\ phase' = "ran"
     /\ ran' = [kind |-> "grow", inc |-> inc, aot |-> a.ret]
     /\ inst' = [inst EXCEPT ![3].i = a.inst]
     /\ UNCHANGED <<bin, elf, quota, wasm, comp, file, aot, held>>

\* The interpreter does, and nothing can be said of what follows.
GrowInterpreted ==
  /\ MayGrow /\ phase' = "undefined"
  /\ ran' = [kind |-> "undefined", wasm |-> wasm_enlarge_memory]
  /\ UNCHANGED <<bin, elf, quota, wasm, comp, file, aot, inst, held>>

\* Both call an imported function of the runtime.
CallNative(target, c) ==
  /\ phase = "all" /\ phase' = "ran" /\ bin \in Rich
  /\ \E link \in {wasm_native_resolve_symbol(wasm_native_init(Tables), c.module, c.field, c.type)} :
       ran' = [kind |-> "native", target |-> target, call |-> c, link |-> link,
               wasm |-> wasm_interp_call_func_native(link, target, c.type.params, inst[2].i,
                                                     c.values, Base),
               aot |-> aot_invoke_native(link, target, c.type.params, inst[3].i, c.values, Base)]
  /\ UNCHANGED <<bin, elf, quota, wasm, comp, file, aot, inst, held>>

Release ==
  /\ phase \in {"failed", "all", "ran"} /\ phase' = "released"
  /\ held' = wasm_loader_unload(aot_destroy_comp_data(aot_unload(
               wasm_deinstantiate(aot_deinstantiate(held)))))
  /\ UNCHANGED <<bin, elf, quota, wasm, comp, file, aot, inst, ran>>

Next ==
  \/ \E q \in Quotas \cup {Plenty} :
       \/ wasm_runtime_load(q) \/ Compile(q) \/ EmitFile(q) \/ LoadFile(q)
       \/ Instantiate(q) \/ InstantiateAot(q)
  \/ \E inc \in Increments, memory \in BOOLEAN : Grow(inc, memory)
  \/ GrowInterpreted
  \/ \E target \in Targets, c \in Calls : CallNative(target, c)
  \/ Release

Spec == Init /\ [][Next]_vars

----------------------------------------------------------------------------
(* Properties.                                                             *)

\* The emitter computes the size of the file before it writes it, part by part,
\* and fails when a part comes out longer or shorter or runs over the buffer.
\* For every module the loader accepts and every object file whose data
\* sections are whole words long, it fails only where an allocation does.
EmittedFits ==
  phase = "failed" /\ comp # <<>> /\ comp.ok /\ aot = <<>> /\ file # <<>> /\ quota = Plenty =>
    \E i \in DOMAIN elf.sections : is_data_section(elf.sections[i].name)
                                     /\ elf.sections[i].size % 4 # 0

\* What the AOT loader reads from a file is what the compiler put into it: every
\* read meets the field written at that place, the module has the same lists,
\* and the only files refused without a failed allocation are those that export
\* an imported function or start with one, and those with a relocation to a section
\* mapped out of reach.
LoadedAsWritten ==
  aot # <<>> =>
    /\ ~aot.wild
    /\ aot.ok =>
         LET a == aot.m c == comp.m IN
         /\ <<a.page, a.init, a.max, a.datas, a.size, a.elems>>
              = <<c.page, c.init, c.max, c.datas, c.size, c.elems>>
         /\ <<a.types, a.import_globals, a.globals, a.import_funcs, a.funcs, a.exports, a.start>>
              = <<c.types, c.import_globals, c.globals, c.import_funcs, c.funcs, c.exports, c.start>>
         /\ a.sections = [i \in DOMAIN a.sections |->
              [name |-> a.sections[i].name, size |-> SizeOf(elf, a.sections[i].name)]]
    /\ ~aot.ok /\ quota = Plenty =>
         LET n == Len(comp.m.import_funcs) IN
         (comp.m.start # None /\ comp.m.start < n)
           \/ (\E i \in DOMAIN comp.m.exports : comp.m.exports[i].index < n)
           \/ \E i \in DOMAIN elf.sections : \E j \in DOMAIN elf.sections[i].rels :
                elf.sections[i].rels[j].sym.section \in aot.far

\* The patch p does what the relocation r asks for.
Links(p, r) ==
  /\ p.at = r.offset
  /\ CASE p.to[1] = "func" -> /\ p.addend = r.addend
                             /\ \E k \in DOMAIN elf.symbols : /\ elf.symbols[k].name = r.sym.name
                                                              /\ elf.symbols[k].addr = p.to[2]
       [] p.to[1] = "plt" -> Runtime[p.to[2] + 1] = r.sym.name
       [] p.to[1] = "data" -> p.to[2] = r.sym.section /\ p.addend = r.addend + r.sym.addr
       [] p.to[1] = "code" -> r.sym.name = ".text" /\ p.addend = r.addend
       [] OTHER -> FALSE
RelsOf(sec) == sec.rels

\* Every relocation of the object file is applied once, in its order, and links
\* to what the compiler meant: a compiled function to its own code, a constant
\* to its place in the section that holds it, a name of the runtime to the entry
\* of the PLT that jumps there.
LinkedAsCompiled ==
  aot # <<>> /\ aot.ok =>
    LET rels == Each(elf.sections, RelsOf) IN
    /\ Len(aot.m.patched) = Len(rels)
    /\ \A i \in DOMAIN rels : Links(aot.m.patched[i], rels[i])

\* Segments of the table lie in it, and imported globals are 0: where they do
\* not, AOT code writes past the table, and has 0 for the global.
SegmentsFit(m) ==
  \A i \in DOMAIN m.elems :
    LET g == globals_instantiate_fix(m, memory_instantiate(MemoryOf(m)))
        at == Offset(m.elems[i].offset, g)
    IN at < TableOf(m).size => at + Len(m.elems[i].funcs) <= TableOf(m).size
ImportsZero(m) ==
  LET g == globals_instantiate_fix(m, memory_instantiate(MemoryOf(m)))
  IN \A i \in 1..Len(Imports(m, "global")) : g[i] = 0

Offsets(m) == [i \in DOMAIN m.datas |-> m.datas[i].offset]
                \o [i \in DOMAIN m.elems |-> m.elems[i].offset]

\* The interpreter and AOT code start an application from the same state: linear
\* memory, table, globals, heap size and the functions run first; both find the
\* same main function; and a module instantiated again gives the same instance.
\* A memory that AOT code grows keeps its contents and is 0 beyond them, or is left
\* alone, and the rest of the instance stays as it was.
\* Not so when the place of a segment comes from a global, which wasm_instantiate
\* overwrites with the value.
InstancesAgree ==
  phase \in {"all", "ran"} /\ SegmentsFit(wasm.m) /\ ImportsZero(wasm.m)
      /\ (\A i \in DOMAIN Offsets(wasm.m) : ~Offsets(wasm.m)[i].get) =>
    LET w == inst[2].i a == inst[3].i
        grown == IF ran.kind = "grow" /\ ran.aot # -1 THEN MemoryOf(wasm.m).page * ran.inc ELSE 0
    IN
    /\ ~inst[3].wild /\ w = inst[1].i
    /\ a.memory = w.memory \o [k \in 1..grown |-> 0]
    /\ <<w.table, w.globals, w.heap>> = <<a.table, a.globals, a.heap>>
    /\ grown > 0 => Len(a.memory) <= MemoryOf(wasm.m).page * MemoryOf(wasm.m).max
    /\ (ExportedFunc(wasm.m, "__post_instantiate") = None => w.runs = a.runs)
    /\ wasm_application_execute_main(wasm.m) = aot_application_execute_main(aot.m)
    /\ \A n \in {"main", "run"}, k \in 0..2 :
         wasm_application_execute_func(wasm.m, n, k) = aot_application_execute_func(aot.m, n, k)

\* A call through the table ends the same way in both, for every element and
\* type; an address either accepts lies in the heap or the linear memory, to its
\* last byte, and comes back from the native address it stands for.
CallsAgree ==
  phase = "all" /\ inst[1].i.table = inst[3].i.table =>
    LET w == inst[1].i a == inst[3].i s == Space(w, Base) t == Space(a, Base) IN
    /\ \A type \in 0..Len(comp.m.types) - 1, val \in 0..Len(w.table) + 1 :
         wasm_call_indirect_op(wasm.m, w, type, val) = aot_call_indirect(aot.m, a, type, val)
    /\ \A off \in -s.heap - 1..s.size + 1, size \in (0..s.size + 1) \cup {Half, 2 * Half - 1} :
         /\ wasm_validate_app_addr(s, off, size) = aot_validate_app_addr(t, off, size)
         /\ wasm_validate_app_addr(s, off, size) =>
              -s.heap < off /\ off + size <= s.size
         /\ wasm_addr_app_to_native(s, off) # 0 =>
              /\ wasm_addr_native_to_app(s, wasm_addr_app_to_native(s, off)) = off
              /\ wasm_addr_app_to_native(s, off) = aot_addr_app_to_native(t, off)
              /\ wasm_validate_app_addr(s, off, 1)
              /\ wasm_validate_native_addr(s, s.base + off, 1)

\* The symbols an import may be linked to, the pointers that leave the memory, and
\* what the native function is to receive.
Fits(c, sym) == sym.signature = <<>> \/ check_symbol_signature(c.type, sym.signature)
Named(c, n) == {<<i, j>> \in (DOMAIN Tables) \X (1..9) :
                  j \in DOMAIN Tables[i].symbols /\ Tables[i].module = c.module
                    /\ Tables[i].symbols[j].name = n}
Symbols(c) ==
  LET all == Named(c, c.field) \cup (IF c.field[1] = Underscore THEN Named(c, Tail(c.field)) ELSE {})
      first == {x \in all : \A y \in all : x[1] <= y[1]}
      exact == first \cap Named(c, c.field)
  IN IF exact # {} THEN exact ELSE first
Inside(i, off, len) == -i.heap < off /\ off + len <= Len(i.memory)
BadPointer(i, c, sig) ==
  \E k \in DOMAIN c.type.params :
    \/ sig[k + 1] = "*" /\ ~Inside(i, c.values[k], IF sig[k + 2] = "~" THEN c.values[k + 1] ELSE 1)
    \/ sig[k + 1] = "$" /\ ~\E e \in c.values[k] + 1..Len(i.memory) : i.memory[e] = 0
Squeezed(params) ==
  \E i, j \in DOMAIN params : i < j /\ params[i] \in Wide /\ params[j] \notin Wide
                              /\ Class(params[i]) = Class(params[j])
Given(i, c, sig, k) ==
  IF sig # <<>> /\ sig[k + 1] \in {"*", "$"}
  THEN IF c.values[k] < Len(i.memory) THEN Base + c.values[k] ELSE 0
  ELSE c.values[k]

\* An imported function is linked to the first table of its module that has it,
\* by its name or without the underscore, if its type fits; it is called unless a
\* pointer or string leaves the memory, finds every argument where the calling
\* convention of the target has it and its pointers in the memory of the instance
\* to the last byte of their length, and nothing is put past the end of argv_buf.
\* Not so on ARM with a floating-point unit for a 32-bit argument behind a 64-bit
\* one of the same class, which the code puts into another register.
NativeCalled ==
  ran.kind = "native" =>
    LET c == ran.call
        linked == {x \in Symbols(c) : Fits(c, Tables[x[1]].symbols[x[2]])}
        sig == ran.link.signature
    IN /\ ran.link.linked = (linked # {})
       /\ ran.link.linked =>
            \E x \in linked : ran.link.symbol = Tables[x[1]].symbols[x[2]].ptr
       /\ \A e \in {<<ran.wasm, inst[2].i>>, <<ran.aot, inst[3].i>>} :
            ran.link.linked =>
              /\ e[1].ran <=> (sig = <<>> \/ ~BadPointer(e[2], c, sig))
              /\ e[1].slots.used <= e[1].slots.room
              /\ e[1].ran /\ ~(ran.target = "arm_vfp" /\ ~ran.link.raw /\ Squeezed(c.type.params)) =>
                   \A k \in DOMAIN c.type.params : e[1].got[k] = Given(e[2], c, sig, k)

\* Whatever step failed, releasing the rest leaves nothing allocated, but for
\* two leaks: the block address cache of a module with an invalid body, and the
\* relocation groups of a file one of whose relocations is refused.
NothingHeld ==
  phase = "released" =>
    held \subseteq (IF comp = <<>> THEN {<<"block_addr_cache">>} ELSE {})
      \cup (IF aot # <<>> /\ aot.kept
            THEN {<<"groups">>} \cup ({"relocations"} \X (1..Len(elf.sections))) ELSE {})
=============================================================================
