----------------------------- MODULE MCModules -----------------------------
(* Small binaries, each a base binary with up to two sections varied.      *)
EXTENDS Modules

Const(v) == [get |-> FALSE, type |-> "i32", v |-> v]
Global(g) == [get |-> TRUE, type |-> "i32", v |-> g]
Sec(t, items) == [id |-> t, items |-> items, cut |-> FALSE]
Body == [size |-> 3, valid |-> TRUE, grow |-> FALSE]
Func(m, n, t) == [kind |-> "func", module |-> m, name |-> n, type |-> t, limits |-> 0]
Var(m, n) == [kind |-> "global", module |-> m, name |-> n, type |-> 127, limits |-> 0]
Export(k, n, i) == [kind |-> k, name |-> n, index |-> i]
Glob(mut, e) == [type |-> "i32", mutable |-> mut, init |-> e]

\* The alternatives of every section, the base first.
Options == <<
  [type |-> "type",
   of |-> <<<<[params |-> 0, results |-> 0], [params |-> 2, results |-> 1]>>,
            <<[params |-> 0, results |-> 0], [params |-> 0, results |-> 0]>>,
            <<[params |-> 0, results |-> 2]>>>>],
  [type |-> "import",
   of |-> <<<<Func("env", "puts", 0)>>, <<>>, <<Func("wasi_unstable", "fd_read", 1),
                                               Var("env", "memoryBase")>>,
            <<Var("spectest", "global_i32"), Func("env", "puts", 0)>>,
            <<[kind |-> "memory", module |-> "env", name |-> "memory", type |-> 0,
               limits |-> [init |-> 1, max |-> 9]], Func("env", "puts", 0)>>,
            <<Func("env", "puts", 3)>>, <<Var("env", "unknown")>>>>],
  [type |-> "func", of |-> <<<<0, 1>>, <<0, 0>>, <<0>>, <<0, 5>>>>],
  [type |-> "table", of |-> <<<<[size |-> 2, max |-> None]>>, <<>>, <<[size |-> 1, max |-> 1]>>>>],
  [type |-> "memory", of |-> <<<<[init |-> 2, max |-> None]>>, <<>>, <<[init |-> 0, max |-> 1]>>>>],
  [type |-> "global", of |-> <<<<Glob(1, Const(3)), Glob(0, Const(2)), Glob(0, Const(1))>>,
                               <<>>, <<Glob(1, Const(0))>>, <<Glob(0, Global(0))>>>>],
  [type |-> "export", of |-> <<<<Export("func", "main", 1), Export("global", "__heap_base", 1)>>,
                               <<Export("func", "run", 2), Export("func", "_start", 1),
                                 Export("func", "__post_instantiate", 1)>>,
                               <<Export("func", "puts", 0)>>, <<>>,
                               <<Export("global", "__heap_base", 1),
                                 Export("global", "__data_end", 2), Export("func", "main", 2)>>,
                               <<Export("global", "__data_end", 0)>>>>],
  [type |-> "start", of |-> <<<<1>>, <<0>>, <<9>>>>],
  [type |-> "elem", of |-> <<<<[offset |-> Const(0), funcs |-> <<1, 0>>]>>,
                             <<[offset |-> Const(1), funcs |-> <<1, 2>>]>>,
                             <<[offset |-> Global(1), funcs |-> <<2>>]>>,
                             <<[offset |-> Const(0), funcs |-> <<7>>]>>, <<>>>>],
  [type |-> "code", of |-> <<<<Body, Body>>, <<Body, [Body EXCEPT !.valid = FALSE]>>,
                             <<Body, [Body EXCEPT !.grow = TRUE]>>>>],
  [type |-> "data", of |-> <<<<[offset |-> Const(0), bytes |-> <<5>>],
                               [offset |-> Const(1), bytes |-> <<6, 7, 8>>]>>,
                             <<[offset |-> Const(7), bytes |-> <<9, 9>>]>>,
                             <<[offset |-> Global(0), bytes |-> <<4>>]>>, <<>>>>] >>

MCBinary(pick) == [k \in DOMAIN Options |-> Sec(Options[k].type, Options[k].of[pick[k]])]
Standard == [k \in DOMAIN Options |-> 1]
Varied(i, j) ==
  {MCBinary([[Standard EXCEPT ![i] = a] EXCEPT ![j] = b]) :
     a \in DOMAIN Options[i].of, b \in DOMAIN Options[j].of}
Strange == {[k \in 1..11 |-> MCBinary(Standard)[12 - k]],
            <<Sec("user", <<1>>)>> \o MCBinary(Standard), <<>>,
            [MCBinary(Standard) EXCEPT ![9].cut = TRUE]}
MCBinaries == Strange \cup UNION {Varied(i, j) : i \in 1..11, j \in 1..11}
\* Binaries whose segments take their place from a global have that global.
Linked(b) ==
  \A k \in DOMAIN b : b[k].id \in {"elem", "data", "global"} =>
    \A i \in DOMAIN b[k].items :
      LET e == IF b[k].id = "global" THEN b[k].items[i].init ELSE b[k].items[i].offset IN
      e.get => \E j, n \in DOMAIN b :
        /\ b[j].id = "import" /\ b[n].id = "global"
        /\ LET imps == Len(SelectSeq(b[j].items, LAMBDA x : x.kind = "global")) IN
           e.v < imps + (IF b[k].id = "global" THEN 0 ELSE Len(b[n].items))
MCLinked == {b \in MCBinaries : Linked(b)}
MCRich == {MCBinary(Standard),
           MCBinary([Standard EXCEPT ![2] = 4]), MCBinary([Standard EXCEPT ![10] = 2])}

Fn(i, addr) == [name |-> IF i = 0 THEN "aot_func#0" ELSE "aot_func#1", func |-> i,
                section |-> ".text", addr |-> addr]
Rel(at, type, sym, add) == [offset |-> at, type |-> type, sym |-> sym, addend |-> add]
Sym(n, s, a) == [name |-> n, section |-> s, addr |-> a]
X86 == [bin |-> 2, type |-> "rel", machine |-> "x86_64", version |-> 1, arch |-> "x86_64"]
MCElf(data, rels) ==
  [target |-> X86, symbols |-> <<Fn(0, 0), Fn(1, 4)>>,
   sections |-> <<[name |-> ".text", size |-> 9, rels |-> <<>>]>>
                  \o data \o rels \o <<[name |-> ".comment", size |-> 1, rels |-> <<>>]>>]
CallRels == [name |-> ".rela.text", size |-> 72,
             rels |-> <<Rel(1, "R_X86_64_PLT32", Sym("memset", "", 0), 0),
                        Rel(2, "R_X86_64_PC32", Sym(".LCPI0_0", ".rodata.cst4", 4), 1),
                        Rel(5, "R_X86_64_PC32", Sym("aot_func#1", ".text", 4), 0)>>]
MCObjects ==
  {MCElf(<<>>, <<>>),
   MCElf(<<[name |-> ".rodata.cst4", size |-> 8, rels |-> <<>>]>>, <<CallRels>>),
   MCElf(<<[name |-> ".data", size |-> 8, rels |-> <<>>],
           [name |-> ".rodata.cst4", size |-> 4, rels |-> <<>>]>>,
         <<CallRels, [name |-> ".rela.data", size |-> 24,
                   rels |-> <<Rel(0, "R_X86_64_64", Sym(".text", "", 0), 4)>>]>>),
   MCElf(<<[name |-> ".data", size |-> 6, rels |-> <<>>],
           [name |-> ".rodata.cst4", size |-> 4, rels |-> <<>>]>>, <<>>)}
MCCompiled == ("aot_func#0" :> 0) @@ ("aot_func#1" :> 1)
MCRuntime == <<"aot_set_exception", "memset">>
MCGlobals == (<<"env", "memoryBase">> :> 0) @@ (<<"spectest", "global_i32">> :> 6)
\* Types up to four parameters for a function without a signature, and functions
\* with pointers: p(*~), s($I), q(fi*)i, of which q is also raw elsewhere.
Sig(n) == CASE n = "p" -> <<"(", "*", "~", ")">> [] n = "s" -> <<"(", "$", "I", ")">>
            [] n = "q" -> <<"(", "f", "i", "*", ")", "i">> [] OTHER -> <<>>
Entry(name, p, sig) == [name |-> name, ptr |-> p, signature |-> Sig(sig)]
MCTables ==
  <<[module |-> "env", raw |-> FALSE,
     symbols |-> <<Entry(<<9>>, 1, ""), Entry(<<7, 8>>, 2, "p"), Entry(<<7>>, 3, "s"),
                   Entry(<<7, 8, 1>>, 4, "q"), Entry(<<1>>, 5, "")>>],
    [module |-> "wasi_unstable", raw |-> TRUE, symbols |-> <<Entry(<<9>>, 6, ""), Entry(<<7>>, 7, "q")>>],
    [module |-> "env", raw |-> TRUE, symbols |-> <<Entry(<<9>>, 8, ""), Entry(<<6>>, 9, "p"), Entry(<<0, 9>>, 10, "s")>>]>>
Types4 == UNION {[1..n -> {"i32", "i64", "f32", "f64"}] : n \in 0..4}
Call(m, f, ps, rs, vs) ==
  [module |-> m, field |-> f, type |-> [params |-> ps, results |-> rs], values |-> vs]
MCCalls ==
  {Call("env", <<9>>, ps, <<>>, [i \in 1..Len(ps) |-> 300 + i]) : ps \in Types4}
    \cup {Call("wasi_unstable", <<0, 9>>, ps, <<>>, [i \in 1..Len(ps) |-> 300 + i]) : ps \in Types4}
    \cup {Call("env", f, <<"i32", "i32">>, <<>>, <<off, len>>) :
             f \in {<<7, 8>>, <<0, 7, 8>>, <<6>>}, off \in -9..9, len \in {0, 1, 2, 8, 127}}
    \cup {Call("env", f, <<"i32", "i64">>, <<>>, <<off, 300>>) : f \in {<<7>>, <<0, 9>>}, off \in 0..9}
    \cup {Call(m, f, <<"f32", "i32", "i32">>, rs, <<300, 301, off>>) :
             m \in {"env", "wasi_unstable"}, f \in {<<7, 8, 1>>, <<7>>}, rs \in {<<>>, <<"i32">>}, off \in {-1, 0, 9}}
    \cup {Call("env", f, <<>>, <<>>, <<>>) : f \in {<<1>>, <<2>>, <<8>>, <<0, 1>>, <<7, 8, 2>>}}
MCIntRegs == [x86_64 |-> 3, arm_vfp |-> 4]
MCFloatRegs == [x86_64 |-> 2, arm_vfp |-> 4]
MCIncrements == 0..3 \cup {126}
MCQuotas == 0..56
MCLayouts == {{}, {".rodata.cst4"}}
MCPlenty == 1000
=============================================================================
