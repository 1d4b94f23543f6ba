------------------------------- MODULE WasmAot -------------------------------
(***************************************************************************)
(* The ahead-of-time compiler (core/iwasm/compilation): it translates the  *)
(* code of a function into basic blocks of LLVM IR (aot_compiler.c,        *)
(* aot_emit_control.c, aot_emit_parametric.c, aot_emit_variable.c,         *)
(* aot_emit_function.c).  Each wasm block has its own value stack; its     *)
(* result is a phi of its end block.  A value is a constant or a register: *)
(* the IR builder of LLVM folds operations on constants.  How the IR is    *)
(* executed is external; names, layout of the blocks and allocation        *)
(* failures are left out.                                                  *)
(***************************************************************************)
EXTENDS WasmFast

NoTerm == [k |-> "none", val |-> <<>>, to |-> <<>>]
EmptyBlock == [insts |-> <<>>, term |-> NoTerm, phi |-> 0, in |-> {}, gone |-> FALSE]
ConstVal(v) == [const |-> TRUE, v |-> v]
Reg(r) == [const |-> FALSE, v |-> r]

AOTBlock(kind, ret, id, end, els) ==
  [kind |-> kind, ret |-> ret, id |-> id, els |-> els, end |-> end, entry |-> 0, elseB |-> 0,
   endB |-> 0, phi |-> 0, reach |-> FALSE, skipElse |-> FALSE, vals |-> <<>>]

\* aot_create_func_context, aot_create_func_block: the entry block.
AotInit(prog) ==
  [prog |-> prog, pos |-> 0, p |-> 1, ok |-> TRUE, regs |-> 0, cur |-> 1,
   blocks |-> <<EmptyBlock>>,
   stk |-> <<[AOTBlock("function", RetType, 0, Len(prog), 0) EXCEPT !.entry = 1]>>]

AotTop(c) == c.stk[Len(c.stk)]
At(c, n) == Len(c.stk) - n

\* POP, PUSH: aot_value_stack_pop and aot_value_stack_push of the current block.
AotPop(c) ==
  LET n == Len(AotTop(c).vals) IN
  IF n = 0 THEN [c EXCEPT !.ok = FALSE]
  ELSE [c EXCEPT !.stk[Len(c.stk)].vals = SubSeq(@, 1, n - 1)]
AotVal(c) == LET vs == AotTop(c).vals IN IF vs = <<>> THEN ConstVal(Junk) ELSE vs[Len(vs)]
AotPush(c, v) == [c EXCEPT !.stk[Len(c.stk)].vals = Append(@, v)]

CreateBlock(c) == [c EXCEPT !.blocks = Append(@, EmptyBlock)]
SetBuilderPos(c, b) == [c EXCEPT !.cur = b]
Terminate(c, k, val, to) ==
  IF c.blocks[c.cur].term # NoTerm THEN [c EXCEPT !.ok = FALSE]
  ELSE [c EXCEPT !.blocks[c.cur].term = [k |-> k, val |-> val, to |-> to]]
BuildBr(c, b) == Terminate(c, "br", <<>>, <<b>>)
AddInst(c, op, n, args) ==
  [c EXCEPT !.regs = @ + 1,
            !.blocks[c.cur].insts =
              Append(@, [op |-> op, n |-> n, args |-> args, dst |-> c.regs + 1])]

\* The end block of a wasm block is created by the first that needs it.
NeedEnd(c, k) ==
  IF c.stk[k].endB # 0 THEN c
  ELSE LET d == CreateBlock(c) IN [d EXCEPT !.stk[k].endB = Len(d.blocks)]

\* CREATE_RETURN_VALUE_PHI, ADD_TO_RETURN_PHI
AddToReturnPhi(c, k, v) ==
  LET b == c.stk[k]
      reg == IF b.phi = 0 THEN c.regs + 1 ELSE b.phi
      d == IF b.phi # 0 THEN c
           ELSE [c EXCEPT !.regs = reg, !.stk[k].phi = reg, !.blocks[b.endB].phi = reg]
  IN IF b.ret = "void" THEN c ELSE [d EXCEPT !.blocks[b.endB].in = @ \cup {<<c.cur, v>>}]

\* The end blocks that nothing reaches stay in the function.
MutKeepsEnds(c) ==
  LET live == {k \in DOMAIN c.stk : c.stk[k].reach}
      r == IF live = {} THEN 0 ELSE CHOOSE k \in live : \A j \in live : j <= k
  IN [c EXCEPT !.stk = SubSeq(@, 1, r)]
\* The blocks that cannot be reached are left; the end block of an if among them
\* is deleted.
LeaveUnreachable(c) ==
  LET live == {k \in DOMAIN c.stk : c.stk[k].reach}
      r == IF live = {} THEN 0 ELSE CHOOSE k \in live : \A j \in live : j <= k
      gone == {c.stk[k].endB : k \in {j \in r + 1..Len(c.stk) : c.stk[j].kind = "if"}} \ {0}
  IN [c EXCEPT !.stk = SubSeq(@, 1, r),
               !.blocks = [b \in DOMAIN @ |-> [@[b] EXCEPT !.gone = @ \/ b \in gone]]]

aot_handle_next_reachable_block(c) ==
  LET top == AotTop(c)
      left == LeaveUnreachable(c)
      b == AotTop(left)
      out == SetBuilderPos([left EXCEPT !.stk = SubSeq(@, 1, Len(@) - 1), !.p = b.end + 1], b.endB)
  IN IF top.kind = "if" /\ top.elseB # 0 /\ ~top.skipElse /\ c.pos < top.els
     THEN SetBuilderPos([c EXCEPT !.stk[Len(c.stk)].vals = <<>>, !.p = top.els + 1], top.elseB)
     ELSE IF left.stk = <<>> THEN [left EXCEPT !.p = Len(c.prog) + 1]
     ELSE IF b.kind = "function"
     THEN Terminate(out, "ret", IF b.ret = "void" THEN <<>> ELSE <<Reg(b.phi)>>, <<>>)
     ELSE IF b.ret = "void" THEN out ELSE AotPush(out, Reg(b.phi))

aot_compile_op_block(c, i) ==
  LET els == FindElse(c.prog, c.pos)
      end == FindEnd(c.prog, c.pos)
      new == AOTBlock(i.op, i.t, c.pos, end, els)
      cond == AotVal(c)
      d == CreateBlock(IF i.op = "if" THEN AotPop(c) ELSE c)
      one == Len(d.blocks)
      open(e, b) == [e EXCEPT !.stk = Append(@, b)]
  IN CASE i.op \in {"block", "loop"} \/ (i.op = "if" /\ cond.const /\ cond.v # 0) ->
            SetBuilderPos(open(BuildBr(d, one), [new EXCEPT !.entry = one,
                                                            !.skipElse = i.op = "if"]), one)
       [] i.op = "if" /\ ~cond.const /\ els # 0 ->
            LET e == CreateBlock(CreateBlock(d)) IN
            SetBuilderPos(open(Terminate(e, "cond", <<cond>>, <<one, one + 2>>),
                               [new EXCEPT !.entry = one, !.endB = one + 1,
                                           !.elseB = one + 2]), one)
       [] i.op = "if" /\ ~cond.const /\ els = 0 ->
            LET e == CreateBlock(d) IN
            SetBuilderPos(open(Terminate(e, "cond", <<cond>>, <<one, one + 1>>),
                               [new EXCEPT !.entry = one, !.endB = one + 1,
                                           !.reach = TRUE]), one)
       [] i.op = "if" /\ cond.const /\ cond.v = 0 /\ els # 0 ->
            SetBuilderPos([open(BuildBr(d, one), [new EXCEPT !.elseB = one])
                             EXCEPT !.p = els + 1], one)
       [] i.op = "if" /\ cond.const /\ cond.v = 0 /\ els = 0 ->
            [AotPop(c) EXCEPT !.p = end + 1]

\* The value of the block becomes an incoming value of its phi and the end block
\* the successor.
LeaveTo(c, k) ==
  LET d == NeedEnd(c, k)
      v == AotVal(d)
      e == IF d.stk[k].ret = "void" THEN d ELSE AotPop(AddToReturnPhi(d, k, v))
  IN BuildBr([e EXCEPT !.stk[k].reach = TRUE], d.stk[k].endB)

aot_compile_op_else(c) ==
  LET left == LeaveTo(c, Len(c.stk))
      top == AotTop(left)
  IN IF ~top.skipElse /\ top.elseB # 0
     THEN SetBuilderPos([left EXCEPT !.stk[Len(c.stk)].vals = <<>>], top.elseB)
     ELSE aot_handle_next_reachable_block(left)

aot_compile_op_end(c) == aot_handle_next_reachable_block(LeaveTo(c, Len(c.stk)))

aot_compile_op_br(c, n) ==
  LET k == At(c, n) IN
  aot_handle_next_reachable_block(
    IF c.stk[k].kind = "loop" THEN BuildBr(c, c.stk[k].entry) ELSE LeaveTo(c, k))

\* A conditional branch keeps the value of the block on the stack.
TargetOf(c, k) == IF c.stk[k].kind = "loop" THEN c.stk[k].entry ELSE c.stk[k].endB
PrepareTarget(c, k) ==
  IF c.stk[k].kind = "loop" THEN c
  ELSE LET d == NeedEnd(c, k) IN
       AddToReturnPhi([d EXCEPT !.stk[k].reach = TRUE,
                         !.ok = @ /\ (d.stk[k].ret = "void" \/ AotTop(d).vals # <<>>)],
                      k, AotVal(d))

aot_compile_op_br_if(c, n) ==
  LET cond == AotVal(c)
      popped == AotPop(c)
      k == At(c, n)
      d == CreateBlock(popped)
      e == PrepareTarget(d, k)
  IN IF cond.const THEN (IF cond.v # 0 THEN aot_compile_op_br(popped, n) ELSE popped)
     ELSE SetBuilderPos(Terminate(e, "cond", <<cond>>, <<TargetOf(e, k), Len(d.blocks)>>),
                        Len(d.blocks))

\* The table of a br_table has one entry, n; its default is 0.
aot_compile_op_br_table(c, n) ==
  LET cond == AotVal(c)
      popped == AotPop(c)
      e == PrepareTarget(PrepareTarget(popped, At(c, n)), At(c, 0))
  IN IF cond.const THEN aot_compile_op_br(popped, IF cond.v = 0 THEN n ELSE 0)
     ELSE aot_handle_next_reachable_block(
            Terminate(e, "switch", <<cond>>, <<TargetOf(e, At(c, n)), TargetOf(e, At(c, 0))>>))

aot_compile_op_return(c) ==
  aot_handle_next_reachable_block(
    IF RetType = "void" THEN Terminate(c, "ret", <<>>, <<>>)
    ELSE Terminate(AotPop(c), "ret", <<AotVal(c)>>, <<>>))

aot_compile_op_unreachable(c) == aot_handle_next_reachable_block(Terminate(c, "trap", <<>>, <<>>))

\* An instruction of which all operands are constants is folded, unless it reads
\* or changes memory.
Folds == {"i32_add", "i64_add", "i32_eqz", "i64_eqz", "i64_extend"}
AotCompute(c, op) ==
  LET n == Len(Sig[op].in)
      vs == AotTop(c).vals
      args == SubSeq(vs, Len(vs) - n + 1, Len(vs))
      popped == [c EXCEPT !.stk[Len(c.stk)].vals = SubSeq(@, 1, Len(vs) - n)]
      built == AddInst(popped, op, 0, args)
  IN IF Len(vs) < n THEN [c EXCEPT !.ok = FALSE]
     ELSE IF op \in Folds /\ \A k \in 1..n : args[k].const
     THEN AotPush(popped, ConstVal(Result(op, [k \in 1..n |-> args[k].v], 0)))
     ELSE IF Sig[op].out = "void" THEN built ELSE AotPush(built, Reg(built.regs))

\* The call of another function of the module, with its arguments.
aot_compile_op_call(c) == AotCompute(c, "call")
compile_global(c, op) == AotCompute(c, op)
aot_compile_op_drop(c) == AotPop(c)
aot_compile_op_const(c, i) == AotPush(c, ConstVal(i.n))

aot_compile_op_select(c) ==
  LET vs == AotTop(c).vals
      n == Len(vs)
      args == SubSeq(vs, n - 2, n)
      popped == AotPop(AotPop(AotPop(c)))
      built == AddInst(popped, "select", 0, args)
  IN IF n < 3 THEN [c EXCEPT !.ok = FALSE]
     ELSE IF \A k \in 1..3 : args[k].const
     THEN AotPush(popped, args[IF args[3].v # 0 THEN 1 ELSE 2])
     ELSE AotPush(built, Reg(built.regs))

aot_compile_op_local(c, i) ==
  LET v == AotVal(c) IN
  CASE i.op = "local_get" ->
         LET d == AddInst(c, i.op, i.n, <<>>) IN AotPush(d, Reg(d.regs))
    [] i.op = "local_set" -> AddInst(AotPop(c), i.op, i.n, <<v>>)
    [] i.op = "local_tee" -> AotPush(AddInst(AotPop(c), i.op, i.n, <<v>>), v)

aot_compile_func_op(c, i) ==
  CASE i.op \in Opens -> aot_compile_op_block(c, i)
    [] i.op = "else" -> aot_compile_op_else(c)
    [] i.op = "end" -> aot_compile_op_end(c)
    [] i.op = "br" -> aot_compile_op_br(c, i.n)
    [] i.op = "br_if" -> aot_compile_op_br_if(c, i.n)
    [] i.op = "br_table" -> aot_compile_op_br_table(c, i.n)
    [] i.op = "return" -> aot_compile_op_return(c)
    [] i.op = "unreachable" -> aot_compile_op_unreachable(c)
    [] i.op = "drop" -> aot_compile_op_drop(c)
    [] i.op = "select" -> aot_compile_op_select(c)
    [] i.op \in {"local_get", "local_set", "local_tee"} -> aot_compile_op_local(c, i)
    [] i.op = "const" -> aot_compile_op_const(c, i)
    [] i.op = "call" -> aot_compile_op_call(c)
    [] i.op \in DOMAIN GlobalSig -> compile_global(c, i.op)
    [] OTHER -> AotCompute(c, i.op)

AotStep(c, i) ==
  LET at == [c EXCEPT !.pos = @ + 1] IN
  IF ~c.ok \/ at.pos < c.p THEN at ELSE aot_compile_func_op([at EXCEPT !.p = @ + 1], i)
AotCompile(prog) == FoldLeft(AotStep, AotInit(prog), prog)

----------------------------------------------------------------------------
(* LLVM: the IR that a verifier accepts, and what it computes.             *)

Succ(c, b) == {c.blocks[b].term.to[k] : k \in DOMAIN c.blocks[b].term.to}
Preds(c, b) == {a \in DOMAIN c.blocks : ~c.blocks[a].gone /\ b \in Succ(c, a)}
WellFormedIR(c) ==
  \A b \in {a \in DOMAIN c.blocks : ~c.blocks[a].gone} :
    /\ c.blocks[b].term.k # "none"
    /\ \A a \in Succ(c, b) : ~c.blocks[a].gone
    /\ c.blocks[b].phi # 0 =>
         /\ {e[1] : e \in c.blocks[b].in} = Preds(c, b)
         /\ \A e, f \in c.blocks[b].in : e[1] = f[1] => e = f

Operand(m, v) == IF v.const THEN v.v ELSE m.reg[v.v]
ExecInst(m, x) ==
  LET a == [k \in DOMAIN x.args |-> Operand(m, x.args[k])] IN
  IF x.op \in DOMAIN Sig
  THEN [m EXCEPT !.reg[x.dst] = Result(x.op, a, m.g), !.g = NewGlobal(x.op, a, m.g)]
  ELSE IF x.op = "select" THEN [m EXCEPT !.reg[x.dst] = IF a[3] # 0 THEN a[1] ELSE a[2]]
  ELSE IF x.op = "local_get" THEN [m EXCEPT !.reg[x.dst] = m.locals[x.n]]
  ELSE [m EXCEPT !.locals[x.n] = a[1]]
ExecBlock(m, c) ==
  LET b == c.blocks[m.b]
      edge == CHOOSE e \in b.in : e[1] = m.from
      phi == IF b.phi = 0 THEN m ELSE [m EXCEPT !.reg[b.phi] = Operand(m, edge[2])]
      done == FoldLeft(ExecInst, phi, b.insts)
      v == IF b.term.val = <<>> THEN 0 ELSE Operand(done, b.term.val[1])
      go(k) == [done EXCEPT !.from = m.b, !.b = b.term.to[k]]
  IN CASE b.term.k = "br" -> go(1)
       [] b.term.k = "cond" -> go(IF v # 0 THEN 1 ELSE 2)
       [] b.term.k = "switch" -> go(IF v = 0 THEN 1 ELSE 2)
       [] b.term.k = "ret" -> [done EXCEPT !.status = "done", !.out = v]
       [] b.term.k = "trap" -> [done EXCEPT !.status = "trap"]
AotRun(c) ==
  FoldLeft(LAMBDA m, k : IF m.status = "run" THEN ExecBlock(m, c) ELSE m,
           [b |-> 1, from |-> 0, reg |-> [r \in 1..c.regs |-> Junk], locals |-> Args, g |-> 0,
            status |-> "run", out |-> 0],
           [k \in 1..2 * Fuel |-> k])
=============================================================================
