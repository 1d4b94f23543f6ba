----------------------------- MODULE WasmClassic -----------------------------
(***************************************************************************)
(* The control of the classic interpreter (wasm_interp_classic.c): a frame *)
(* of 32-bit cells with the locals, the operand stack of                   *)
(* max_stack_cell_num cells above them and the stack of blocks.  An i64    *)
(* takes two cells; a cell never written holds Junk.                       *)
(***************************************************************************)
EXTENDS WasmSpec

CONSTANTS FrameCells   \* bound on the cells of a frame

Junk == -1

\* PUT_I64_TO_ADDR, GET_I64_FROM_ADDR: the two halves of an i64.
Halves(t, v) ==
  IF t # "i64" THEN <<v>>
  ELSE IF v = Junk THEN <<Junk, Junk>> ELSE <<v % M, v \div M>>
WriteCells(lp, a, t, v) ==
  [x \in DOMAIN lp |-> IF x \in a..a + Cells(t) - 1 THEN Halves(t, v)[x - a + 1] ELSE lp[x]]
ReadCells(lp, a, t) ==
  IF t # "i64" THEN lp[a]
  ELSE IF Junk \in {lp[a], lp[a + 1]} THEN Junk ELSE lp[a] + M * lp[a + 1]

\* The frame at the start of a function: the arguments and the zeroed locals.
InitialCells ==
  LET empty == [x \in 0..FrameCells |-> Junk]
      put[k \in 0..Len(Args)] ==
        IF k = 0 THEN empty
        ELSE WriteCells(put[k - 1], LocalOffset(k), LocalTypes[k], Args[k])
  IN put[Len(Args)]

\* call_func_from_entry: the function block is the first of the block stack.
ClassicInit(prog) ==
  [ip |-> 1, lp |-> InitialCells, sp |-> StartDynamic, maxSp |-> StartDynamic, maxCsp |-> 1,
   csp |-> <<[ret |-> RetType, sp |-> StartDynamic, target |-> Len(prog)]>>,
   g |-> 0, status |-> "run", out |-> 0]

PushCell(s, t, v) ==
  [s EXCEPT !.lp = WriteCells(@, s.sp, t, v), !.sp = @ + Cells(t),
            !.maxSp = Larger(@, s.sp + Cells(t))]
TopCell(s, t) == ReadCells(s.lp, s.sp - Cells(t), t)

PUSH_CSP(s, ret, target) ==
  [s EXCEPT !.csp = Append(@, [ret |-> ret, sp |-> s.sp, target |-> target]),
            !.maxCsp = Larger(@, Len(s.csp) + 1)]

\* POP_CSP_N: the value of the block, whatever its kind, is copied down and
\* execution goes on at the target of the block.
POP_CSP_N(s, n) ==
  LET k == Len(s.csp) - n
      b == s.csp[k]
      down == [s EXCEPT !.csp = SubSeq(@, 1, k), !.ip = b.target, !.sp = b.sp]
  IN IF b.ret = "void" THEN down ELSE PushCell(down, b.ret, TopCell(s, b.ret))

\* return_func
ClassicReturn(s) ==
  [s EXCEPT !.status = "done",
            !.out = IF RetType = "void" THEN 0 ELSE TopCell(s, RetType)]

----------------------------------------------------------------------------
(* The handlers.                                                           *)

HandleBlock(s, prog) ==
  LET i == prog[s.ip]
      next == [s EXCEPT !.ip = @ + 1]
      popped == [next EXCEPT !.sp = @ - 1]
      cond == TopCell(s, "i32")
      els == FindElse(prog, s.ip)
      end == FindEnd(prog, s.ip)
  IN CASE i.op = "block" -> PUSH_CSP(next, i.t, end)
       [] i.op = "loop" -> PUSH_CSP(next, i.t, s.ip + 1)
       [] i.op = "if" /\ cond # 0 -> PUSH_CSP(popped, i.t, end)
       [] i.op = "if" /\ cond = 0 /\ els # 0 ->
            [PUSH_CSP(popped, i.t, end) EXCEPT !.ip = els + 1]
       [] i.op = "if" /\ cond = 0 /\ els = 0 ->
            [popped EXCEPT !.ip = end + 1, !.maxCsp = Larger(@, Len(s.csp) + 1)]

HandleElseEnd(s, op) ==
  CASE op = "else" -> [s EXCEPT !.ip = s.csp[Len(s.csp)].target]
    [] op = "end" /\ Len(s.csp) > 1 ->
         [s EXCEPT !.ip = @ + 1, !.csp = SubSeq(@, 1, Len(@) - 1)]
    [] op = "end" /\ Len(s.csp) = 1 -> ClassicReturn(s)

HandleBr(s, i) ==
  LET cond == TopCell(s, "i32")
      popped == [s EXCEPT !.sp = @ - 1]
  IN CASE i.op = "br" -> POP_CSP_N(s, i.n)
       [] i.op = "br_if" ->
            IF cond # 0 THEN POP_CSP_N(popped, i.n) ELSE [popped EXCEPT !.ip = @ + 1]
       [] i.op = "br_table" -> POP_CSP_N(popped, IF cond = 0 THEN i.n ELSE 0)

\* DROP and SELECT, which the loader has turned into their 64 bit forms where
\* the operand has two cells.
HandleParametric(s, op, t) ==
  LET cond == TopCell(s, "i32")
      second == [s EXCEPT !.sp = @ - 1 - Cells(t)]
      other == ReadCells(s.lp, second.sp, t)
  IN CASE op = "drop" -> [s EXCEPT !.sp = @ - Cells(t), !.ip = @ + 1]
       [] op = "select" ->
            [second EXCEPT !.ip = @ + 1,
               !.lp = IF cond # 0 THEN @ ELSE WriteCells(@, second.sp - Cells(t), t, other)]

HandleLocal(s, i) ==
  LET t == LocalTypes[i.n]
      a == LocalOffset(i.n)
      next == [s EXCEPT !.ip = @ + 1]
      stored == [next EXCEPT !.lp = WriteCells(@, a, t, TopCell(s, t))]
  IN CASE i.op = "local_get" -> PushCell(next, t, ReadCells(s.lp, a, t))
       [] i.op = "local_set" -> [stored EXCEPT !.sp = @ - Cells(t)]
       [] i.op = "local_tee" -> stored

\* The handlers that pop operands and push one result.
HandleCompute(s, op) ==
  LET in == Sig[op].in
      base == s.sp - SumCells(in)
      a == [k \in DOMAIN in |-> ReadCells(s.lp, base + SumCells(SubSeq(in, 1, k - 1)), in[k])]
      r == IF Junk \in {a[k] : k \in DOMAIN a} THEN Junk ELSE Result(op, a, s.g)
      popped == [s EXCEPT !.ip = @ + 1, !.sp = base,
                          !.g = IF r = Junk THEN Junk ELSE NewGlobal(op, a, s.g)]
  IN IF Sig[op].out = "void" THEN popped ELSE PushCell(popped, Sig[op].out, r)

\* call_func_from_interp copies the arguments to the callee and takes its result
\* off its stack.
call_func(s) == HandleCompute(s, "call")
HandleGlobal(s, op) == HandleCompute(s, op)

\* kinds gives drop and select the type the loader found.
ClassicStep(s, prog, kinds) ==
  LET i == prog[s.ip] IN
  CASE i.op \in Opens -> HandleBlock(s, prog)
    [] i.op \in {"else", "end"} -> HandleElseEnd(s, i.op)
    [] i.op \in {"br", "br_if", "br_table"} -> HandleBr(s, i)
    [] i.op = "return" -> ClassicReturn(s)
    [] i.op = "unreachable" -> [s EXCEPT !.status = "trap"]
    [] i.op \in {"drop", "select"} -> HandleParametric(s, i.op, kinds[s.ip])
    [] i.op \in {"local_get", "local_set", "local_tee"} -> HandleLocal(s, i)
    [] i.op = "const" -> PushCell([s EXCEPT !.ip = @ + 1], i.t, i.n)
    [] i.op = "call" -> call_func(s)
    [] i.op \in DOMAIN GlobalSig -> HandleGlobal(s, i.op)
    [] OTHER -> HandleCompute(s, i.op)

ClassicRun(prog, kinds) ==
  FoldLeft(LAMBDA s, k : IF s.status = "run" THEN ClassicStep(s, prog, kinds) ELSE s,
           ClassicInit(prog), [k \in 1..2 * Fuel |-> k])
=============================================================================
