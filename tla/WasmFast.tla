------------------------------ MODULE WasmFast ------------------------------
(***************************************************************************)
(* The control of the fast interpreter (wasm_interp_fast.c): it runs the   *)
(* code that WasmLoader emits.  Operands and results are slots of one      *)
(* frame: the constants below the locals, the locals, the dynamic slots    *)
(* and the slots of preserved locals.  There is no block stack: a branch   *)
(* carries its result slot and its target.                                 *)
(***************************************************************************)
EXTENDS WasmClassic

\* call_func_from_entry: the constants of the function are copied below the
\* locals.
FastInit(st) ==
  LET low == -SumCells([k \in DOMAIN st.consts |-> st.consts[k].t])
      at(x) == {k \in DOMAIN st.consts :
                  LET a == ConstSlot(st.consts, st.consts[k])
                  IN x \in a..a + Cells(st.consts[k].t) - 1}
      cell(x) == LET k == CHOOSE j \in at(x) : TRUE
                     c == st.consts[k]
                 IN Halves(c.t, c.v)[x - ConstSlot(st.consts, c) + 1]
  IN [ip |-> 1, g |-> 0, status |-> "run", out |-> 0,
      lp |-> [x \in low..FrameCells |-> IF x < 0 THEN cell(x) ELSE InitialCells[x]]]

TypeOfCells(n) == IF n = 2 THEN "i64" ELSE "i32"
GetSlot(s, a, n) == ReadCells(s.lp, a, TypeOfCells(n))
SetSlot(s, a, n, v) == [s EXCEPT !.lp = WriteCells(@, a, TypeOfCells(n), v)]

\* RECOVER_BR_INFO: the result of the block is moved to its slot.
RecoverBrInfo(s, b, st) ==
  LET moved == IF b.cells = 0 THEN s ELSE SetSlot(s, b.dyn, b.cells, GetSlot(s, b.from, b.cells))
  IN [moved EXCEPT !.ip = IF b.loop THEN b.start ELSE st.ends[b.id]]

FastBranch(s, i, st) ==
  LET next == [s EXCEPT !.ip = @ + 1]
      cond == GetSlot(s, i.src[1], 1)
  IN CASE i.op = "br" -> RecoverBrInfo(s, i.br[1], st)
       [] i.op = "br_if" -> IF cond # 0 THEN RecoverBrInfo(s, i.br[1], st) ELSE next
       [] i.op = "br_table" -> RecoverBrInfo(s, i.br[IF cond = 0 THEN 1 ELSE 2], st)
       [] i.op = "if" ->
            IF cond # 0 THEN next
            ELSE [s EXCEPT !.ip = IF st.elses[i.id] # 0 THEN st.elses[i.id] ELSE st.ends[i.id]]
       [] i.op = "else" -> [s EXCEPT !.ip = st.ends[i.id]]

FastReturn(s, i) ==
  [s EXCEPT !.status = "done",
            !.out = IF i.cells = 0 THEN 0 ELSE GetSlot(s, i.src[1], i.cells)]

FastSelect(s, i) ==
  LET pick == IF GetSlot(s, i.src[1], 1) # 0 THEN i.src[3] ELSE i.src[2] IN
  SetSlot([s EXCEPT !.ip = @ + 1], i.dst, i.cells, GetSlot(s, pick, i.cells))

\* EXT_OP_COPY_STACK_TOP, EXT_OP_SET_LOCAL_FAST, EXT_OP_TEE_LOCAL_FAST
FastCopy(s, i) ==
  SetSlot([s EXCEPT !.ip = @ + 1], i.dst, i.cells, GetSlot(s, i.src[1], i.cells))

FastCompute(s, i) ==
  LET a == [k \in DOMAIN i.src |-> GetSlot(s, i.src[k], Cells(Sig[i.op].in[k]))]
      r == IF Junk \in {a[k] : k \in DOMAIN a} THEN Junk ELSE Result(i.op, a, s.g)
      next == [s EXCEPT !.ip = @ + 1, !.g = IF r = Junk THEN Junk ELSE NewGlobal(i.op, a, s.g)]
  IN IF i.cells = 0 THEN next ELSE SetSlot(next, i.dst, i.cells, r)

FastCall(s, i) == FastCompute(s, i)
FastGlobal(s, i) == FastCompute(s, i)

\* A jump whose label was never patched leads nowhere.
FastStep(s, st) ==
  LET i == st.code[s.ip] IN
  CASE s.ip \notin DOMAIN st.code -> [s EXCEPT !.status = "wild"]
    [] i.op \in {"br", "br_if", "br_table", "if", "else"} -> FastBranch(s, i, st)
    [] i.op = "return" -> FastReturn(s, i)
    [] i.op = "unreachable" -> [s EXCEPT !.status = "trap"]
    [] i.op = "select" -> FastSelect(s, i)
    [] i.op \in {"copy", "set"} -> FastCopy(s, i)
    [] i.op = "call" -> FastCall(s, i)
    [] i.op \in DOMAIN GlobalSig -> FastGlobal(s, i)
    [] OTHER -> FastCompute(s, i)

FastRun(st) ==
  FoldLeft(LAMBDA s, k : IF s.status = "run" THEN FastStep(s, st) ELSE s,
           FastInit(st), [k \in 1..2 * Fuel |-> k])
=============================================================================
