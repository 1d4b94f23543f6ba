----------------------------- MODULE WasmLoader -----------------------------
(***************************************************************************)
(* wasm_loader_prepare_bytecode: the pass over the code of a function that *)
(* types it, finds its frame size and, for the fast interpreter, rewrites  *)
(* stack code into code whose operands are slots of the frame              *)
(* (core/iwasm/interpreter/wasm_loader.c).  The code is scanned twice: the *)
(* first scan only measures, the second emits.  An instruction is a record *)
(* [op, t, n]; f32 and f64 behave as i32 and i64 here and are left out, as *)
(* are the bytes of the code, allocation failures and the error texts.     *)
(***************************************************************************)
EXTENDS Integers, Sequences, FiniteSets, SequencesExt

CONSTANTS
  LocalTypes,   \* types of the parameters and locals, in order
  RetType       \* result type of the function

\* wasm_value_type_cell_num
Cells(t) == CASE t = "i64" -> 2 [] t = "i32" -> 1 [] OTHER -> 0

SumCells(ts) == FoldLeft(LAMBDA n, t : n + Cells(t), 0, ts)
\* local_offsets
LocalOffset(x) == SumCells(SubSeq(LocalTypes, 1, x - 1))
StartDynamic == SumCells(LocalTypes)

\* Operand and result types of the instructions that only compute.  One of each
\* shape stands for the rest; the callee has one parameter and a result.
CompareSig == [i32_eqz |-> [in |-> <<"i32">>, out |-> "i32"], i64_eqz |-> [in |-> <<"i64">>, out |-> "i32"]]
NumericSig == [i32_add |-> [in |-> <<"i32", "i32">>, out |-> "i32"],
               i64_add |-> [in |-> <<"i64", "i64">>, out |-> "i64"]]
ConversionSig == [i64_extend |-> [in |-> <<"i32">>, out |-> "i64"]]
CallSig == [call |-> [in |-> <<"i32">>, out |-> "i32"]]
GlobalSig == [global_get |-> [in |-> <<>>, out |-> "i32"], global_set |-> [in |-> <<"i32">>, out |-> "void"]]
Sig == CompareSig @@ NumericSig @@ ConversionSig @@ CallSig @@ GlobalSig
\* LAST_OP_OUTPUT_I32, LAST_OP_OUTPUT_I64: the instructions whose last operand is
\* their result, so that a following set_local may redirect it.
LastOpOutput == {"i32_add", "i32_eqz", "i64_add", "i64_eqz", "i64_extend"}

NoSlot == 99
Blank == [op |-> "none", src |-> <<>>, dst |-> NoSlot, cells |-> 0, br |-> <<>>, id |-> 0]

\* wasm_loader_push_frame_csp
NewBlock(st, kind, ret, id) ==
  [kind |-> kind, ret |-> ret, id |-> id, height |-> Len(st.refs), dyn |-> st.dyn,
   reach |-> FALSE, start |-> Len(st.code) + 1]

\* wasm_loader_ctx_init, wasm_loader_ctx_reinit: the second scan starts from the
\* largest dynamic offset of the first and keeps the constants.
Context(prog, pass, maxDyn, consts) ==
  LET st == [pass |-> pass, refs |-> <<>>, fo |-> 0, offs |-> [k \in 1..16 |-> 0],
             dyn |-> StartDynamic, maxDyn |-> maxDyn, maxRefs |-> 0, maxCsp |-> 1,
             pres |-> IF pass = 1 THEN 0 ELSE maxDyn,
             csp |-> <<>>, code |-> <<>>, consts |-> consts,
             ends |-> [b \in 0..16 |-> 0], elses |-> [b \in 0..16 |-> 0],
             last |-> "none", isConst |-> FALSE, constVal |-> 0,
             prog |-> prog, pos |-> 0, p |-> 1, ok |-> TRUE]
  IN [st EXCEPT !.csp = <<[NewBlock(st, "function", RetType, 0) EXCEPT !.reach = TRUE]>>]

Top(st) == st.csp[Len(st.csp)]
Depth(st, n) == Len(st.csp) - n

Larger(a, b) == IF a > b THEN a ELSE b

\* The maximum is taken before the push.
MutMaxBeforePush(st, t) ==
  [st EXCEPT !.refs = @ \o [k \in 1..Cells(t) |-> t], !.maxRefs = Larger(@, Len(st.refs))]
\* wasm_loader_push_frame_ref, wasm_loader_pop_frame_ref
PushRef(st, t) ==
  LET r == st.refs \o [k \in 1..Cells(t) |-> t] IN
  [st EXCEPT !.refs = r, !.maxRefs = Larger(@, Len(r))]
\* check_stack_pop: the operand is there and has the type.
HasOperand(st, t) ==
  /\ Len(st.refs) >= Cells(t)
  /\ \A k \in Len(st.refs) - Cells(t) + 1..Len(st.refs) : st.refs[k] = t
PopRef(st, t) ==
  IF ~HasOperand(st, t) THEN [st EXCEPT !.ok = FALSE]
  ELSE [st EXCEPT !.refs = SubSeq(@, 1, Len(@) - Cells(t))]

\* wasm_loader_push_frame_offset: of a value in two cells the second entry of
\* frame_offset keeps what it held.
PushSlot(st, t, slot) ==
  IF Cells(t) = 0 THEN st
  ELSE [st EXCEPT !.offs[st.fo + 1] = slot, !.fo = @ + Cells(t)]
PushDynamic(st, t) ==
  LET d == st.dyn + Cells(t) IN
  [PushSlot(st, t, st.dyn) EXCEPT !.dyn = d, !.maxDyn = Larger(@, d)]

\* wasm_loader_pop_frame_offset
PopSlot(st, t) ==
  LET o == st.offs[st.fo - Cells(t) + 1] IN
  IF Cells(t) = 0 THEN st
  ELSE [st EXCEPT !.fo = @ - Cells(t),
                  !.dyn = IF o > StartDynamic /\ o < st.maxDyn THEN @ - Cells(t) ELSE @]
TopSlot(st, t) == st.offs[st.fo - Cells(t) + 1]

Push(st, t) == PushRef(PushDynamic(st, t), t)
Pop(st, t) == PopRef(PopSlot(st, t), t)
Emit(st, instr) == [st EXCEPT !.code = Append(@, instr)]

\* wasm_loader_get_const_offset: equal constants of a type share a slot.
ConstSlot(consts, c) ==
  LET k == CHOOSE i \in DOMAIN consts : consts[i] = c IN
  -SumCells([i \in 1..k |-> consts[i].t])
WithConst(st, c) ==
  IF \E i \in DOMAIN st.consts : st.consts[i] = c THEN st
  ELSE [st EXCEPT !.consts = Append(@, c)]

\* wasm_loader_emit_br_info
BrInfo(st, n) ==
  LET b == st.csp[Depth(st, n)]
      t == IF b.kind = "loop" THEN "void" ELSE b.ret
  IN [dyn |-> b.dyn, cells |-> Cells(t), from |-> IF Cells(t) = 0 THEN 0 ELSE TopSlot(st, t),
      loop |-> b.kind = "loop", start |-> b.start, id |-> b.id]

\* wasm_loader_check_br checks the operand of a branch and marks its target.
CheckBr(st, n) ==
  LET b == st.csp[Depth(st, n)] IN
  IF b.kind = "loop" THEN st
  ELSE [st EXCEPT !.csp[Depth(st, n)].reach = TRUE, !.ok = @ /\ HasOperand(st, b.ret)]

(***************************************************************************)
(* wasm_loader_find_block_addr: the position of the end of the block that  *)
(* starts at a position (0: the function), and of its else, 0 if it has    *)
(* none, found by counting the blocks opened and closed in between.        *)
(***************************************************************************)
Opens == {"block", "loop", "if"}
Nesting(prog, start, p) ==
  1 + Cardinality({q \in start + 1..p : prog[q].op \in Opens})
    - Cardinality({q \in start + 1..p : prog[q].op = "end"})
FindEnd(prog, start) ==
  CHOOSE p \in start + 1..Len(prog) :
    /\ prog[p].op = "end" /\ Nesting(prog, start, p) = 0
    /\ \A q \in start + 1..p - 1 : Nesting(prog, start, q) > 0
FindElse(prog, start) ==
  LET found == {p \in start + 1..FindEnd(prog, start) :
                  prog[p].op = "else" /\ Nesting(prog, start, p) = 1}
  IN IF start = 0 \/ found = {} THEN 0 ELSE CHOOSE p \in found : TRUE

\* The code of the else branch comes next.
ResumeAtElse(st) ==
  LET b == Top(st) IN
  [st EXCEPT !.fo = b.height, !.elses[b.id] = Len(st.code) + 1,
             !.p = FindElse(st.prog, b.id) + 1, !.isConst = FALSE]

(***************************************************************************)
(* handle_next_reachable_block: what follows is skipped up to the else or  *)
(* the end of the innermost block marked reachable.                        *)
(***************************************************************************)
HandleNextReachableBlock(st) ==
  LET r == CHOOSE i \in 1..Len(st.csp) :
             /\ st.csp[i].reach
             /\ \A j \in i + 1..Len(st.csp) : ~st.csp[j].reach
      b == st.csp[r]
      left == [st EXCEPT !.refs = SubSeq(@, 1, b.height), !.csp = SubSeq(@, 1, r)]
      result == PushRef(left, b.ret)
  IN IF b.kind = "if" /\ FindElse(st.prog, b.id) >= st.pos THEN ResumeAtElse(left)
     ELSE [result EXCEPT !.p = FindEnd(st.prog, b.id), !.fo = Len(result.refs),
                         !.isConst = FALSE]

\* preserve_referenced_local: a value on the operand stack that is read from the
\* local about to be set is copied to a slot of its own first.
PreserveLocal(st, x, t) ==
  LET local == LocalOffset(x)
      hit == {i \in 1..Len(st.refs) : st.offs[i] = local}
  IN IF hit = {} THEN st
     ELSE [Emit(st, [Blank EXCEPT !.op = "copy", !.src = <<local>>, !.dst = st.pres,
                                  !.cells = Cells(t)])
             EXCEPT !.pres = IF st.pass = 2 THEN @ + Cells(t) ELSE @,
                    !.offs = [i \in DOMAIN @ |-> IF i \in hit THEN st.pres ELSE @[i]]]

\* The result of a block is moved to the dynamic offset the block started at.
CopyResult(st, b) ==
  IF Cells(b.ret) = 0 \/ TopSlot(st, b.ret) = b.dyn THEN st
  ELSE Emit(st, [Blank EXCEPT !.op = "copy", !.src = <<TopSlot(st, b.ret)>>,
                              !.dst = b.dyn, !.cells = Cells(b.ret)])

----------------------------------------------------------------------------
(* One opcode of the switch of wasm_loader_prepare_bytecode.               *)

LoadBlock(st, i) ==
  LET popped == IF i.op = "if" THEN Pop(st, "i32") ELSE st
      b == NewBlock(popped, i.op, i.t, st.pos)
      cond == IF i.op = "if" THEN Emit(popped, [Blank EXCEPT !.op = "if", !.id = st.pos,
                                                  !.src = <<TopSlot(st, "i32")>>])
              ELSE popped
      pushed == [cond EXCEPT !.maxCsp = Larger(@, Len(st.csp) + 1),
                   !.csp = Append(@, [b EXCEPT !.reach = i.op = "if" /\ ~st.isConst])]
  IN IF ~(i.op = "if" /\ st.isConst /\ st.constVal = 0) THEN pushed
     ELSE IF FindElse(st.prog, st.pos) # 0 THEN ResumeAtElse(pushed)
     ELSE [pushed EXCEPT !.p = FindEnd(st.prog, st.pos), !.isConst = FALSE]

LoadElse(st) ==
  LET b == Top(st)
      copied == CopyResult(st, b)
      moved == IF Cells(b.ret) = 0 THEN copied
               ELSE [copied EXCEPT !.offs[st.fo - Cells(b.ret) + 1] = b.dyn]
      jump == Emit(moved, [Blank EXCEPT !.op = "else", !.id = b.id])
  IN [jump EXCEPT !.refs = SubSeq(@, 1, b.height), !.fo = b.height,
                  !.elses[b.id] = Len(jump.code) + 1]

LoadEnd(st) ==
  LET b == Top(st)
      popped == [st EXCEPT !.csp = SubSeq(@, 1, Len(@) - 1)]
      copied == CopyResult([popped EXCEPT !.ok = @ /\ HasOperand(st, b.ret)], b)
      moved == IF Cells(b.ret) = 0 THEN copied
               ELSE PushDynamic([copied EXCEPT !.fo = @ - Cells(b.ret), !.dyn = b.dyn], b.ret)
      patched == [moved EXCEPT !.ends[b.id] = Len(moved.code) + 1]
  IN IF b.kind # "function" THEN patched
     ELSE PopSlot(Emit(patched, [Blank EXCEPT !.op = "return", !.cells = Cells(b.ret),
                     !.src = IF Cells(b.ret) = 0 THEN <<>> ELSE <<TopSlot(patched, b.ret)>>]),
                  b.ret)

LoadBranch(st, i) ==
  LET cond == IF i.op = "br" THEN st ELSE Pop(st, "i32")
      targets == IF i.op = "br_table" THEN <<i.n, 0>> ELSE <<i.n>>
      marked == FoldLeft(CheckBr, cond, targets)
      out == Emit(marked, [Blank EXCEPT !.op = i.op,
                    !.src = IF i.op = "br" THEN <<>> ELSE <<TopSlot(st, "i32")>>,
                    !.br = [k \in DOMAIN targets |-> BrInfo(cond, targets[k])]])
  IN IF i.op # "br_if" THEN HandleNextReachableBlock(out)
     ELSE IF ~st.isConst THEN [out EXCEPT !.csp[Depth(st, i.n)].reach = TRUE]
     ELSE IF st.constVal # 0 THEN HandleNextReachableBlock(out)
     ELSE out

LoadReturn(st) ==
  LET out == Emit(PopSlot(st, RetType), [Blank EXCEPT !.op = "return", !.cells = Cells(RetType),
                    !.src = IF Cells(RetType) = 0 THEN <<>> ELSE <<TopSlot(st, RetType)>>])
  IN HandleNextReachableBlock([out EXCEPT !.fo = Len(st.refs),
                                          !.ok = @ /\ HasOperand(st, RetType)])

\* The type on top decides between drop and drop_64, select and select_64.
TopType(st) == st.refs[Len(st.refs)]

LoadDrop(st) ==
  LET t == TopType(st) IN
  PopRef([st EXCEPT !.fo = @ - Cells(t),
                    !.dyn = IF TopSlot(st, t) > StartDynamic THEN @ - Cells(t) ELSE @], t)

LoadSelect(st) ==
  LET s1 == Pop(st, "i32")
      t == TopType(s1)
      s2 == Pop(s1, t)
      s3 == Pop(s2, t)
  IN Emit(Push(s3, t), [Blank EXCEPT !.op = "select", !.cells = Cells(t), !.dst = s3.dyn,
            !.src = <<TopSlot(st, "i32"), TopSlot(s1, t), TopSlot(s2, t)>>])

LoadLocal(st, i) ==
  LET t == LocalTypes[i.n]
      x == LocalOffset(i.n)
      unref == PopRef(st, t)
      kept == PreserveLocal(IF i.op = "local_set" THEN unref ELSE st, i.n, t)
      preserved == Len(kept.code) > Len(st.code)
      store == [Blank EXCEPT !.op = "set", !.src = <<TopSlot(kept, t)>>, !.dst = x,
                             !.cells = Cells(t)]
  IN CASE i.op = "local_get" -> PushRef(PushSlot(st, t, x), t)
       [] i.op = "local_tee" -> Emit(kept, store)
       [] i.op = "local_set" /\ ~preserved /\ st.last \in LastOpOutput ->
            [kept EXCEPT !.code[Len(kept.code)].dst = x, !.fo = @ - Cells(t),
                         !.dyn = @ - Cells(t)]
       [] OTHER -> Emit(PopSlot(kept, t), store)

LoadConst(st, i) ==
  LET c == [t |-> i.t, v |-> i.n]
      s == WithConst(st, c)
      out == PushRef(PushSlot(s, i.t, ConstSlot(s.consts, c)), i.t)
  IN IF i.t = "i32" THEN [out EXCEPT !.isConst = TRUE, !.constVal = i.n] ELSE out

LoadCompute(st, i) ==
  LET sig == Sig[i.op]
      args == FoldRight(LAMBDA t, s : Pop(s, t), sig.in, st)
      slots == [k \in DOMAIN sig.in |->
                  st.offs[st.fo - SumCells(SubSeq(sig.in, k, Len(sig.in))) + 1]]
  IN Emit(Push(args, sig.out),
          [Blank EXCEPT !.op = i.op, !.src = slots,
                        !.dst = IF sig.out = "void" THEN NoSlot ELSE args.dyn,
                        !.cells = Cells(sig.out)])

LoadOp(st, i) ==
  CASE i.op \in {"block", "loop", "if"} -> LoadBlock(st, i)
    [] i.op = "else" -> LoadElse(st)
    [] i.op = "end" -> LoadEnd(st)
    [] i.op \in {"br", "br_if", "br_table"} -> LoadBranch(st, i)
    [] i.op = "return" -> LoadReturn(st)
    [] i.op = "unreachable" ->
         HandleNextReachableBlock(Emit(st, [Blank EXCEPT !.op = "unreachable"]))
    [] i.op = "drop" -> LoadDrop(st)
    [] i.op = "select" -> LoadSelect(st)
    [] i.op \in {"local_get", "local_set", "local_tee"} -> LoadLocal(st, i)
    [] i.op = "const" -> LoadConst(st, i)
    [] OTHER -> LoadCompute(st, i)

(***************************************************************************)
(* One turn of the loop; a turn that jumps over code leaves last_op alone. *)
(* What the turn jumps over is not looked at.                              *)
(***************************************************************************)
SetLastOp(done, pos, i) ==
  IF done.p > pos + 1 \/ i.op \in {"br", "br_table", "return", "unreachable"} THEN done
  ELSE [done EXCEPT !.last = i.op,
                    !.isConst = IF i.op = "const" /\ i.t = "i32" THEN @ ELSE FALSE]
LoadStep(st, i) ==
  LET at == [st EXCEPT !.pos = @ + 1] IN
  IF ~st.ok \/ at.pos < st.p THEN at
  ELSE SetLastOp(LoadOp([at EXCEPT !.p = @ + 1], i), at.pos, i)

Measure(prog) == FoldLeft(LoadStep, Context(prog, 1, StartDynamic, <<>>), prog)
Compile(prog, st) == FoldLeft(LoadStep, Context(prog, 2, st.maxDyn, st.consts), prog)

\* max_stack_cell_num of the function: of the classic build, and the number of
\* slots of the fast build's frame after its locals.
ClassicCells(st) == st.maxRefs
FastSlots(st) == st.pres - StartDynamic + 1
=============================================================================
