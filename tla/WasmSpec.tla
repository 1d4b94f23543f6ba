------------------------------ MODULE WasmSpec ------------------------------
(***************************************************************************)
(* The WebAssembly standard for one function: which code is valid, and     *)
(* what valid code computes.  It is the reference that the engines of the  *)
(* runtime are compared with; no code of the repository is modelled here.  *)
(* An i32 is a number below M, an i64 one below M * M.                     *)
(***************************************************************************)
EXTENDS WasmLoader

CONSTANTS
  M,         \* number of i32 values
  Args,      \* initial values of the parameters and locals
  Fuel       \* bound on the steps of an execution

Size(t) == IF t = "i64" THEN M * M ELSE M

\* What a computing instruction returns.  The called function adds its argument
\* to the global and returns the argument plus one.
Result(op, a, g) ==
  CASE op = "i32_add" -> (a[1] + a[2]) % M
    [] op = "i64_add" -> (a[1] + a[2]) % (M * M)
    [] op \in {"i32_eqz", "i64_eqz"} -> IF a[1] = 0 THEN 1 ELSE 0
    [] op = "i64_extend" -> a[1]
    [] op = "call" -> (a[1] + 1) % M
    [] op = "global_get" -> g
    [] OTHER -> 0
NewGlobal(op, a, g) ==
  CASE op = "call" -> (g + a[1]) % M [] op = "global_set" -> a[1] [] OTHER -> g

----------------------------------------------------------------------------
(* Validation.  "any" is an operand of unreachable code.                   *)

ValidInit ==
  [ok |-> TRUE, vals |-> <<>>,
   ctrl |-> <<[kind |-> "function", ret |-> RetType, height |-> 0, dead |-> FALSE]>>]

Frame(v) == v.ctrl[Len(v.ctrl)]
PopVal(v, t) ==
  LET n == Len(v.vals) IN
  IF t = "void" THEN v
  ELSE IF n = Frame(v).height THEN [v EXCEPT !.ok = @ /\ Frame(v).dead]
  ELSE [v EXCEPT !.vals = SubSeq(@, 1, n - 1), !.ok = @ /\ v.vals[n] \in {t, "any"}]
PushVal(v, t) == IF t = "void" THEN v ELSE [v EXCEPT !.vals = Append(@, t)]
TopVal(v) == IF Len(v.vals) = Frame(v).height THEN "any" ELSE v.vals[Len(v.vals)]
Dead(v) ==
  [v EXCEPT !.vals = SubSeq(@, 1, Frame(v).height), !.ctrl[Len(v.ctrl)].dead = TRUE]
Enter(v, kind, t) ==
  [v EXCEPT !.ctrl = Append(@, [kind |-> kind, ret |-> t, height |-> Len(v.vals),
                                dead |-> FALSE])]
LabelType(v, n) ==
  LET f == v.ctrl[Len(v.ctrl) - n] IN IF f.kind = "loop" THEN "void" ELSE f.ret
\* The operands of the block are its result and nothing else.
CloseBlock(v) ==
  LET c == PopVal(v, Frame(v).ret) IN [c EXCEPT !.ok = @ /\ Len(c.vals) = Frame(v).height]

ValidStep(v, i) ==
  LET n == Len(v.ctrl) IN
  CASE i.op \in {"block", "loop"} -> Enter(v, i.op, i.t)
    [] i.op = "if" -> Enter(PopVal(v, "i32"), "if", i.t)
    [] i.op = "else" ->
         LET c == CloseBlock(v) IN
         [c EXCEPT !.ok = @ /\ Frame(v).kind = "if", !.ctrl[n].kind = "else",
                   !.ctrl[n].dead = FALSE]
    [] i.op = "end" ->
         LET c == CloseBlock(v) IN
         PushVal([c EXCEPT !.ctrl = SubSeq(@, 1, n - 1),
                           !.ok = @ /\ (Frame(v).kind = "if" => Frame(v).ret = "void")],
                 IF n = 1 THEN "void" ELSE Frame(v).ret)
    [] i.op \in {"br", "br_if", "br_table"} /\ i.n >= n -> [v EXCEPT !.ok = FALSE]
    [] i.op = "br" -> Dead(PopVal(v, LabelType(v, i.n)))
    [] i.op = "br_if" ->
         LET t == LabelType(v, i.n) IN PushVal(PopVal(PopVal(v, "i32"), t), t)
    [] i.op = "br_table" ->
         Dead(PopVal([PopVal(v, "i32") EXCEPT !.ok = @ /\ LabelType(v, i.n) = LabelType(v, 0)],
                     LabelType(v, i.n)))
    [] i.op = "return" -> Dead(PopVal(v, RetType))
    [] i.op = "unreachable" -> Dead(v)
    [] i.op = "drop" -> PopVal(v, TopVal(v))
    [] i.op = "select" ->
         LET c == PopVal(v, "i32")
             t == TopVal(c)
         IN PushVal(PopVal(PopVal(c, t), t), t)
    [] i.op = "local_get" -> PushVal(v, LocalTypes[i.n])
    [] i.op = "local_set" -> PopVal(v, LocalTypes[i.n])
    [] i.op = "local_tee" -> PushVal(PopVal(v, LocalTypes[i.n]), LocalTypes[i.n])
    [] i.op = "const" -> PushVal(v, i.t)
    [] OTHER ->
         PushVal(FoldRight(LAMBDA t, u : PopVal(u, t), Sig[i.op].in, v), Sig[i.op].out)

----------------------------------------------------------------------------
(* Execution.                                                              *)

RefInit == [ip |-> 1, vals |-> <<>>, locals |-> Args, g |-> 0, status |-> "run", out |-> 0,
            labels |-> <<[arity |-> RetType, height |-> 0, to |-> 0]>>]

\* A branch keeps the operands of the label and goes on at to, or returns.
RefBranch(s, n, prog) ==
  LET k == Len(s.labels) - n
      l == s.labels[k]
      keep == IF l.arity = "void" THEN <<>> ELSE <<s.vals[Len(s.vals)]>>
      loop == l.to # 0 /\ prog[l.to].op = "loop"
  IN IF k = 1 THEN [s EXCEPT !.status = "done", !.out = IF keep = <<>> THEN 0 ELSE keep[1].v]
     ELSE [s EXCEPT !.vals = SubSeq(@, 1, l.height) \o keep, !.ip = l.to + 1,
                    !.labels = SubSeq(@, 1, IF loop THEN k ELSE k - 1)]

RefStep(s, prog) ==
  LET i == prog[s.ip]
      n == Len(s.vals)
      top == s.vals[n].v
      next == [s EXCEPT !.ip = @ + 1]
      popped == [next EXCEPT !.vals = SubSeq(@, 1, n - 1)]
      enter(u, to, arity) ==
        [u EXCEPT !.labels = Append(@, [arity |-> arity, height |-> Len(u.vals), to |-> to])]
  IN CASE i.op = "block" -> enter(next, FindEnd(prog, s.ip), i.t)
       [] i.op = "loop" -> enter(next, s.ip, "void")
       [] i.op = "if" ->
            LET els == FindElse(prog, s.ip)
                end == FindEnd(prog, s.ip)
            IN IF top # 0 THEN enter(popped, end, i.t)
               ELSE IF els = 0 THEN [popped EXCEPT !.ip = end + 1]
               ELSE enter([popped EXCEPT !.ip = els + 1], end, i.t)
       [] i.op = "else" -> RefBranch(s, 0, prog)
       [] i.op = "end" ->
            IF Len(s.labels) = 1 THEN RefBranch(s, 0, prog)
            ELSE [next EXCEPT !.labels = SubSeq(@, 1, Len(@) - 1)]
       [] i.op = "br" -> RefBranch(s, i.n, prog)
       [] i.op = "br_if" -> IF top # 0 THEN RefBranch(popped, i.n, prog) ELSE popped
       [] i.op = "br_table" -> RefBranch(popped, IF top = 0 THEN i.n ELSE 0, prog)
       [] i.op = "return" -> RefBranch(s, Len(s.labels) - 1, prog)
       [] i.op = "unreachable" -> [s EXCEPT !.status = "trap"]
       [] i.op = "drop" -> popped
       [] i.op = "select" ->
            [next EXCEPT !.vals = Append(SubSeq(@, 1, n - 3),
                                         IF top # 0 THEN s.vals[n - 2] ELSE s.vals[n - 1])]
       [] i.op = "local_get" ->
            [next EXCEPT !.vals = Append(@, [t |-> LocalTypes[i.n], v |-> s.locals[i.n]])]
       [] i.op = "local_set" -> [popped EXCEPT !.locals[i.n] = top]
       [] i.op = "local_tee" -> [next EXCEPT !.locals[i.n] = top]
       [] i.op = "const" -> [next EXCEPT !.vals = Append(@, [t |-> i.t, v |-> i.n])]
       [] OTHER ->
            LET k == Len(Sig[i.op].in)
                a == [j \in 1..k |-> s.vals[n - k + j].v]
                r == [t |-> Sig[i.op].out, v |-> Result(i.op, a, s.g)]
            IN [next EXCEPT !.vals = SubSeq(@, 1, n - k) \o (IF r.t = "void" THEN <<>> ELSE <<r>>),
                            !.g = NewGlobal(i.op, a, s.g)]

RefRun(prog) ==
  FoldLeft(LAMBDA s, k : IF s.status = "run" THEN RefStep(s, prog) ELSE s,
           RefInit, [k \in 1..Fuel |-> k])
\* What can be observed of an execution.
Observed(s) == <<s.status, s.out, s.g>>
=============================================================================
