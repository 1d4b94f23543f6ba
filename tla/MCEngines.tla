----------------------------- MODULE MCEngines -----------------------------
EXTENDS Interpreter

MCLocals == <<"i32", "i64">>
MCArgs == <<1, 6>>

I(op, t, n) == [op |-> op, t |-> t, n |-> n]
Do(op) == I(op, "void", 0)
Get == I("local_get", "i32", 1)
Set == I("local_set", "i32", 1)
Tee == I("local_tee", "i32", 1)
Get64 == I("local_get", "i64", 2)
Set64 == I("local_set", "i64", 2)
Const(n) == I("const", "i32", n)
Block(t) == I("block", t, 0)
If(t) == I("if", t, 0)

\* Blocks, branches and the code that no branch reaches.
ControlTheme ==
  [len |-> 7,
   ops |-> {Block("void"), Block("i32"), I("loop", "void", 0), If("void"), If("i32"),
            Do("else"), Do("end"), I("br", "void", 0), I("br", "void", 1),
            I("br_if", "void", 0), I("br_if", "void", 1), I("br_table", "void", 1),
            Get, Const(0)}]
\* Dead code behind a return, a trap and a constant condition.
DeadTheme ==
  [len |-> 6,
   ops |-> {Block("i32"), If("i32"), If("void"), Do("else"), Do("end"), Do("return"),
            Do("unreachable"), I("br_if", "void", 0), Const(0), Get, Do("drop")}]
JumpTheme ==
  [len |-> 6,
   ops |-> {Block("i32"), Block("void"), Do("end"), I("br_if", "void", 0),
            I("br_table", "void", 0), I("br", "void", 1), Const(1), Get, Do("drop"),
            Do("unreachable")}]
\* A local set while its value is on the stack.
LocalTheme ==
  [len |-> 7,
   ops |-> {Get, Set, Tee, Const(2), Do("i32_add"), Do("select"), Do("end")}]
\* Values of two cells beside values of one.
WideTheme ==
  [len |-> 7,
   ops |-> {Get64, Set64, Get, I("const", "i64", 5), Do("i64_add"), Do("i64_extend"),
            Do("i64_eqz"), Do("select"), Do("end")}]
WideBlockTheme ==
  [len |-> 8,
   ops |-> {Get64, Get, Do("i64_eqz"), Do("drop"), Block("i64"), I("br_if", "void", 0),
            Do("end")}]
\* Calls and globals between the operands of other instructions.
CallTheme ==
  [len |-> 6,
   ops |-> {Get, Const(1), Do("call"), Do("global_get"), Do("global_set"), Do("i32_add"),
            Do("i32_eqz"), I("loop", "void", 0), I("br_if", "void", 0), Do("end")}]
\* An if of which a branch, or neither, reaches the end.
DeadEndTheme ==
  [len |-> 7,
   ops |-> {If("void"), If("i32"), Do("else"), Do("end"), Do("unreachable"), Do("return"), Get,
            Const(1)}]
\* Code behind a trap in a branch that a constant condition skips or takes.
SkippedTheme ==
  [len |-> 8, ops |-> {If("i32"), Do("else"), Do("end"), Do("unreachable"), Get, Const(1)}]
\* A depth that is wrong behind such an if, and a frame that is filled there.
SkippedFrameTheme ==
  [len |-> 9,
   ops |-> {If("void"), Do("else"), Do("end"), Do("unreachable"), Do("return"), Get}]
\* A block that ends unreachably inside an if whose else is pending.
PendingElseTheme ==
  [len |-> 9,
   ops |-> {If("void"), Block("void"), Do("else"), Do("end"), Do("unreachable"), Get}]
\* A value of two cells dropped in skipped code.
SkippedWideTheme ==
  [len |-> 8,
   ops |-> {Get64, If("void"), Do("else"), Do("end"), Do("unreachable"), Do("drop"), Const(1)}]
\* Branches back to a loop that has a result.
LoopTheme ==
  [len |-> 6,
   ops |-> {I("loop", "i32", 0), I("br", "void", 0), I("br_if", "void", 0),
            I("br_if", "void", 1), Do("end"), Get, Set, Do("i32_eqz"), Const(0)}]
\* A value dropped after its local was set.
DropTheme ==
  [len |-> 7, ops |-> {Get, Set, Const(0), Do("drop"), Do("i32_eqz"), Do("end")}]
\* One instruction with chosen operands.
OperatorTheme == [len |-> 0, ops |-> {}]

MCWords == [uint32 |-> 0..15, uint64 |-> {0, 1, 2, 7, 8, 9, 85, 127, 128, 129, 254, 255}]
MCMags == {0, 1, 2, 3, 5, 15, 16, 17, 18, 20, 30, 31, 32, 33, 36, 254, 255, 256, 257, 258, 260,
           510, 511, 512, 516, Huge}
\* A heap of 4 bytes below a memory of 12, of 8 initial bytes or none before it grew.
MCMemories == {[heap |-> -4, size |-> 12, init |-> i] : i \in {0, 8, 12}}
                \cup {[heap |-> 0, size |-> 8, init |-> 8], [heap |-> 0, size |-> 0, init |-> 0]}
MCOffsets == {0, 1, 7, 31}
MCContents == {[x \in -4..11 |-> IF x % 3 = 0 THEN 1 ELSE 0], [x \in -4..11 |-> IF x % 2 = 0 THEN 0 ELSE 1]}

MCThemes == {OperatorTheme, ControlTheme, DeadTheme, DeadEndTheme, JumpTheme, LocalTheme, WideTheme,
             WideBlockTheme, CallTheme, LoopTheme, DropTheme, SkippedTheme, SkippedFrameTheme,
             PendingElseTheme, SkippedWideTheme}
=============================================================================
