---------------------------- MODULE WasmEngines ----------------------------
(***************************************************************************)
(* One function of a module, written instruction by instruction, loaded,   *)
(* compiled and run by the engines of the runtime.  A module file is       *)
(* arbitrary valid code, so the instructions are chosen freely, out of the *)
(* instructions of a theme and up to its length.                           *)
(***************************************************************************)
EXTENDS WasmAot

CONSTANTS Themes   \* [ops: the instructions, len: the length of the code]

VARIABLES
  phase,   \* "write", "load" or "done"
  theme,   \* the theme of the function
  prog,    \* the code
  valid,   \* the state of the validation of the standard
  res      \* what the engines made of the code
vars == <<phase, theme, prog, valid, res>>

NoResult == [accepted |-> TRUE]

Init ==
  /\ phase = "write" /\ prog = <<>> /\ valid = ValidInit /\ res = NoResult
  /\ theme \in Themes

\* The next instruction; every open block can still be closed.
Write(i) ==
  /\ phase = "write"
  /\ valid' = ValidStep(valid, i)
  /\ valid'.ok
  /\ Len(prog) + 1 + Len(valid'.ctrl) <= theme.len
  /\ prog' = Append(prog, i)
  /\ phase' = IF valid'.ctrl = <<>> THEN "load" ELSE "write"
  /\ UNCHANGED <<theme, res>>

\* The states of a scan of the code, before each instruction and at the end.
Trail(step(_, _), start, p) ==
  FoldLeft(LAMBDA t, i : Append(t, step(t[Len(t)], i)), <<start>>, p)
FirstScan(p) == Trail(LoadStep, Context(p, 1, StartDynamic, <<>>), p)
SecondScan(p, st) == Trail(LoadStep, Context(p, 2, st.maxDyn, st.consts), p)

\* The type that the loader gives the drops and the selects it reaches.
KindsOf(p) ==
  LET operand(st, i) == IF i.op = "select" THEN PopRef(st, "i32") ELSE st
      kinds(trail) ==
        [k \in 1..Len(p) |->
           IF p[k].op \in {"drop", "select"} /\ trail[k].p = k
           THEN TopType(operand(trail[k], p[k])) ELSE "i32"]
  IN kinds(FirstScan(p))

\* wasm_load and aot_compile_wasm of the function, then its execution.
Load ==
  /\ phase = "load"
  /\ phase' = "done"
  /\ \E measured \in {Measure(prog)}, aot \in {AotCompile(prog)},
        classicRun \in {ClassicRun(prog, KindsOf(prog))} :
     \E fast \in {Compile(prog, measured)} :
       res' = IF ~measured.ok \/ ~fast.ok \/ ~aot.ok THEN [accepted |-> FALSE]
              ELSE [accepted |-> TRUE,
                    fits |-> Len(fast.code) <= Len(measured.code)
                             /\ fast.consts = measured.consts,
                    slots |-> FastSlots(fast),
                    used |-> {x \in UNION {{fast.code[k].dst} \cup
                                {fast.code[k].src[j] : j \in DOMAIN fast.code[k].src} :
                                k \in DOMAIN fast.code} : x # NoSlot},
                    inFrame |-> /\ classicRun.maxSp - StartDynamic <= ClassicCells(measured)
                                /\ classicRun.maxCsp <= measured.maxCsp,
                    ir |-> WellFormedIR(aot),
                    ref |-> Observed(RefRun(prog)), classic |-> Observed(classicRun),
                    fast |-> Observed(FastRun(fast)), aot |-> Observed(AotRun(aot))]
  /\ UNCHANGED <<theme, prog, valid>>

Next == (\E i \in theme.ops : Write(i)) \/ Load

Spec == Init /\ [][Next]_vars
----------------------------------------------------------------------------
Finished == phase = "done" /\ res.accepted


\* The blocks around instruction j, and those that a branch there goes to.
Around(p, j) == {k \in 1..j - 1 : p[k].op \in Opens /\ FindEnd(p, k) > j}
Targets(p, j) ==
  LET depth(k) == Cardinality({l \in Around(p, j) : l > k}) IN
  {k \in Around(p, j) : CASE p[j].op \in {"br", "br_if"} -> depth(k) = p[j].n
                          [] p[j].op = "br_table" -> depth(k) <= p[j].n
                          [] OTHER -> FALSE}

\* A branch back to a loop with a result: the classic interpreter pushes a value
\* there, as for a branch to the end of a block.
LeavesResult(p) ==
  \E j \in DOMAIN p : \E k \in Targets(p, j) : p[k].op = "loop" /\ p[k].t # "void"

\* The instructions that the loader comes to; it passes over the others.
Scanned(p) == LET trail == FirstScan(p) IN {k \in DOMAIN p : trail[k].p = k}

\* An if on a constant, whose first branch goes on to the end: no branch marks the
\* end as reached, and when the second branch does not get there either the loader
\* passes over the end and what follows it.
LosesRest(p) ==
  \E k \in DOMAIN p : /\ p[k].op = "if" /\ FindElse(p, k) \in Scanned(p)
                      /\ FindEnd(p, k) \notin Scanned(p)

\* The compiler leaves a block in the first branch of an if with code that cannot be
\* reached: it tests for an else still to come in the innermost block alone, so that
\* the else of the if around that block is never compiled.
LosesElse(p) ==
  LET lost(trail) ==
        \E k \in DOMAIN p : \E j \in Len(trail[k + 1].stk) + 1..Len(trail[k].stk) :
          LET b == trail[k].stk[j] IN b.elseB # 0 /\ ~b.skipElse /\ k < b.els
  IN lost(Trail(AotStep, AotInit(p), p))

\* A drop of a value that was copied away from a set of its local: the second scan
\* takes the slot of the copy for a dynamic one, and the offset falls below those.
DropsCopy(p) ==
  LET drops(trail, max) ==
        \E k \in DOMAIN p : /\ p[k].op = "drop" /\ trail[k].p = k
                            /\ TopSlot(trail[k], TopType(trail[k])) >= max
      second(st) == drops(SecondScan(p, st), st.maxDyn)
  IN second(Measure(p))


\* What the loader computed suffices: the operand and block stacks of the classic
\* interpreter stay within its sizes, the fast interpreter's code of the second
\* scan fits the buffer measured by the first, and its operands are slots of the
\* frame.  The same cases are excepted.
FrameSuffices ==
  Finished => /\ res.inFrame \/ LeavesResult(prog) \/ LosesRest(prog)
              /\ res.fits \/ DropsCopy(prog)
              /\ \A x \in res.used : x < StartDynamic + res.slots

\* The IR is what the LLVM verifier asks for, whose verdict the code ignores.
IRWellFormed == Finished => res.ir \/ LosesElse(prog)
=============================================================================
