---------------------------- MODULE Interpreter ----------------------------
(***************************************************************************)
(* The engines of the runtime on small functions (WasmEngines), and on one *)
(* instruction with every operand (Operators): the functions of a theme    *)
(* without instructions of its own.                                        *)
(***************************************************************************)
EXTENDS WasmEngines, Operators

InterpreterInit == Init /\ OpInit
Functions == instr = Idle /\ Next /\ UNCHANGED opVars
Instruction == theme.ops = {} /\ OpNext /\ UNCHANGED vars

InterpreterSpec == InterpreterInit /\ [][Functions \/ Instruction]_<<vars, opVars>>
=============================================================================
