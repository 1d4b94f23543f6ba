------------------------------ MODULE Natives ------------------------------
(***************************************************************************)
(* Native functions: tables of symbols registered with the runtime         *)
(* (wasm_native.c), imports resolved against them, and the call of one     *)
(* (wasm_runtime_common.c, arch/invokeNative_*.s): arguments, which the    *)
(* engines keep in 32-bit cells, are put where the calling convention of   *)
(* the target has them, pointers as native addresses.  A name is a         *)
(* sequence of numbers, a cell <<value, half>>.                            *)
(***************************************************************************)
EXTENDS WasmCalls

CONSTANTS
  Underscore,  \* the character before a name that may be left out
  Env,         \* the address of the execution environment
  IntRegs,     \* MAX_REG_INTS, by target
  FloatRegs,   \* MAX_REG_FLOATS, by target
  BufSlots     \* slots of argv_buf

Targets == {"x86_64", "arm_vfp", "arm", "x86_32"}
Wide == {"i64", "f64"}
Letter == [i32 |-> "i", i64 |-> "I", f32 |-> "f", f64 |-> "F"]
Garbage == <<-1, -1>>
Hole == <<-1, -1>>

----------------------------------------------------------------------------
(* Tables and imports.                                                     *)

strcmp_less(s, t) ==
  \E k \in DOMAIN t :
    /\ \A i \in 1..k - 1 : i <= Len(s) /\ s[i] = t[i]
    /\ k > Len(s) \/ s[k] < t[k]

sort_symbol_ptr(symbols) ==
  LET n == Len(symbols)
      done[k \in 0..n * n] ==
        IF k = 0 THEN symbols
        ELSE LET s == done[k - 1] i == (k - 1) \div n + 1 j == ((k - 1) % n) + 1
             IN IF i < j /\ strcmp_less(s[j].name, s[i].name)
                THEN [s EXCEPT ![i] = s[j], ![j] = s[i]] ELSE s
  IN done[n * n]

register_natives(list, table) ==
  Append(list, [table EXCEPT !.symbols = sort_symbol_ptr(@)])
wasm_native_init(tables) ==
  LET list[k \in 0..Len(tables)] ==
        IF k = 0 THEN <<>> ELSE register_natives(list[k - 1], tables[k])
  IN list[Len(tables)]

\* A binary search.
lookup_symbol(symbols, name) ==
  LET find[low \in 0..Len(symbols), high \in -1..Len(symbols) - 1] ==
        IF low > high THEN None
        ELSE LET mid == (low + high) \div 2 IN
             CASE symbols[mid + 1].name = name -> mid + 1
               [] strcmp_less(name, symbols[mid + 1].name) -> find[low, mid - 1]
               [] strcmp_less(symbols[mid + 1].name, name) -> find[mid + 1, high]
  IN find[0, Len(symbols) - 1]

\* Parameter i is described by character i + 1, a length by its own.
check_symbol_signature(type, sig) ==
  LET n == Len(type.params)
      from[i \in 1..n + 1] ==
        CASE i > n -> TRUE
          [] i <= n /\ sig[i + 1] = Letter[type.params[i]] -> from[i + 1]
          [] OTHER ->
               /\ type.params[i] = "i32" /\ sig[i + 1] \in {"*", "$"}
               /\ IF sig[i + 1] = "*" /\ i < n /\ type.params[i + 1] = "i32" /\ sig[i + 2] = "~"
                  THEN i + 2 > n \/ from[i + 2] ELSE from[i + 1]
  IN /\ Len(sig) >= n + 2 /\ sig[1] = "(" /\ from[1] /\ sig[n + 2] = ")"
     /\ Len(sig) = n + 2 + Len(type.results)
     /\ \A r \in DOMAIN type.results : sig[n + 2 + r] = Letter[type.results[r]]

Unlinked == [linked |-> FALSE, symbol |-> 0, signature |-> <<>>, raw |-> FALSE]
Hit(symbols, field) ==
  LET k == lookup_symbol(symbols, field) IN
  IF k = None /\ field[1] = Underscore THEN lookup_symbol(symbols, Tail(field)) ELSE k
wasm_native_resolve_symbol(list, module, field, type) ==
  LET nodes == Of(list, LAMBDA t : t.module = module /\ Hit(t.symbols, field) # None) IN
  IF nodes = <<>> THEN Unlinked
  ELSE LET sym == nodes[1].symbols[Hit(nodes[1].symbols, field)]
           link == [linked |-> TRUE, symbol |-> sym.ptr, signature |-> sym.signature,
                    raw |-> nodes[1].raw]
       IN IF sym.signature # <<>> /\ ~check_symbol_signature(type, sym.signature)
          THEN Unlinked ELSE link

----------------------------------------------------------------------------
(* Arguments.  a is a call: its address space, the bytes of the memory,    *)
(* the signature and argv.  s is how far it is: the next cell of argv and  *)
(* what was put into the registers and on the stack.                       *)

\* The cells an engine passes.
Cells(params, values) ==
  LET flat[i \in 0..Len(params)] ==
        IF i = 0 THEN <<>>
        ELSE flat[i - 1] \o IF params[i] \in Wide THEN <<<<values[i], 0>>, <<values[i], 1>>>>
                            ELSE <<<<values[i], 0>>>>
  IN flat[Len(params)]

wasm_runtime_validate_app_addr(a, off, size) ==
  IF a.aot THEN aot_validate_app_addr(a.space, off, size)
  ELSE wasm_validate_app_addr(a.space, off, size)
wasm_runtime_addr_app_to_native(a, off) ==
  IF a.aot THEN aot_addr_app_to_native(a.space, off) ELSE wasm_addr_app_to_native(a.space, off)
\* An argument of one cell: a pointer becomes native, if it may.
NativeArg(a, s, i) ==
  LET v == a.argv[s.src][1]
      kind == IF a.signature = <<>> THEN "" ELSE a.signature[i + 1]
      len == IF a.signature[i + 2] = "~" THEN a.argv[s.src + 1][1] ELSE 1
  IN CASE kind = "*" -> [ok |-> wasm_runtime_validate_app_addr(a, v, len),
                         v |-> wasm_runtime_addr_app_to_native(a, v)]
       [] kind = "$" -> [ok |-> wasm_runtime_validate_app_str_addr(a.space, a.bytes, v),
                         v |-> wasm_runtime_addr_app_to_native(a, v)]
       [] OTHER -> [ok |-> TRUE, v |-> v]

Narrow(a, s, i, t) ==
  IF t = "i32" THEN NativeArg(a, s, i) ELSE [ok |-> TRUE, v |-> a.argv[s.src][1]]
Whole(lo, hi) == IF lo[2] = 0 /\ hi = <<lo[1], 1>> THEN lo[1] ELSE Garbage[1]
Class(t) == IF t \in {"i32", "i64"} THEN "ints" ELSE "fps"
Begin == [ok |-> TRUE, src |-> 1, ints |-> <<<<Env, 0>>>>, fps |-> <<>>, stacks |-> <<>>]

\* Mutant: an f64 advances the arguments by one cell.
MutOneCell(a, target, params) ==
  LET max == [ints |-> IntRegs[target], fps |-> FloatRegs[target]]
      put(s, i, t) ==
        LET arg == IF t \in Wide
                   THEN [ok |-> TRUE, v |-> Whole(a.argv[s.src], a.argv[s.src + 1])]
                   ELSE Narrow(a, s, i, t)
            to == IF Len(s[Class(t)]) < max[Class(t)] THEN Class(t) ELSE "stacks"
        IN [s EXCEPT ![to] = Append(@, <<arg.v, 0>>), !.ok = arg.ok,
                     !.src = @ + IF t = "i64" THEN 2 ELSE 1]
  IN ForEach(put, Begin, params)
\* x86-64 and AArch64: every argument fills a slot of 64 bits.
invoke_native_64(a, target, params) ==
  LET max == [ints |-> IntRegs[target], fps |-> FloatRegs[target]]
      put(s, i, t) ==
        LET arg == IF t \in Wide
                   THEN [ok |-> TRUE, v |-> Whole(a.argv[s.src], a.argv[s.src + 1])]
                   ELSE Narrow(a, s, i, t)
            to == IF Len(s[Class(t)]) < max[Class(t)] THEN Class(t) ELSE "stacks"
        IN [s EXCEPT ![to] = Append(@, <<arg.v, 0>>), !.ok = arg.ok,
                     !.src = @ + IF t \in Wide THEN 2 ELSE 1]
  IN ForEach(put, Begin, params)

Even(slots) == IF Len(slots) % 2 = 1 THEN Append(slots, Hole) ELSE slots
\* ARM with a floating-point unit: slots of 32 bits, two and even for 64.
invoke_native_vfp(a, target, params) ==
  LET max == [ints |-> IntRegs[target], fps |-> FloatRegs[target]]
      put(s, i, t) ==
        LET arg == Narrow(a, s, i, t)
            room == IF t \in Wide THEN 1 ELSE 0
            to == IF Len(s[Class(t)]) < max[Class(t)] - room THEN Class(t) ELSE "stacks"
        IN IF t \in Wide
           THEN [s EXCEPT ![to] = Even(@) \o <<a.argv[s.src], a.argv[s.src + 1]>>, !.src = @ + 2]
           ELSE [s EXCEPT ![to] = Append(@, <<arg.v, 0>>), !.ok = arg.ok, !.src = @ + 1]
  IN ForEach(put, Begin, params)

\* The other 32-bit targets: one array, aligned but for x86.
invoke_native_32(a, target, params) ==
  LET put(s, i, t) ==
        LET arg == Narrow(a, s, i, t)
            from == IF target = "x86_32" THEN s.ints ELSE Even(s.ints)
        IN IF t \in Wide
           THEN [s EXCEPT !.ints = from \o <<a.argv[s.src], a.argv[s.src + 1]>>, !.src = @ + 2]
           ELSE [s EXCEPT !.ints = Append(@, <<arg.v, 0>>), !.ok = arg.ok, !.src = @ + 1]
  IN ForEach(put, Begin, params)

\* The slots allocated, and those used.
Slots(target, a, params, s) ==
  LET n == Len(params)
      argc1 == CASE target = "x86_64" -> 1 + FloatRegs[target] + n + 2
                 [] target = "arm_vfp" -> IntRegs[target] + FloatRegs[target] + Len(s.stacks)
                 [] target = "arm" -> 2 * n + 2
                 [] target = "x86_32" -> Len(a.argv) + 2
      used == IF target \in {"x86_64", "arm_vfp"}
              THEN IntRegs[target] + FloatRegs[target] + Len(s.stacks) ELSE Len(s.ints)
  IN [room |-> Greater(BufSlots, argc1), used |-> used]

\* A native function of the raw convention is given 64-bit slots.
wasm_runtime_invoke_native_raw(a, params) ==
  LET put(s, i, t) ==
        LET arg == IF t \in Wide
                   THEN [ok |-> TRUE, v |-> Whole(a.argv[s.src], a.argv[s.src + 1])]
                   ELSE Narrow(a, s, i, t)
        IN [s EXCEPT !.stacks = Append(@, <<arg.v, 0>>), !.ok = arg.ok,
                     !.src = @ + IF t \in Wide THEN 2 ELSE 1]
  IN ForEach(put, Begin, params)

----------------------------------------------------------------------------
(* The calling conventions, and what invokeNative loads.                   *)

\* Where a convention has the arguments: <<where, first slot>> for each.  In the
\* one of ARM, a core register that is passed over stays so, and a floating-point
\* register is used for the next argument it is large enough for.
Convention(target, params) ==
  LET put(c, i, t) ==
        LET class == IF target = "arm_vfp" THEN Class(t) ELSE "ints"
            wide == t \in Wide
            core == IF wide THEN 2 * ((c.core + 1) \div 2) ELSE c.core
            size == IF wide THEN 2 ELSE 1
            free == {k \in 0..FloatRegs["arm_vfp"] - size :
                       k % size = 0 /\ k..k + size - 1 \subseteq c.free}
            first == CHOOSE k \in free : \A j \in free : k <= j
            stack == IF wide THEN 2 * ((c.stack + 1) \div 2) ELSE c.stack
        IN CASE class = "ints" /\ core + size <= IntRegs["arm_vfp"] ->
                  [c EXCEPT !.core = core + size, !.at = Append(@, <<"ints", core>>)]
             [] class = "fps" /\ free # {} ->
                  [c EXCEPT !.free = @ \ (first..first + size - 1), !.at = Append(@, <<"fps", first>>)]
             [] class = "ints" /\ core + size > IntRegs["arm_vfp"] ->
                  [c EXCEPT !.core = IntRegs["arm_vfp"], !.stack = stack + size,
                            !.at = Append(@, <<"stacks", stack>>)]
             [] OTHER ->
                  [c EXCEPT !.free = {}, !.stack = stack + size, !.at = Append(@, <<"stacks", stack>>)]
  IN ForEach(put, [ok |-> TRUE, core |-> 1, stack |-> 0, free |-> 0..FloatRegs["arm_vfp"] - 1,
                   at |-> <<>>], params).at
Convention64(target, params) ==
  LET max == [ints |-> IntRegs[target], fps |-> FloatRegs[target], stacks |-> 0]
      put(c, i, t) ==
        LET to == IF c[Class(t)] < max[Class(t)] THEN Class(t) ELSE "stacks"
        IN [c EXCEPT ![to] = @ + 1, !.at = Append(@, <<to, c[to]>>)]
  IN ForEach(put, [ok |-> TRUE, ints |-> 1, fps |-> 0, stacks |-> 0, at |-> <<>>], params).at
\* The words from the stack pointer on.
Convention32(params) ==
  LET put(c, i, t) == [c EXCEPT !.n = @ + IF t \in Wide THEN 2 ELSE 1, !.at = Append(@, <<"ints", c.n>>)]
  IN ForEach(put, [ok |-> TRUE, n |-> 1, at |-> <<>>], params).at

\* invokeNative: the first words of one array go to the registers.
Loaded(target, s) ==
  IF target # "arm" THEN s
  ELSE [s EXCEPT !.ints = SubSeq(@, 1, Lesser(Len(@), IntRegs["arm_vfp"])),
                 !.stacks = SubSeq(s.ints, IntRegs["arm_vfp"] + 1, Len(s.ints))]
Slot(s, where, k) == IF k + 1 \in DOMAIN s[where] THEN s[where][k + 1] ELSE Garbage
Received(target, params, s) ==
  LET at == CASE target = "x86_64" -> Convention64(target, params)
              [] target = "x86_32" -> Convention32(params)
              [] OTHER -> Convention(target, params)
      got == Loaded(target, s)
      word(i, k) == Slot(got, at[i][1], at[i][2] + k)
  IN [i \in DOMAIN params |->
        IF params[i] \in Wide /\ target # "x86_64" THEN Whole(word(i, 0), word(i, 1))
        ELSE word(i, 0)[1]]

----------------------------------------------------------------------------
(* A call from an engine: the outcome.                                     *)

invoke_native(a, target, params) ==
  CASE target = "x86_64" -> invoke_native_64(a, target, params)
    [] target = "arm_vfp" -> invoke_native_vfp(a, target, params)
    [] OTHER -> invoke_native_32(a, target, params)
Outcome(link, target, params, a) ==
  LET raw(s) == [linked |-> TRUE, ran |-> s.ok,
                 slots |-> [room |-> Greater(BufSlots, Len(params)), used |-> Len(s.stacks)],
                 got |-> IF s.ok THEN [i \in DOMAIN params |-> s.stacks[i][1]] ELSE <<>>]
      by(s) == [linked |-> TRUE, ran |-> s.ok, slots |-> Slots(target, a, params, s),
                got |-> IF s.ok THEN Received(target, params, s) ELSE <<>>]
  IN IF link.raw THEN raw(wasm_runtime_invoke_native_raw(a, params))
     ELSE by(invoke_native(a, target, params))
NotCalled == [linked |-> FALSE, ran |-> FALSE, slots |-> [room |-> 0, used |-> 0], got |-> <<>>]
wasm_interp_call_func_native(link, target, params, inst, values, base) ==
  IF ~link.linked THEN NotCalled
  ELSE Outcome(link, target, params,
               [aot |-> FALSE, space |-> Space(inst, base), bytes |-> inst.memory,
                signature |-> link.signature, argv |-> Cells(params, values)])
aot_invoke_native(link, target, params, inst, values, base) ==
  IF ~link.linked THEN NotCalled
  ELSE Outcome(link, target, params,
               [aot |-> TRUE, space |-> Space(inst, base), bytes |-> inst.memory,
                signature |-> link.signature, argv |-> Cells(params, values)])
=============================================================================
