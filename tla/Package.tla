------------------------------ MODULE Package ------------------------------
(***************************************************************************)
(* An application package on its way in, byte after byte: the receiver of  *)
(* module_wasm_app.c is a function of its context, the byte, the size of   *)
(* the request, and whether memory is left and the manager's queue takes   *)
(* the message.  A section is [type, size, room, at]: room is what was     *)
(* allocated for its body, at is the place of its header on the wire.      *)
(***************************************************************************)
EXTENDS Restful

None == -1
Code == 10             \* SECTION_TYPE_CODE
Data == 11             \* SECTION_TYPE_DATA
Text == 2              \* AOT_SECTION_TYPE_TEXT
Signature == 6         \* AOT_SECTION_TYPE_SIGANATURE
LebBytes == 5          \* bytes of a 32-bit LEB128, of seven bits each but the last
LebUnit == <<1, 128, 16384, 2097152, 268435456>>
Magic == [wasm |-> <<0, 97, 115, 109>>, aot |-> <<0, 97, 111, 116>>]
FileVersion == <<1, 0, 0, 0>>

\* word holds the bytes of the integer being received.  over: a byte was stored
\* outside of what was allocated; zero: a length of 0 was accepted.
NewReceiver ==
  [phase |-> "Req_Ver", n |-> 0, total |-> 0, word |-> <<>>, action |-> 0, len |-> 0,
   url |-> <<>>, kind |-> "none", sections |-> <<>>, over |-> FALSE, zero |-> FALSE]

Enter(c, phase) == [c EXCEPT !.phase = phase, !.n = 0]
Collect(c, ch) == [c EXCEPT !.n = @ + 1, !.word = IF c.n = 0 THEN <<ch>> ELSE Append(@, ch)]
True(c) == [ctx |-> c, ret |-> TRUE, post |-> <<>>]
\* The sections are not released here: package_type is only known to the call
\* that receives the last byte of the magic, and they stay in the context.
Fail(c) == [ctx |-> [c EXCEPT !.phase = "Req_Ver", !.n = 0, !.total = 0, !.url = <<>>],
            ret |-> FALSE, post |-> <<>>]

RECV_INTEGER(c, ch, width, next) ==
  LET d == Collect(c, ch) IN True(IF d.n = width THEN Enter(d, next) ELSE d)

Req_Ver(c, ch) ==
  IF ch = Version THEN True(Enter(c, "Req_Action"))
  ELSE [ctx |-> c, ret |-> FALSE, post |-> <<>>]

Req_Action(c, ch) == True([Enter(c, "Req_Fmt") EXCEPT !.action = ch])

Req_Url_Len(c, ch, memory) ==
  LET d == Collect(c, ch)
      len == Number(d.word)
  IN CASE d.n < 2 -> True(d)
       [] d.n = 2 /\ memory ->
            True([Enter(d, "Req_Payload_Len") EXCEPT !.len = len, !.zero = @ \/ len = 0])
       [] OTHER -> Fail(d)

\* The buffer has room for the terminating zero too.
Req_Url(c, ch) ==
  LET d == [c EXCEPT !.n = @ + 1, !.url = Append(@, ch), !.over = @ \/ c.n > c.len]
  IN True(IF d.n = d.len THEN Enter(d, "App_Magic") ELSE d)

App_Magic(c, ch) ==
  LET d == Collect(c, ch) IN
  CASE d.n < 4 -> True(d)
    [] d.n = 4 /\ d.word = Magic.wasm -> True([Enter(d, "Wasm_Version") EXCEPT !.kind = "wasm"])
    [] d.n = 4 /\ d.word = Magic.aot -> True([Enter(d, "AOT_Version") EXCEPT !.kind = "aot"])
    [] OTHER -> Fail(d)

FileVersionByte(c, ch, next) ==
  IF ch # FileVersion[c.n + 1] THEN Fail(c) ELSE RECV_INTEGER(c, ch, 4, next)

\* A section is added to the tail of the list.
NewSection(c, type, place) ==
  [c EXCEPT !.sections = Append(@, [type |-> type, size |-> 0, room |-> None, at |-> place])]
Last1(c) == Len(c.sections)
SetSize(c, size) == [c EXCEPT !.sections[Last1(c)].size = size]
\* What room the body gets: none is allocated for an empty one of an AOT file.
WithBody(c) ==
  LET size == c.sections[Last1(c)].size
      room == IF size = 0 /\ c.kind = "aot" THEN None ELSE size
  IN [c EXCEPT !.sections[Last1(c)].room = room, !.zero = @ \/ size = 0]

Wasm_Section_Type(c, ch, memory, place) ==
  IF ch <= Data /\ memory THEN True(Enter(NewSection(c, ch, place), "Wasm_Section_Size"))
  ELSE Fail(c)

Wasm_Section_Size(c, ch, memory) ==
  LET bits == ch % IF c.n = LebBytes - 1 THEN 16 ELSE 128
      size == c.sections[Last1(c)].size + bits * LebUnit[c.n + 1]
      d == [SetSize(c, size) EXCEPT !.n = @ + 1]
  IN CASE c.n < LebBytes /\ ch >= 128 -> True(d)
       [] c.n < LebBytes /\ ch < 128 /\ memory -> True(Enter(WithBody(d), "Wasm_Section_Content"))
       [] OTHER -> Fail(IF c.n < LebBytes THEN d ELSE c)

\* Mutant: the padding is that of the place after this byte.
MutPaddingOffByOne(c, ch, memory, place) ==
  LET d == Collect(IF c.n = 0 THEN NewSection(c, 0, place) ELSE c, ch)
      type == Number(Reverse(d.word))
      e == [d EXCEPT !.sections[Last1(d)].type = type]
  IN CASE c.n = 0 /\ (c.total - FixPart - c.len) % 4 # 0 -> True(c)
       [] c.n = 0 /\ (c.total - FixPart - c.len) % 4 = 0 /\ ~memory -> Fail(c)
       [] OTHER ->
            IF d.n < 4 THEN True(d)
            ELSE IF type < Signature THEN True(Enter(e, "AOT_Section_Size")) ELSE Fail(e)
\* The header of a section begins at a multiple of four.
AOT_Section_ID(c, ch, memory, place) ==
  LET d == Collect(IF c.n = 0 THEN NewSection(c, 0, place) ELSE c, ch)
      type == Number(Reverse(d.word))
      e == [d EXCEPT !.sections[Last1(d)].type = type]
  IN CASE c.n = 0 /\ (c.total - 1 - FixPart - c.len) % 4 # 0 -> True(c)
       [] c.n = 0 /\ (c.total - 1 - FixPart - c.len) % 4 = 0 /\ ~memory -> Fail(c)
       [] OTHER ->
            IF d.n < 4 THEN True(d)
            ELSE IF type < Signature THEN True(Enter(e, "AOT_Section_Size")) ELSE Fail(e)

AOT_Section_Size(c, ch, memory) ==
  LET d == Collect(c, ch)
      size == Number(Reverse(d.word))
  IN CASE d.n < 4 -> True(d)
       [] d.n = 4 /\ (memory \/ size = 0) ->
            True(Enter(WithBody(SetSize(d, size)), "AOT_Section_Content"))
       [] OTHER -> Fail(SetSize(d, size))

\* The last section received whole, at the end of the request or not.
module_wasm_app_handle_install_msg(c) ==
  [action |-> c.action, url |-> c.url, kind |-> c.kind, sections |-> c.sections]
Section_Content(c, size, posts, next) ==
  LET d == [c EXCEPT !.n = @ + 1, !.over = @ \/ c.n >= c.sections[Last1(c)].room] IN
  CASE d.n # c.sections[Last1(c)].size -> True(d)
    [] d.n = c.sections[Last1(c)].size /\ d.total # size -> True(Enter(d, next))
    [] OTHER ->
         IF posts
         THEN [ctx |-> [NewReceiver EXCEPT !.over = d.over, !.zero = d.zero], ret |-> TRUE,
               post |-> <<module_wasm_app_handle_install_msg(d)>>]
         ELSE Fail(d)

\* wasm_app_module_on_install_request_byte_arrive
Receive(ctx, ch, size, memory, posts, place) ==
  LET c == IF ctx.phase = "Req_Ver" THEN [ctx EXCEPT !.n = 0, !.total = 1]
           ELSE [ctx EXCEPT !.total = @ + 1]
  IN CASE c.phase = "Req_Ver" -> Req_Ver(c, ch)
       [] c.phase = "Req_Action" -> Req_Action(c, ch)
       [] c.phase = "Req_Fmt" -> RECV_INTEGER(c, ch, 2, "Req_Mid")
       [] c.phase = "Req_Mid" -> RECV_INTEGER(c, ch, 4, "Req_Sender")
       [] c.phase = "Req_Sender" -> RECV_INTEGER(c, ch, 4, "Req_Url_Len")
       [] c.phase = "Req_Url_Len" -> Req_Url_Len(c, ch, memory)
       [] c.phase = "Req_Payload_Len" -> RECV_INTEGER(c, ch, 4, "Req_Url")
       [] c.phase = "Req_Url" -> Req_Url(c, ch)
       [] c.phase = "App_Magic" -> App_Magic(c, ch)
       [] c.phase = "Wasm_Version" -> FileVersionByte(c, ch, "Wasm_Section_Type")
       [] c.phase = "Wasm_Section_Type" -> Wasm_Section_Type(c, ch, memory, place)
       [] c.phase = "Wasm_Section_Size" -> Wasm_Section_Size(c, ch, memory)
       [] c.phase = "Wasm_Section_Content" -> Section_Content(c, size, posts, "Wasm_Section_Type")
       [] c.phase = "AOT_Version" -> FileVersionByte(c, ch, "AOT_Section_ID")
       [] c.phase = "AOT_Section_ID" -> AOT_Section_ID(c, ch, memory, place)
       [] c.phase = "AOT_Section_Size" -> AOT_Section_Size(c, ch, memory)
       [] c.phase = "AOT_Section_Content" -> Section_Content(c, size, posts, "AOT_Section_ID")

----------------------------------------------------------------------------
(* What becomes of the sections of a package.                              *)

\* The first section of each of the types is taken from the list.
FirstOf(list, type) ==
  {list[i] : i \in {i \in DOMAIN list : /\ list[i].type = type
                                        /\ \A j \in 1..i - 1 : list[j].type # type}}
\* Mutant: a section is freed and stays in the list.
MutStaysInList(list, types) ==
  [list |-> list, freed |-> UNION {FirstOf(list, t) : t \in types}]
destroy_part_sections(list, types) ==
  LET out == UNION {FirstOf(list, t) : t \in types}
  IN [list |-> Keep(list, {i \in DOMAIN list : list[i] \notin out}), freed |-> out]

\* Released after loading, and after instantiation.
AfterLoad(kind) == IF kind = "wasm" THEN 0..9 ELSE {0, 1, 3, 4, 5, 6}
AfterInstance(kind) == IF kind = "wasm" THEN {Data} ELSE {}

\* aot_unload unmaps the text that the loader found in the list.
Unload(kind, list) ==
  IF kind = "aot" THEN {s \in ToSet(list) : s.type = Text /\ s.room # None} ELSE {}
=============================================================================
