----------------------------- MODULE HostLink ------------------------------
(***************************************************************************)
(* The device as its host sees it: frames arrive byte after byte, requests *)
(* in them are routed, packages collected, and the manager installs and    *)
(* removes applications, which register and post in the meantime.          *)
(* Responses to the host are left out.                                     *)
(***************************************************************************)
EXTENDS Package, Registry

CONSTANTS
  Themes,        \* what may be sent and called: [frames, count, calls, faults]
  MaxPayload,    \* 1024 * 1024, the largest payload accepted
  MaxQueue,      \* length of the manager's queue
  MaxApps        \* MAX_APP_INSTALLATIONS

ASSUME LinkAssumption == {MaxPayload, MaxQueue, MaxApps} \subseteq Nat

VARIABLES
  theme, wire,   \* the frame being sent: [frame, at, number, clean, failed, done]
  link,          \* recv_ctx of app_manager_host.c
  recv,          \* recv_ctx of module_wasm_app.c
  queue,         \* of the manager
  apps,          \* serial -> [kind, sections] of an installed application
  heap,          \* [live, twice, dropped, wild]: sections not freed, freed again, and
                 \* left behind by a request that nobody took them from; wild when the
                 \* program has gone outside of its memory, after which nothing is claimed
  calls, faults
vars == <<theme, wire, link, recv, queue, apps, heap, calls, faults, registry>>

Leading == <<18, 52>>
REQUEST_PACKET == 2
INSTALL_WASM_APP == 4
COAP_GET == 1
COAP_PUT == 3
COAP_DELETE == 4

\* A frame is [type, payload, means]: means is what it should come to, nothing
\* when it is not well-formed.
Bytes(f) == Leading \o NetworkOrder(f.type, 2) \o NetworkOrder(Len(f.payload), 4) \o f.payload

ASSUME FrameAssumption == \A t \in Themes : \A f \in t.frames : Bytes(f) \in Seq(0..255)

\* type is <<high byte, low byte>>; a payload is none until it is allocated.
NewLink == [phase |-> "Non_Start", n |-> 0, type |-> <<0, 0>>, word |-> <<>>, size |-> 0,
            payload |-> <<>>, held |-> FALSE]

Init ==
  /\ theme \in Themes
  /\ wire = [frame |-> [bytes |-> <<>>, means |-> <<>>], at |-> 0, number |-> 0,
             clean |-> TRUE, failed |-> FALSE, done |-> <<>>]
  /\ link = NewLink /\ recv = NewReceiver /\ queue = <<>>
  /\ apps = << >> /\ heap = [live |-> {}, twice |-> {}, dropped |-> {}, wild |-> FALSE]
  /\ calls = 0 /\ faults = 0
  /\ RegistryInit

----------------------------------------------------------------------------
(* Bytes from the host.                                                    *)

Idle == wire.at = Len(wire.frame.bytes)
\* The device is where a frame and a package begin.
Fresh ==
  /\ link.phase = "Non_Start" /\ link.n = 0
  /\ recv.phase = "Req_Ver" /\ recv.sections = <<>>
Send(f) ==
  /\ Idle /\ wire.number < theme.count
  /\ wire' = [frame |-> [bytes |-> Bytes(f), means |-> f.means], at |-> 0,
              number |-> wire.number + 1, failed |-> FALSE, done |-> <<>>,
              clean |-> Fresh]
  /\ UNCHANGED <<theme, link, recv, queue, apps, heap, calls, faults, registry>>

Byte == wire.frame.bytes[wire.at + 1]
Arrives(done, failed) ==
  wire' = [wire EXCEPT !.at = @ + 1, !.done = @ \o done, !.failed = @ \/ failed]

\* A part of the device that a byte does not reach.
Stays == UNCHANGED <<theme, apps, calls, registry>>
Keeps == UNCHANGED <<recv, queue, heap, faults>> /\ Stays

Phase_Non_Start ==
  /\ link.phase = "Non_Start"
  /\ link' = [link EXCEPT !.size = 0, !.payload = <<>>, !.held = FALSE,
                          !.phase = IF Byte = Leading[1] THEN "Leading" ELSE @]
  /\ Arrives(<<>>, FALSE) /\ Keeps

Phase_Leading ==
  /\ link.phase = "Leading"
  /\ link' = [link EXCEPT !.phase = IF Byte = Leading[2] THEN "Type" ELSE "Non_Start"]
  /\ Arrives(<<>>, FALSE) /\ Keeps

\* The first byte is the one that comes with size_in_phase 0.  The or of the
\* second with what is there is their sum: one of the two is 0.
Phase_Type ==
  /\ link.phase = "Type"
  /\ link' = IF link.n = 0 THEN [link EXCEPT !.n = 1, !.type = <<0, Byte>>]
             ELSE [link EXCEPT !.n = 0, !.phase = "Size",
                               !.type = <<link.type[2], link.type[1] + Byte>>]
  /\ Arrives(<<>>, FALSE) /\ Keeps

Is(type) == link.type = <<0, type>>

\* Mutant: the payload is stored from where the size ended.
MutSizeNotReset(memory) ==
  LET word == IF link.n = 0 THEN <<Byte>> ELSE Append(link.word, Byte)
      size == Number(word)
      c == [link EXCEPT !.n = @ + 1, !.word = word]
      whole == [c EXCEPT !.size = size, !.payload = <<>>, !.held = FALSE]
      wants == c.n = 4 /\ size \in 1..MaxPayload /\ ~Is(INSTALL_WASM_APP)
  IN /\ link.phase = "Size"
     /\ memory \/ wants
     /\ link' = CASE c.n < 4 -> c
                  [] c.n = 4 /\ size = 0 -> NewLink
                  [] c.n = 4 /\ (size > MaxPayload \/ ~memory) -> [whole EXCEPT !.phase = "Non_Start"]
                  [] OTHER -> [whole EXCEPT !.phase = "Payload", !.held = wants]
     /\ Arrives(<<>>, ~memory)
     /\ faults' = faults + IF memory THEN 0 ELSE 1
     /\ UNCHANGED <<recv, queue, heap>> /\ Stays
\* After the last byte of the size: an empty message is complete, a payload that
\* is too large or finds no memory leaves size_in_phase as it is.
Phase_Size(memory) ==
  LET word == IF link.n = 0 THEN <<Byte>> ELSE Append(link.word, Byte)
      size == Number(word)
      c == [link EXCEPT !.n = @ + 1, !.word = word]
      whole == [c EXCEPT !.size = size, !.payload = <<>>, !.held = FALSE]
      wants == c.n = 4 /\ size \in 1..MaxPayload /\ ~Is(INSTALL_WASM_APP)
  IN /\ link.phase = "Size"
     /\ memory \/ wants
     /\ link' = CASE c.n < 4 -> c
                  [] c.n = 4 /\ size = 0 -> NewLink
                  [] c.n = 4 /\ (size > MaxPayload \/ ~memory) -> [whole EXCEPT !.phase = "Non_Start"]
                  [] OTHER -> [whole EXCEPT !.phase = "Payload", !.n = 0, !.held = wants]
     /\ Arrives(<<>>, ~memory)
     /\ faults' = faults + IF memory THEN 0 ELSE 1
     /\ UNCHANGED <<recv, queue, heap>> /\ Stays

\* aee_host_msg_callback for a message with a payload: a request is routed, to
\* the queue of the manager if it is for that one.  What cannot be unpacked is
\* left in the context; one that is judged by a byte outside of it may pass.
Wild == [heap EXCEPT !.wild = TRUE]
ForManager(url) == check_url_start(url, <<"applet">>) \/ check_url_start(url, <<"event">>)
Routed(r) ==
  LET url == Urls[r.url[1]] IN
  IF ForManager(url)
  THEN /\ queue' = IF Len(queue) < MaxQueue THEN Append(queue, r) ELSE queue
       /\ UNCHANGED registry
  ELSE /\ Route(am_dispatch_request(url)) /\ UNCHANGED queue
       /\ UNCHANGED <<module_data_list, module_id_max, serial, g_resources, g_events>>

Phase_Payload ==
  LET c == [link EXCEPT !.n = @ + 1, !.payload = Append(@, Byte)]
      r == unpack_request(c.payload)
  IN /\ link.phase = "Payload" /\ ~Is(INSTALL_WASM_APP)
     /\ CASE c.n < c.size -> link' = c /\ Arrives(<<>>, FALSE) /\ UNCHANGED <<queue, heap, registry>>
          [] c.n = c.size /\ ~Is(REQUEST_PACKET) ->
               link' = NewLink /\ Arrives(<<>>, FALSE) /\ UNCHANGED <<queue, heap, registry>>
          [] c.n = c.size /\ Is(REQUEST_PACKET) /\ ~CanUnpack(c.payload) ->
               /\ link' = [c EXCEPT !.phase = "Non_Start"]
               /\ heap' = heap \/ (LooksOutside(c.payload) /\ heap' = Wild)
               /\ Arrives(<<>>, FALSE) /\ UNCHANGED <<queue, registry>>
          [] OTHER -> link' = NewLink /\ Arrives(<<r>>, FALSE) /\ Routed(r) /\ UNCHANGED heap
     /\ UNCHANGED <<theme, recv, apps, calls, faults>>

\* A section is known by where its header began.
Place == <<wire.number, wire.at>>
Ids(sections) == {s.at : s \in sections}

\* A byte of a package.  The message is complete when the receiver has counted as
\* many bytes as it has, whether or not the package is.
Phase_Install(memory) ==
  LET takes == Len(queue) < MaxQueue
      counted == IF recv.phase = "Req_Ver" THEN 1 ELSE recv.total + 1
  IN /\ link.phase = "Payload" /\ Is(INSTALL_WASM_APP)
     /\ \E r \in {Receive(recv, Byte, link.size, memory, memory /\ takes, Place)} :
          /\ memory \/ r # Receive(recv, Byte, link.size, TRUE, takes, Place)
          /\ link' = CASE ~r.ret -> [link EXCEPT !.phase = "Non_Start", !.n = 0]
                       [] r.ret /\ counted = link.size -> NewLink
                       [] OTHER -> [link EXCEPT !.n = @ + 1]
          /\ recv' = r.ctx
          /\ queue' = queue \o [i \in DOMAIN r.post |->
                                  [action |-> r.post[i].action, url |-> r.post[i].url,
                                   file |-> r.post[i]]]
          /\ heap' = [heap EXCEPT !.live = @ \cup Ids(ToSet(r.ctx.sections))
                                             \cup UNION {Ids(ToSet(p.sections)) : p \in ToSet(r.post)}]
          /\ Arrives(r.post, ~memory \/ ~takes)
     /\ faults' = faults + IF memory THEN 0 ELSE 1
     /\ Stays

Arrival ==
  /\ ~Idle
  /\ \/ Phase_Non_Start
     \/ Phase_Leading
     \/ Phase_Type
     \/ Phase_Payload
     \/ \E memory \in IF faults < theme.faults THEN BOOLEAN ELSE {TRUE} :
          Phase_Size(memory) \/ Phase_Install(memory)

----------------------------------------------------------------------------
(* The manager.                                                            *)

\* Sections freed one group after the other, and others left behind.
Released(groups, left, wild) ==
  LET before(k) == UNION {Ids(groups[j]) : j \in 1..k - 1}
      again(k) == {s \in groups[k] : s.at \notin heap.live \ before(k)}
  IN heap' = [live |-> heap.live \ before(Len(groups) + 1),
              twice |-> heap.twice \cup UNION {again(k) : k \in DOMAIN groups},
              dropped |-> heap.dropped \cup left, wild |-> wild]
Freed(groups) == Released(groups, {}, FALSE)
Dropped(sections) == heap' = [heap EXCEPT !.dropped = @ \cup Ids(ToSet(sections))]

\* How far an installation gets: the loader fails before or after it has found the
\* text, the instance cannot be made, or what comes after it: the module's data,
\* and once it is listed its timers and its thread; or nothing fails.
Steps == {"load", "text", "instance", "late", "timers", "thread", "done"}

Refused(name) == Len(module_data_list) >= MaxApps \/ module_data_list_lookup(name) # <<>>

\* Without its thread the module is taken off the list again; without its timers
\* it is freed and stays there.
Listed(name, step) ==
  CASE step = "late" -> UNCHANGED registry
    [] step = "thread" -> AddedInVain
    [] step = "timers" -> module_data_list_add(name) /\ UNCHANGED <<g_resources, g_events>>

wasm_app_module_install(name, file, step) ==
  LET loaded == destroy_part_sections(file.sections, AfterLoad(file.kind))
      made == destroy_part_sections(loaded.list, AfterInstance(file.kind))
      all == ToSet(file.sections)
  IN CASE step = "load" -> Freed(<<all>>) /\ UNCHANGED <<apps, registry>>
       [] step = "text" -> /\ Freed(<<Unload(file.kind, file.sections), all>>)
                           /\ UNCHANGED <<apps, registry>>
       [] step = "instance" ->
            /\ Freed(<<loaded.freed, Unload(file.kind, loaded.list), ToSet(loaded.list)>>)
            /\ UNCHANGED <<apps, registry>>
       [] step \in {"late", "timers", "thread"} ->
            /\ Released(<<loaded.freed, made.freed, Unload(file.kind, made.list), ToSet(made.list)>>,
                        {}, step = "timers")
            /\ Listed(name, step) /\ UNCHANGED apps
       [] step = "done" ->
            /\ Freed(<<loaded.freed, made.freed>>)
            /\ apps' = [x \in DOMAIN apps \cup {serial} |->
                          IF x = serial THEN [kind |-> file.kind, sections |-> made.list]
                          ELSE apps[x]]
            /\ module_data_list_add(name)
            /\ UNCHANGED <<g_resources, g_events>>

\* cleanup_app_resource: the sections first, then the module.  Sections that came
\* with the request are left.
wasm_app_module_uninstall(name, left) ==
  LET m == module_data_list_lookup(name) IN
  IF m = <<>> THEN Released(<<>>, left, FALSE) /\ UNCHANGED <<apps, registry>>
  ELSE LET a == apps[m[1].serial] IN
       /\ Released(<<ToSet(a.sections), Unload(a.kind, a.sections)>>, left, FALSE)
       /\ apps' = [x \in DOMAIN apps \ {m[1].serial} |-> apps[x]]
       /\ Cleanup(m[1])

event_handle_event_request(action, url, memory) ==
  /\ g_events' = CASE action = COAP_PUT -> am_register_event(url, ID_HOST, ID_HOST, memory)
                   [] action = COAP_DELETE -> am_unregister_event(url, ID_HOST)
                   [] OTHER -> g_events
  /\ IF action = COAP_PUT THEN Starved(url, memory) ELSE UNCHANGED registry_facts
  /\ UNCHANGED <<module_data_list, module_id_max, serial, g_resources>>

\* A request that brought sections has them in file; only an installation takes
\* them.  An ordinary one passes for a package by the first bytes of its payload,
\* and the bytes after them for the lists of sections.
Parcel(r) == IF "file" \in DOMAIN r THEN Ids(ToSet(r.file.sections)) ELSE {}
get_package_type(payload) ==
  {kind \in {"wasm", "aot"} : Len(payload) >= 4 /\ SubSeq(payload, 1, 4) = Magic[kind]}

app_manager_queue_callback(step, memory) ==
  LET r == Head(queue)
      url == Urls[r.url[1]]
      applet == check_url_start(url, <<"applet">>) /\ Len(url) = 2
      brings == "file" \in DOMAIN r
      installs == applet /\ r.action = COAP_PUT /\ ~Refused(url[2])
      keeps == IF brings THEN Dropped(r.file.sections) ELSE UNCHANGED heap
  IN /\ queue # <<>> /\ queue' = Tail(queue)
     /\ step = "done" \/ (installs /\ brings)
     /\ memory = "all" \/ (check_url_start(url, <<"event">>) /\ r.action = COAP_PUT)
     /\ CASE installs /\ brings -> wasm_app_module_install(url[2], r.file, step)
          [] installs /\ ~brings ->
               /\ heap' = IF get_package_type(r.payload) = {} THEN heap ELSE Wild
               /\ UNCHANGED <<apps, registry>>
          [] applet /\ r.action = COAP_DELETE -> wasm_app_module_uninstall(url[2], Parcel(r))
          [] check_url_start(url, <<"event">>) ->
               /\ event_handle_event_request(r.action, Tail(url), memory)
               /\ keeps /\ UNCHANGED apps
          [] OTHER -> keeps /\ UNCHANGED <<apps, registry>>
     /\ faults' = faults + (IF step = "done" THEN 0 ELSE 1) + (IF memory = "all" THEN 0 ELSE 1)
     /\ faults' <= theme.faults
     /\ UNCHANGED <<theme, wire, link, recv, calls>>

\* Applications call while no frame is under way: a byte but the last of a frame
\* touches nothing that they do, and the last one is a step of its own.
Calls ==
  /\ Idle /\ calls < theme.calls /\ calls' = calls + 1
  /\ \E m \in ToSet(module_data_list), memory \in {"all", "event", "none"} :
       /\ memory = "all" \/ faults < theme.faults
       /\ faults' = faults + IF memory = "all" THEN 0 ELSE 1
       /\ Call(m, memory)
  /\ UNCHANGED <<theme, wire, link, recv, queue, apps, heap>>

Next ==
  /\ ~heap.wild
  /\ \/ \E f \in theme.frames : Send(f)
     \/ Arrival
     \/ \E step \in Steps, memory \in {"all", "event", "none"} :
          app_manager_queue_callback(step, memory)
     \/ Calls

Spec == Init /\ [][Next]_vars

----------------------------------------------------------------------------
(* Properties.                                                             *)

\* A frame that finds the device at the start of a frame and of a package, and
\* memory and queue not exhausted, comes to exactly what it means, and leaves the
\* device there again: on_imrt_link_byte_arrive and the receiver of a package
\* agree with the host on where everything begins and ends.
AsSent ==
  /\ wire.done # <<>> => Idle
  /\ Idle /\ wire.clean /\ ~wire.failed =>
       /\ Len(wire.done) = Len(wire.frame.means)
       /\ \A i \in DOMAIN wire.done :
            LET d == wire.done[i]
                e == wire.frame.means[i]
            IN /\ d.url = e.url /\ d.action = e.action
               /\ IF "sections" \in DOMAIN d
                  THEN /\ d.kind = e.kind
                       /\ [k \in DOMAIN d.sections |-> <<d.sections[k].type, d.sections[k].size>>]
                            = e.sections
                  ELSE d = e
       /\ wire.frame.means # <<>> => Fresh

\* No byte is stored outside of the buffer that was allocated for it, whatever
\* arrives after a frame or a package was given up half way; a URL or a section of
\* length 0 is the one exception.
WritesInside ==
  /\ recv.over => recv.zero
  /\ link.phase = "Payload" /\ ~Is(INSTALL_WASM_APP) => link.held /\ link.n < link.size

\* Who holds sections, and which.
Owners == {<<"receiver", 0>>} \cup {<<"queue", i>> : i \in DOMAIN queue}
            \cup {<<"app", x>> : x \in DOMAIN apps}
Held(o) ==
  CASE o[1] = "receiver" -> Ids(ToSet(recv.sections))
    [] o[1] = "queue" -> Parcel(queue[o[2]])
    [] o[1] = "app" -> Ids(ToSet(apps[o[2]].sections))

\* A section has one owner from its header to its release: the receiver, the
\* manager's queue or an application, whose module reads its code there.  It is
\* released once; the text of an AOT package is unmapped by aot_unload as well.
\* It is lost only with a request that does not install it.
SectionsOwned ==
  LET held == UNION {Held(o) : o \in Owners}
  IN /\ heap.live = held \cup heap.dropped
     /\ held \cap heap.dropped = {}
     /\ \A o, p \in Owners : o # p => Held(o) \cap Held(p) = {}
     /\ \A s \in heap.twice : s.type = Text
=============================================================================
