----------------------------- MODULE MCHostLink ----------------------------
EXTENDS HostLink

MCUrls ==
  <<<<"applet", "a">>, <<"applet", "b">>, <<"event", "e">>, <<"app", "a", "x">>,
    <<"r", "s">>, <<"applet">>>>
MCPaths == {<<"r">>, <<"e">>, <<"app", "a", "x">>}

Carries(action, url, payload) ==
  LET r == [action |-> action, mid |-> 7, sender |-> 0, url |-> <<url, 0>>, payload |-> payload]
  IN [type |-> REQUEST_PACKET, payload |-> pack_request(r), means |-> <<r>>]

Request(action, url) == Carries(action, url, <<>>)

\* Frames that come to nothing.
Raw(type, payload) == [type |-> type, payload |-> payload, means |-> <<>>]

Zeros(n) == [i \in 1..n |-> 0]
LittleEndian(n) == Reverse(NetworkOrder(n, 4))
WasmFile(sections) ==
  Magic.wasm \o FileVersion
    \o FlattenSeq([i \in DOMAIN sections |-> sections[i] \o Zeros(sections[i][2])])
AotFile(sections) ==
  FoldLeft(LAMBDA f, s : f \o Zeros((4 - (Len(f) % 4)) % 4) \o LittleEndian(s[1])
                           \o LittleEndian(s[2]) \o Zeros(s[2]),
           Magic.aot \o FileVersion, sections)
With(action, url, file) == Header(action, 7, 0, Len(url), Len(file)) \o url \o file
Put(url, file) == With(COAP_PUT, url, file)
Pack(action, url, kind, sections) ==
  [type |-> INSTALL_WASM_APP,
   payload |-> With(action, <<url, 0>>,
                    IF kind = "wasm" THEN WasmFile(sections) ELSE AotFile(sections)),
   means |-> <<[action |-> action, url |-> <<url, 0>>, kind |-> kind, sections |-> sections]>>]
Install(url, kind, sections) == Pack(COAP_PUT, url, kind, sections)

WasmApp == Install(1, "wasm", <<<<1, 1>>, <<0, 1>>, <<10, 2>>, <<11, 1>>, <<0, 1>>>>)
AotApp == Install(2, "aot", <<<<0, 1>>, <<2, 2>>, <<3, 1>>>>)
SmallApp(url) == Install(url, "wasm", <<<<10, 1>>>>)

Bad == {
  Raw(REQUEST_PACKET, Zeros(MaxPayload + 1)),                \* too large
  Raw(REQUEST_PACKET, <<2, 3>>),                             \* cannot be unpacked
  Raw(3, <<1>>), Raw(REQUEST_PACKET, <<>>),                  \* of another type, empty
  Raw(INSTALL_WASM_APP, <<2>> \o Zeros(20)),                 \* no request
  Raw(INSTALL_WASM_APP, Put(<<1, 0>>, <<0, 97, 115, 0>>)),   \* neither kind of file
  Raw(INSTALL_WASM_APP, Put(<<1, 0>>, Magic.wasm \o <<2>>)),
  Raw(INSTALL_WASM_APP, Put(<<1, 0>>, WasmFile(<<<<10, 1>>>>) \o <<12>>)),
  Raw(INSTALL_WASM_APP, Put(<<1, 0>>, WasmFile(<<>>) \o <<1, 128, 128, 128, 128, 128>>)),
  Raw(INSTALL_WASM_APP, Put(<<1, 0>>, AotFile(<<<<2, 1>>, <<6, 1>>>>))),
  Raw(INSTALL_WASM_APP, Put(<<1, 0>>, WasmFile(<<>>) \o <<10, 3, 0>>)),  \* ends in a section
  Raw(INSTALL_WASM_APP, Put(<<1, 0>>, AotFile(<<<<2, 1>>>>) \o <<0>>)),  \* in a padding
  Raw(INSTALL_WASM_APP, Put(<<1, 0>>, WasmFile(<<<<1, 0>>>>) \o <<0>>)),
  Raw(INSTALL_WASM_APP, Put(<<>>, WasmFile(<<<<10, 1>>>>))) }            \* of no length

\* A request whose lengths start over in 32 bits, requests to install that bring no
\* sections, one of them with a payload that begins like a package, and a package
\* that asks for the removal of its application.
Odd == {
  Raw(REQUEST_PACKET, Header(COAP_PUT, 7, 0, 5, -5)),
  Carries(COAP_PUT, 1, <<0>>), Carries(COAP_PUT, 1, Magic.wasm),
  Pack(COAP_DELETE, 1, "wasm", <<<<10, 1>>>>) }

MCThemes ==
  { [frames |-> Bad \cup {WasmApp, AotApp, Request(COAP_DELETE, 1)}, count |-> 3,
     calls |-> 0, faults |-> 1],
    [frames |-> {WasmApp, AotApp, Request(COAP_DELETE, 1), Request(COAP_DELETE, 2),
                 Install(3, "wasm", <<<<10, 1>>>>), Install(6, "wasm", <<<<10, 1>>>>)},
     count |-> 4, calls |-> 0, faults |-> 0],
    [frames |-> Odd \cup {SmallApp(1)}, count |-> 3, calls |-> 0, faults |-> 1],
    [frames |-> {SmallApp(1), SmallApp(2), Request(COAP_DELETE, 2)}, count |-> 4,
     calls |-> 1, faults |-> 0],
    [frames |-> {SmallApp(1), SmallApp(2), Request(COAP_DELETE, 2)}, count |-> 3,
     calls |-> 2, faults |-> 0],
    [frames |-> {SmallApp(1), Request(COAP_PUT, 3), Request(COAP_DELETE, 3),
                 Request(COAP_DELETE, 1), Request(COAP_GET, 4), Request(COAP_GET, 5)},
     count |-> 3, calls |-> 2, faults |-> 1] }
=============================================================================
