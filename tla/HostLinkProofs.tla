--------------------------- MODULE HostLinkProofs ---------------------------
(***************************************************************************)
(* Proofs about HostLink for any frames, any number of calls and faults,   *)
(* and any limits.                                                         *)
(***************************************************************************)
EXTENDS HostLink, ListLemmas

(* Lists whose elements may be anything.                                   *)

List(s) == \E n \in Nat : s = [i \in 1..n |-> s[i]]

\* A list as a sequence of its elements.
LEMMA ListSeq ==
  ASSUME NEW s, List(s)
  PROVE  s \in Seq(ToSet(s)) /\ Len(s) \in Nat /\ DOMAIN s = 1..Len(s)
  <1>1. PICK n \in Nat : s = [i \in 1..n |-> s[i]]
    BY DEF List
  <1>2. DOMAIN s = 1..n
    BY <1>1
  <1>3. \A i \in 1..n : s[i] \in ToSet(s)
    BY <1>2 DEF ToSet
  <1>4. s \in [1..n -> ToSet(s)]
    BY <1>1, <1>3
  <1>5. s \in Seq(ToSet(s))
    BY <1>4
  <1> QED BY <1>5

\* A sequence is a list.
LEMMA SeqList ==
  ASSUME NEW S, NEW s \in Seq(S)
  PROVE  List(s)
  <1>1. s = [i \in 1..Len(s) |-> s[i]] /\ Len(s) \in Nat
    OBVIOUS
  <1> QED BY <1>1 DEF List

\* The first element that passes a test, when there is one.
LEMMA LookupId ==
  ASSUME NEW id, List(module_data_list)
  PROVE  \/ /\ module_data_list_lookup_id(id) = <<>>
            /\ \A i \in DOMAIN module_data_list : module_data_list[i].id # id
         \/ \E i \in DOMAIN module_data_list :
              /\ module_data_list_lookup_id(id) = <<module_data_list[i]>>
              /\ module_data_list[i].id = id
  <1> DEFINE hits == {i \in DOMAIN module_data_list : module_data_list[i].id = id}
  <1>1. CASE hits = {}
    BY <1>1 DEF module_data_list_lookup_id, First
  <1>2. CASE hits # {}
    <2>1. hits \in SUBSET Nat
      BY ListSeq
    <2>2. PICK k \in hits : \A m \in hits : k <= m
      BY <1>2, <2>1, Least
    <2>3. Min(hits) \in hits
      BY <2>1, <2>2 DEF Min
    <2>4. module_data_list_lookup_id(id) = <<module_data_list[Min(hits)]>>
      BY <1>2 DEF module_data_list_lookup_id, First
    <2> QED BY <2>3, <2>4
  <1> QED BY <1>1, <1>2

\* What a walk along list carries: the elements kept so far.
Walk(list, K, f) ==
  [i \in 0..Len(list) |-> IF i = 0 THEN <<>>
                          ELSE IF i \in K THEN Append(f[i - 1], list[i]) ELSE f[i - 1]]

\* The recursion of Keep, as a function with its equations.
LEMMA KeepWalk ==
  ASSUME NEW list, NEW K, List(list)
  PROVE  \E f : f = Walk(list, K, f) /\ Keep(list, K) = f[Len(list)]
  <1> DEFINE S == ToSet(list)
             n == Len(list)
             G == [x \in (1..n) \X Seq(S) |->
                     IF x[1] \in K THEN Append(x[2], list[x[1]]) ELSE x[2]]
  <1>1. list \in Seq(S) /\ n \in Nat
    BY ListSeq
  <1>2. G \in [(1..n) \X Seq(S) -> Seq(S)]
    <2>1. ASSUME NEW x \in (1..n) \X Seq(S)
          PROVE  (IF x[1] \in K THEN Append(x[2], list[x[1]]) ELSE x[2]) \in Seq(S)
      <3>1. x[1] \in 1..n /\ x[2] \in Seq(S) /\ list[x[1]] \in S
        BY <1>1
      <3> QED BY <3>1
    <2> QED BY <2>1
  <1>3. <<>> \in Seq(S)
    OBVIOUS
  <1>4. \A i \in 1..n : \A v \in Seq(S) : G[<<i, v>>] = IF i \in K THEN Append(v, list[i]) ELSE v
    OBVIOUS
  <1> HIDE DEF G
  <1>5. PICK f \in [0..n -> Seq(S)] : f[0] = <<>> /\ \A i \in 1..n : f[i] = G[<<i, f[i - 1]>>]
    <2> DEFINE V == Seq(S)
               v0 == <<>>
    <2>1. v0 \in V /\ n \in Nat /\ StaysIn(G, n, V)
      BY <1>1, <1>2, <1>3 DEF StaysIn
    <2> HIDE DEF V, v0, n
    <2>2. \E f \in [0..n -> V] : Carries(f, v0, G, n)
      BY <2>1, PrimRec
    <2> QED BY <2>2 DEF V, v0, Carries
  <1>6. ASSUME NEW i \in 0..n
        PROVE  f[i] = (IF i = 0 THEN <<>> ELSE IF i \in K THEN Append(f[i - 1], list[i]) ELSE f[i - 1])
    <2>1. CASE i = 0
      BY <2>1, <1>5
    <2>2. CASE i # 0
      <3>1. i \in 1..n /\ i - 1 \in 0..n
        BY <2>2, <1>1
      <3>2. f[i - 1] \in Seq(S)
        BY <3>1
      <3> QED BY <2>2, <3>1, <3>2, <1>4, <1>5
    <2> QED BY <2>1, <2>2
  <1>7. f = Walk(list, K, f)
    BY <1>6 DEF Walk
  <1>8. Keep(list, K) = (CHOOSE g : g = Walk(list, K, g))[Len(list)]
    BY DEF Keep, Walk
  <1> QED BY <1>7, <1>8

\* v holds the elements of list at the places of P, each once: g says which one is where.
Picks(g, v, list, P) ==
  /\ \A i \in 1..Len(v) : g[i] \in P /\ v[i] = list[g[i]]
  /\ \A i, j \in 1..Len(v) : g[i] = g[j] => i = j
  /\ \A k \in P : \E i \in 1..Len(v) : g[i] = k

\* One step of the walk that unlinks.
LEMMA KeepStep ==
  ASSUME NEW list, List(list), NEW K, NEW m \in 1..Len(list), NEW v \in Seq(ToSet(list)),
         NEW g, Picks(g, v, list, K \cap 1..m - 1),
         NEW w, w = IF m \in K THEN Append(v, list[m]) ELSE v
  PROVE  w \in Seq(ToSet(list)) /\ \E h : Picks(h, w, list, K \cap 1..m)
  <1>1. list \in Seq(ToSet(list)) /\ Len(list) \in Nat /\ Len(v) \in Nat
    BY ListSeq
  <1>2. list[m] \in ToSet(list)
    BY <1>1
  <1>3. CASE m \notin K
    <2>1. K \cap 1..m = K \cap 1..m - 1
      BY <1>1, <1>3
    <2> QED BY <2>1, <1>3
  <1>4. CASE m \in K
    <2> DEFINE h == [i \in 1..Len(v) + 1 |-> IF i <= Len(v) THEN g[i] ELSE m]
    <2>1. /\ w \in Seq(ToSet(list)) /\ Len(w) = Len(v) + 1 /\ w[Len(v) + 1] = list[m]
          /\ \A i \in 1..Len(v) : w[i] = v[i]
      BY <1>2, <1>4
    <2>2. \A i \in 1..Len(v) : h[i] = g[i] /\ g[i] \in K \cap 1..m - 1
      BY <1>1 DEF Picks
    <2>3. h[Len(v) + 1] = m
      BY <1>1
    <2> HIDE DEF h
    <2>4. ASSUME NEW i \in 1..Len(v) + 1 PROVE i \in 1..Len(v) \/ i = Len(v) + 1
      BY <1>1
    <2>5. ASSUME NEW i \in 1..Len(w) PROVE h[i] \in K \cap 1..m /\ w[i] = list[h[i]]
      <3>1. CASE i \in 1..Len(v)
        <4>1. h[i] \in K \cap 1..m - 1 /\ w[i] = v[i] /\ v[i] = list[g[i]] /\ h[i] = g[i]
          BY <3>1, <2>1, <2>2 DEF Picks
        <4> QED BY <4>1
      <3>2. CASE i = Len(v) + 1
        BY <3>2, <2>1, <2>3, <1>4
      <3> QED BY <3>1, <3>2, <2>1, <2>4
    <2>6. ASSUME NEW i \in 1..Len(w), NEW j \in 1..Len(w), h[i] = h[j] PROVE i = j
      <3>1. CASE i \in 1..Len(v) /\ j \in 1..Len(v)
        BY <3>1, <2>2, <2>6 DEF Picks
      <3>2. \A k \in 1..Len(v) : h[k] # m
        BY <2>2
      <3> QED BY <3>1, <3>2, <2>1, <2>3, <2>4, <2>6
    <2>7. ASSUME NEW k \in K \cap 1..m PROVE \E i \in 1..Len(w) : h[i] = k
      <3>1. CASE k = m
        <4>1. Len(v) + 1 \in 1..Len(w)
          BY <1>1, <2>1
        <4> QED BY <3>1, <4>1, <2>3
      <3>2. CASE k # m
        <4>1. k \in K \cap 1..m - 1
          BY <3>2
        <4>2. PICK i \in 1..Len(v) : g[i] = k
          BY <4>1 DEF Picks
        <4>3. i \in 1..Len(w)
          BY <1>1, <2>1
        <4> QED BY <4>2, <4>3, <2>2
      <3> QED BY <3>1, <3>2
    <2>8. Picks(h, w, list, K \cap 1..m)
      BY <2>5, <2>6, <2>7 DEF Picks
    <2> QED BY <2>1, <2>8
  <1> QED BY <1>3, <1>4

\* What is kept of a list is a list of the elements at the places of K.
LEMMA KeepElements ==
  ASSUME NEW list, List(list), NEW K \in SUBSET DOMAIN list
  PROVE  /\ List(Keep(list, K)) /\ Keep(list, K) \in Seq(ToSet(list))
         /\ \E g : Picks(g, Keep(list, K), list, K)
  <1> DEFINE n == Len(list)
             Done(v, m) == v \in Seq(ToSet(list)) /\ \E g : Picks(g, v, list, K \cap 1..m)
  <1>1. PICK f : f = Walk(list, K, f) /\ Keep(list, K) = f[n]
    BY KeepWalk
  <1>2. n \in Nat /\ DOMAIN list = 1..n
    BY ListSeq
  <1>3. f[0] = <<>> /\ \A i \in 1..n : f[i] = IF i \in K THEN Append(f[i - 1], list[i]) ELSE f[i - 1]
    <2>1. \A i \in 0..n : f[i] = IF i = 0 THEN <<>>
                                 ELSE IF i \in K THEN Append(f[i - 1], list[i]) ELSE f[i - 1]
      BY <1>1 DEF Walk
    <2>2. 0 \in 0..n /\ \A i \in 1..n : i \in 0..n /\ i # 0
      BY <1>2
    <2> QED BY <2>1, <2>2
  <1> DEFINE T == {m \in 0..n : ~Done(f[m], m)}
  <1>4. ASSUME T # {} PROVE FALSE
    <2>1. T \in SUBSET Nat
      OBVIOUS
    <2>2. PICK m \in T : \A k \in T : m <= k
      BY <1>4, <2>1, Least
    <2>3. m \in 0..n /\ ~Done(f[m], m)
      OBVIOUS
    <2>4. CASE m = 0
      <3>1. f[m] \in Seq(ToSet(list)) /\ Len(f[m]) = 0 /\ 1..0 = {}
        BY <2>4, <1>3
      <3>2. Picks(<<>>, f[m], list, K \cap 1..m)
        BY <3>1, <2>4 DEF Picks
      <3> QED BY <3>1, <3>2, <2>3
    <2>5. CASE m # 0
      <3>0. m \in 1..n /\ m - 1 \in 0..n
        BY <2>3, <2>5, <1>2
      <3>1. m \in 1..n /\ m - 1 \in 0..n /\ m - 1 \notin T
        <4> HIDE DEF T
        <4> QED BY <2>2, <3>0
      <3>2. Done(f[m - 1], m - 1)
        BY <3>1
      <3>3. f[m] = IF m \in K THEN Append(f[m - 1], list[m]) ELSE f[m - 1]
        BY <3>1, <1>3
      <3>4. PICK g : Picks(g, f[m - 1], list, K \cap 1..m - 1)
        BY <3>2
      <3>5. f[m - 1] \in Seq(ToSet(list))
        BY <3>2
      <3>6. f[m] \in Seq(ToSet(list)) /\ \E h : Picks(h, f[m], list, K \cap 1..m)
        BY <3>1, <3>3, <3>4, <3>5, KeepStep
      <3> QED BY <3>6, <2>3
    <2> QED BY <2>4, <2>5
  <1>5. n \in 0..n
    BY <1>2
  <1>6. n \notin T
    <2> HIDE DEF T
    <2> QED BY <1>4
  <1>7. Done(f[n], n)
    BY <1>5, <1>6
  <1>8. K \cap 1..n = K
    BY <1>2
  <1> QED BY <1>1, <1>7, <1>8, SeqList

-----------------------------------------------------------------------------
(* The registry: registrations lead to their module.                       *)

\* The module with this id and this serial is listed.
Homed(id, by, list) == \E k \in DOMAIN list : list[k].id = id /\ list[k].serial = by

\* Ids are unique unless one was given out twice; serials always are.
ModuleList(list, ser) ==
  /\ ser \in Nat /\ List(list)
  /\ \A k \in DOMAIN list : list[k].serial \in Nat /\ list[k].serial < ser
  /\ \A j, k \in DOMAIN list : list[j].id = list[k].id => j = k
  /\ \A j, k \in DOMAIN list : list[j].serial = list[k].serial => j = k

ResourceList(res, list) ==
  /\ List(res)
  /\ \A i \in DOMAIN res : res[i].id = ID_APP_MGR \/ Homed(res[i].id, res[i].by, list)

SubscriberList(subs, list) ==
  /\ List(subs)
  /\ \A i \in DOMAIN subs : subs[i].id = ID_HOST \/ Homed(subs[i].id, subs[i].by, list)
  /\ \A i, j \in DOMAIN subs : subs[i].id = subs[j].id => i = j

EventOf(e, list, starved) ==
  /\ e = [url |-> e.url, subs |-> e.subs]
  /\ SubscriberList(e.subs, list)
  /\ e.subs = <<>> => starved

EventList(ev, list, starved) ==
  List(ev) /\ \A i \in DOMAIN ev : EventOf(ev[i], list, starved)

\* The inductive invariant of RoutedHome: what it says of the registrations, with
\* the modules listed under different ids and serials that were given out before.
RegistryInv ==
  /\ registry_facts \in [clash : BOOLEAN, starved : BOOLEAN, misrouted : BOOLEAN]
  /\ ~registry_facts.clash =>
       /\ ModuleList(module_data_list, serial)
       /\ ResourceList(g_resources, module_data_list)
       /\ EventList(g_events, module_data_list, registry_facts.starved)
       /\ ~registry_facts.misrouted

\* The serials of no module and of one.
LEMMA SerialsShort ==
  ASSUME NEW x
  PROVE  Serials(<<>>) = {} /\ Serials(<<x>>) = {x.serial} /\ ToSet(<<>>) = {} /\ ToSet(<<x>>) = {x}
  BY DEF Serials, ToSet

\* A lookup by the id of a registration finds its maker alone.
LEMMA HomedSerials ==
  ASSUME ModuleList(module_data_list, serial), NEW id, NEW by, Homed(id, by, module_data_list)
  PROVE  Serials(module_data_list_lookup_id(id)) = {by}
  <1>1. PICK k \in DOMAIN module_data_list : module_data_list[k].id = id /\ module_data_list[k].serial = by
    BY DEF Homed
  <1>2. PICK i \in DOMAIN module_data_list :
          /\ module_data_list_lookup_id(id) = <<module_data_list[i]>>
          /\ module_data_list[i].id = id
    BY <1>1, LookupId DEF ModuleList
  <1>3. i = k
    BY <1>1, <1>2 DEF ModuleList
  <1> QED BY <1>1, <1>2, <1>3, SerialsShort

\* The least place that a walk stops at.
LEMMA FirstHit ==
  ASSUME NEW s, List(s), NEW H \in SUBSET DOMAIN s, H # {}
  PROVE  Min(H) \in H
  <1>1. H \in SUBSET Nat
    BY ListSeq
  <1>2. PICK k \in H : \A m \in H : k <= m
    BY <1>1, Least
  <1> QED BY <1>1, <1>2 DEF Min

\* A lookup by name finds a listed module or none.
LEMMA LookupName ==
  ASSUME NEW name, List(module_data_list)
  PROVE  \/ module_data_list_lookup(name) = <<>>
         \/ \E i \in DOMAIN module_data_list : module_data_list_lookup(name) = <<module_data_list[i]>>
  <1> DEFINE hits == {i \in DOMAIN module_data_list : module_data_list[i].name = name}
  <1>1. hits # {} => Min(hits) \in hits
    BY FirstHit
  <1>2. module_data_list_lookup(name) = IF hits = {} THEN <<>> ELSE <<module_data_list[Min(hits)]>>
    BY DEF module_data_list_lookup, First
  <1> QED BY <1>1, <1>2

\* A request goes to whoever it is for.
LEMMA Dispatched ==
  ASSUME ModuleList(module_data_list, serial), ResourceList(g_resources, module_data_list), NEW url
  PROVE  am_dispatch_request(url).to = am_dispatch_request(url).by
  <1> DEFINE hits == {i \in DOMAIN g_resources : check_url_start(url, g_resources[i].url)}
             hit == IF hits = {} THEN <<>> ELSE <<g_resources[Min(hits)]>>
  <1>1. hits # {} => Min(hits) \in hits
    BY FirstHit DEF ResourceList
  <1>2. am_dispatch_request(url) =
          CASE hit = <<>> -> [by |-> {}, to |-> {}]
            [] hit # <<>> /\ hit[1].id # ID_APP_MGR ->
                 [by |-> {hit[1].by}, to |-> module_request_handler(hit[1].id)]
            [] OTHER -> [by |-> IF hit[1].url # <<"app">> \/ Len(url) < 3 THEN {}
                                ELSE Serials(module_data_list_lookup(url[2])),
                         to |-> IF hit[1].url = <<"app">> THEN targeted_app_request_handler(url) ELSE {}]
    BY DEF am_dispatch_request, First
  <1>3. hit = <<>> \/ \E i \in DOMAIN g_resources : hit = <<g_resources[i]>>
    BY <1>1
  <1> HIDE DEF hit
  <1>4. CASE hit = <<>>
    <2>1. am_dispatch_request(url) = [by |-> {}, to |-> {}]
      BY <1>2, <1>4
    <2> QED BY <2>1
  <1>5. CASE hit # <<>> /\ hit[1].id # ID_APP_MGR
    <2>1. PICK i \in DOMAIN g_resources : hit = <<g_resources[i]>>
      BY <1>3, <1>5
    <2>2. Homed(hit[1].id, hit[1].by, module_data_list)
      BY <2>1, <1>5 DEF ResourceList
    <2>3. module_request_handler(hit[1].id) = {hit[1].by}
      BY <2>2, HomedSerials DEF module_request_handler
    <2>4. am_dispatch_request(url) = [by |-> {hit[1].by}, to |-> module_request_handler(hit[1].id)]
      BY <1>2, <1>5
    <2> QED BY <2>3, <2>4
  <1>6. CASE hit # <<>> /\ hit[1].id = ID_APP_MGR
    <2>1. /\ am_dispatch_request(url).by = IF hit[1].url # <<"app">> \/ Len(url) < 3 THEN {}
                                           ELSE Serials(module_data_list_lookup(url[2]))
          /\ am_dispatch_request(url).to = IF hit[1].url = <<"app">>
                                           THEN targeted_app_request_handler(url) ELSE {}
      BY <1>2, <1>6
    <2>2. Len(url) < 3 => targeted_app_request_handler(url) = {}
      BY SerialsShort DEF targeted_app_request_handler
    <2>3. ASSUME ~(Len(url) < 3)
          PROVE  targeted_app_request_handler(url) = Serials(module_data_list_lookup(url[2]))
      <3>1. targeted_app_request_handler(url) =
              UNION {module_request_handler(x.id) : x \in ToSet(module_data_list_lookup(url[2]))}
        BY <2>3 DEF targeted_app_request_handler
      <3>2. CASE module_data_list_lookup(url[2]) = <<>>
        <4>1. ToSet(module_data_list_lookup(url[2])) = {} /\ Serials(module_data_list_lookup(url[2])) = {}
          BY <3>2, SerialsShort
        <4> QED BY <3>1, <4>1
      <3>3. CASE module_data_list_lookup(url[2]) # <<>>
        <4>1. PICK i \in DOMAIN module_data_list :
                module_data_list_lookup(url[2]) = <<module_data_list[i]>>
          BY <3>3, LookupName DEF ModuleList
        <4> DEFINE m == module_data_list[i]
        <4>2. Homed(m.id, m.serial, module_data_list)
          BY DEF Homed
        <4>3. module_request_handler(m.id) = {m.serial}
          BY <4>2, HomedSerials DEF module_request_handler
        <4>4. ToSet(module_data_list_lookup(url[2])) = {m} /\ Serials(module_data_list_lookup(url[2])) = {m.serial}
          BY <4>1, SerialsShort
        <4> HIDE DEF m
        <4> DEFINE L == ToSet(module_data_list_lookup(url[2]))
        <4> HIDE DEF L
        <4>5. targeted_app_request_handler(url) = UNION {module_request_handler(x.id) : x \in L} /\ L = {m}
          BY <3>1, <4>4 DEF L
        <4>6. UNION {module_request_handler(x.id) : x \in L} = module_request_handler(m.id)
          BY <4>5
        <4> QED BY <4>3, <4>4, <4>5, <4>6
      <3> QED BY <3>2, <3>3
    <2> QED BY <2>1, <2>2, <2>3
  <1> QED BY <1>4, <1>5, <1>6

\* An event goes to its subscribers.
LEMMA Published ==
  ASSUME ModuleList(module_data_list, serial), NEW starved,
         EventList(g_events, module_data_list, starved), NEW url
  PROVE  am_publish_event(url).to = am_publish_event(url).by
  <1> DEFINE hits == {i \in DOMAIN g_events : g_events[i].url = url}
             e == IF hits = {} THEN <<>> ELSE <<g_events[Min(hits)]>>
             subs == IF e = <<>> THEN {} ELSE {s \in ToSet(e[1].subs) : s.id # ID_HOST}
  <1>1. hits # {} => Min(hits) \in hits
    BY FirstHit DEF EventList
  <1>2. am_publish_event(url) =
          [by |-> {s.by : s \in subs}, to |-> UNION {module_request_handler(s.id) : s \in subs}]
    BY DEF am_publish_event, First
  <1>3. e = <<>> \/ \E i \in DOMAIN g_events : e = <<g_events[i]>>
    BY <1>1
  <1> HIDE DEF e
  <1>4. ASSUME NEW s \in subs PROVE module_request_handler(s.id) = {s.by}
    <2>1. PICK i \in DOMAIN g_events : e = <<g_events[i]>>
      BY <1>3, <1>4
    <2>2. SubscriberList(e[1].subs, module_data_list)
      BY <2>1 DEF EventList, EventOf
    <2>3. PICK k \in DOMAIN e[1].subs : s = e[1].subs[k]
      BY <2>1 DEF ToSet
    <2>4. Homed(s.id, s.by, module_data_list)
      BY <2>1, <2>2, <2>3 DEF SubscriberList
    <2> QED BY <2>4, HomedSerials DEF module_request_handler
  <1> HIDE DEF subs
  <1>5. UNION {module_request_handler(s.id) : s \in subs} = {s.by : s \in subs}
    BY <1>4
  <1> QED BY <1>2, <1>5

\* A new head.
LEMMA ConsList ==
  ASSUME NEW s, List(s), NEW e, NEW t, t = Cons(e, s)
  PROVE  /\ List(t) /\ DOMAIN t = 1..Len(s) + 1 /\ t[1] = e
         /\ Len(s) \in Nat /\ DOMAIN s = 1..Len(s)
         /\ \A i \in 2..Len(s) + 1 : t[i] = s[i - 1]
         /\ \A i \in DOMAIN s : i + 1 \in DOMAIN t /\ t[i + 1] = s[i]
  <1> DEFINE S == ToSet(s) \cup {e}
  <1>1. s \in Seq(ToSet(s)) /\ Len(s) \in Nat /\ DOMAIN s = 1..Len(s)
    BY ListSeq
  <1>2. s \in Seq(S) /\ e \in S
    BY <1>1
  <1> HIDE DEF S
  <1>3. /\ t \in Seq(S) /\ Len(t) = Len(s) + 1 /\ t[1] = e
        /\ \A i \in 2..Len(s) + 1 : t[i] = s[i - 1]
    BY <1>2, ConsElements DEF Cons
  <1>4. ASSUME NEW u \in Seq(S) PROVE List(u) /\ DOMAIN u = 1..Len(u)
    BY SeqList
  <1>5. List(t) /\ DOMAIN t = 1..Len(s) + 1
    BY <1>3, <1>4
  <1>6. ASSUME NEW i \in DOMAIN s PROVE i + 1 \in DOMAIN t /\ t[i + 1] = s[i]
    <2>1. i + 1 \in 2..Len(s) + 1 /\ i + 1 \in 1..Len(s) + 1 /\ (i + 1) - 1 = i
      BY <1>1
    <2> QED BY <2>1, <1>3, <1>5
  <1> QED BY <1>1, <1>3, <1>5, <1>6

\* A registration is of use as long as its module stays.
LEMMA StillHomed ==
  ASSUME NEW list, NEW t, \A id, by : Homed(id, by, list) => Homed(id, by, t)
  PROVE  /\ \A res : ResourceList(res, list) => ResourceList(res, t)
         /\ \A ev, starved : EventList(ev, list, starved) => EventList(ev, t, starved)
  <1>1. \A subs : SubscriberList(subs, list) => SubscriberList(subs, t)
    BY DEF SubscriberList
  <1>2. \A e, starved : EventOf(e, list, starved) => EventOf(e, t, starved)
    BY <1>1 DEF EventOf
  <1>3. \A res : ResourceList(res, list) => ResourceList(res, t)
    BY DEF ResourceList
  <1> QED BY <1>2, <1>3 DEF EventList

\* A new module in the list.
LEMMA AddsModule ==
  ASSUME RegistryInv, NEW name, module_data_list_add(name), UNCHANGED <<g_resources, g_events>>
  PROVE  RegistryInv'
  <1> DEFINE id == IF module_id_max = IdLimit THEN 1 ELSE module_id_max
             e == [id |-> id, name |-> name, serial |-> serial]
             list == module_data_list
             t == Cons(e, list)
  <1>1. /\ module_data_list' = t /\ serial' = serial + 1
        /\ registry_facts' = [registry_facts EXCEPT
                                !.clash = @ \/ module_data_list_lookup_id(id) # <<>>]
    BY DEF module_data_list_add, NewId, Cons
  <1>2. registry_facts \in [clash : BOOLEAN, starved : BOOLEAN, misrouted : BOOLEAN]
    BY DEF RegistryInv
  <1>3. /\ registry_facts' \in [clash : BOOLEAN, starved : BOOLEAN, misrouted : BOOLEAN]
        /\ registry_facts'.starved = registry_facts.starved
        /\ registry_facts'.misrouted = registry_facts.misrouted
        /\ ~registry_facts'.clash => ~registry_facts.clash /\ module_data_list_lookup_id(id) = <<>>
    BY <1>1, <1>2
  <1>4. ASSUME ~registry_facts'.clash
        PROVE  /\ ModuleList(module_data_list', serial')
               /\ ResourceList(g_resources', module_data_list')
               /\ EventList(g_events', module_data_list', registry_facts'.starved)
               /\ ~registry_facts'.misrouted
    <2>1. /\ ModuleList(list, serial) /\ ResourceList(g_resources, list)
          /\ EventList(g_events, list, registry_facts.starved) /\ ~registry_facts.misrouted
      BY <1>3, <1>4 DEF RegistryInv
    <2>2. /\ List(t) /\ DOMAIN t = 1..Len(list) + 1 /\ t[1] = e /\ Len(list) \in Nat
          /\ DOMAIN list = 1..Len(list) /\ \A i \in 2..Len(list) + 1 : t[i] = list[i - 1]
          /\ \A i \in DOMAIN list : i + 1 \in DOMAIN t /\ t[i + 1] = list[i]
      <3>1. List(list)
        BY <2>1 DEF ModuleList
      <3> HIDE DEF e
      <3> QED BY <3>1, ConsList
    <2>3. ASSUME NEW i \in DOMAIN list, list[i].id = id PROVE FALSE
      <3> HIDE DEF id
      <3>1. PICK j \in DOMAIN list : module_data_list_lookup_id(id) = <<list[j]>>
        BY <2>1, <2>3, LookupId DEF ModuleList
      <3>2. <<list[j]>> # <<>>
        OBVIOUS
      <3> QED BY <1>3, <1>4, <3>1, <3>2
    <2>4. e.id = id /\ e.serial = serial
      OBVIOUS
    <2> HIDE DEF e, t, id
    <2>5. serial \in Nat /\ \A i \in DOMAIN list : list[i].serial \in Nat /\ list[i].serial < serial
      BY <2>1 DEF ModuleList
    <2>6. ASSUME NEW i \in DOMAIN t
          PROVE  i = 1 \/ (i - 1 \in DOMAIN list /\ t[i] = list[i - 1] /\ i \in Nat)
      BY <2>2
    <2>7. ASSUME NEW i \in DOMAIN t PROVE t[i].serial \in Nat /\ t[i].serial < serial + 1
      BY <2>2, <2>4, <2>5, <2>6
    <2>8. ASSUME NEW i \in DOMAIN t, NEW j \in DOMAIN t
          PROVE  (t[i].id = t[j].id => i = j) /\ (t[i].serial = t[j].serial => i = j)
      <3>1. CASE i = 1 /\ j = 1
        BY <3>1
      <3>2. CASE i # 1 /\ j # 1
        <4>1. (t[i].id = t[j].id => i - 1 = j - 1) /\ (t[i].serial = t[j].serial => i - 1 = j - 1)
          BY <3>2, <2>6, <2>1 DEF ModuleList
        <4>2. i \in Nat /\ j \in Nat
          BY <2>2
        <4> QED BY <4>1, <4>2
      <3>3. CASE i = 1 /\ j # 1
        BY <3>3, <2>2, <2>3, <2>4, <2>5, <2>6
      <3>4. CASE i # 1 /\ j = 1
        BY <3>4, <2>2, <2>3, <2>4, <2>5, <2>6
      <3> QED BY <3>1, <3>2, <3>3, <3>4
    <2>9. ModuleList(t, serial + 1)
      BY <2>2, <2>5, <2>7, <2>8 DEF ModuleList
    <2>10. \A x, by : Homed(x, by, list) => Homed(x, by, t)
      BY <2>2 DEF Homed
    <2>11. ResourceList(g_resources, t) /\ EventList(g_events, t, registry_facts.starved)
      BY <2>1, <2>10, StillHomed
    <2> QED BY <1>1, <1>3, <2>1, <2>9, <2>11
  <1> QED BY <1>3, <1>4 DEF RegistryInv

\* A request that is routed leaves no trace but in misrouted.
LEMMA RoutesHome ==
  ASSUME RegistryInv, NEW r, Route(r), ~registry_facts.clash => r.to = r.by,
         UNCHANGED <<module_data_list, serial, g_resources, g_events>>
  PROVE  RegistryInv'
  <1>1. registry_facts' = [registry_facts EXCEPT !.misrouted = @ \/ r.to # r.by]
    BY DEF Route
  <1>2. registry_facts \in [clash : BOOLEAN, starved : BOOLEAN, misrouted : BOOLEAN]
    BY DEF RegistryInv
  <1>3. /\ registry_facts' \in [clash : BOOLEAN, starved : BOOLEAN, misrouted : BOOLEAN]
        /\ registry_facts'.starved = registry_facts.starved
        /\ registry_facts'.misrouted = (registry_facts.misrouted \/ r.to # r.by)
        /\ registry_facts'.clash = registry_facts.clash
    BY <1>1, <1>2
  <1> QED BY <1>3 DEF RegistryInv

\* What is kept of a list, by index.
Kept(t, list, K, g) ==
  /\ List(t)
  /\ \A i \in DOMAIN t : g[i] \in K /\ t[i] = list[g[i]]
  /\ \A i, j \in DOMAIN t : g[i] = g[j] => i = j
  /\ \A k \in K : \E i \in DOMAIN t : t[i] = list[k]

\* What a walk that unlinks leaves, by the places it keeps.
LEMMA KeepKept ==
  ASSUME NEW list, List(list), NEW K \in SUBSET DOMAIN list
  PROVE  \E g : Kept(Keep(list, K), list, K, g)
  <1> DEFINE t == Keep(list, K)
  <1>1. List(t)
    BY KeepElements
  <1>2. DOMAIN t = 1..Len(t)
    BY <1>1, ListSeq
  <1>3. PICK g : Picks(g, t, list, K)
    BY KeepElements
  <1> HIDE DEF t
  <1>4. \A k \in K : \E i \in 1..Len(t) : t[i] = list[k]
    <2> SUFFICES ASSUME NEW k \in K PROVE \E i \in 1..Len(t) : t[i] = list[k]
      OBVIOUS
    <2>1. PICK i \in 1..Len(t) : g[i] = k
      BY <1>3 DEF Picks
    <2>2. t[i] = list[k]
      BY <1>3, <2>1 DEF Picks
    <2> QED BY <2>2
  <1>5. Kept(t, list, K, g)
    BY <1>1, <1>2, <1>3, <1>4 DEF Kept, Picks
  <1> QED BY <1>5 DEF t

\* The module with this serial leaves; the others stay listed.
LEMMA ModuleLeaves ==
  ASSUME NEW list, NEW ser, ModuleList(list, ser), NEW m \in ToSet(list), NEW t,
         t = Keep(list, {i \in DOMAIN list : list[i].serial # m.serial})
  PROVE  /\ ModuleList(t, ser)
         /\ \A id, by : Homed(id, by, list) /\ id # m.id => Homed(id, by, t)
  <1> DEFINE K == {i \in DOMAIN list : list[i].serial # m.serial}
  <1>1. List(list) /\ K \in SUBSET DOMAIN list
    BY DEF ModuleList
  <1>2. PICK k \in DOMAIN list : m = list[k]
    BY DEF ToSet
  <1> HIDE DEF K
  <1>3. PICK g : Kept(t, list, K, g)
    BY <1>1, KeepKept DEF K
  <1>4. \A i \in DOMAIN t : g[i] \in DOMAIN list /\ t[i] = list[g[i]]
    BY <1>3 DEF Kept, K
  <1>5. ModuleList(t, ser)
    <2>1. \A i \in DOMAIN t : t[i].serial \in Nat /\ t[i].serial < ser
      BY <1>4 DEF ModuleList
    <2>2. ASSUME NEW i \in DOMAIN t, NEW j \in DOMAIN t
          PROVE  (t[i].id = t[j].id => i = j) /\ (t[i].serial = t[j].serial => i = j)
      <3>1. (t[i].id = t[j].id => g[i] = g[j]) /\ (t[i].serial = t[j].serial => g[i] = g[j])
        BY <1>4 DEF ModuleList
      <3> QED BY <3>1, <1>3 DEF Kept
    <2> QED BY <2>1, <2>2, <1>3 DEF ModuleList, Kept
  <1>6. ASSUME NEW id, NEW by, Homed(id, by, list), id # m.id PROVE Homed(id, by, t)
    <2>1. PICK j \in DOMAIN list : list[j].id = id /\ list[j].serial = by
      BY <1>6 DEF Homed
    <2>2. j # k
      BY <2>1, <1>2, <1>6
    <2>3. j \in K
      BY <2>1, <2>2, <1>2 DEF K, ModuleList
    <2>4. PICK i \in DOMAIN t : t[i] = list[j]
      BY <2>3, <1>3 DEF Kept
    <2> QED BY <2>1, <2>4 DEF Homed
  <1> QED BY <1>5, <1>6

\* The resources of a module that leaves go, the others stay at home.
LEMMA ResourcesLeave ==
  ASSUME NEW list, NEW t, NEW id, ResourceList(g_resources, list),
         \A x, by : Homed(x, by, list) /\ x # id => Homed(x, by, t)
  PROVE  ResourceList(am_cleanup_registeration(id), t)
  <1> DEFINE K == {i \in DOMAIN g_resources : g_resources[i].id # id}
             u == am_cleanup_registeration(id)
  <1>1. List(g_resources) /\ K \in SUBSET DOMAIN g_resources
    BY DEF ResourceList
  <1> HIDE DEF K, u
  <1>2. PICK g : Kept(u, g_resources, K, g)
    BY <1>1, KeepKept DEF K, u, am_cleanup_registeration
  <1>3. \A i \in DOMAIN u : g[i] \in DOMAIN g_resources /\ u[i] = g_resources[g[i]] /\ u[i].id # id
    BY <1>2 DEF Kept, K
  <1>4. \A i \in DOMAIN u : u[i].id = ID_APP_MGR \/ Homed(u[i].id, u[i].by, t)
    BY <1>3 DEF ResourceList
  <1> QED BY <1>2, <1>4 DEF Kept, ResourceList, u

\* The subscriptions of a module that leaves go, the others stay at home.
LEMMA SubscribersLeave ==
  ASSUME NEW list, NEW t, NEW id, NEW subs, SubscriberList(subs, list),
         \A x, by : Homed(x, by, list) /\ x # id => Homed(x, by, t)
  PROVE  SubscriberList(Keep(subs, {i \in DOMAIN subs : subs[i].id # id}), t)
  <1> DEFINE K == {i \in DOMAIN subs : subs[i].id # id}
             u == Keep(subs, K)
  <1>1. List(subs) /\ K \in SUBSET DOMAIN subs
    BY DEF SubscriberList
  <1> HIDE DEF K
  <1>2. PICK g : Kept(u, subs, K, g)
    BY <1>1, KeepKept
  <1> HIDE DEF u
  <1>3. \A i \in DOMAIN u : g[i] \in DOMAIN subs /\ u[i] = subs[g[i]] /\ u[i].id # id
    BY <1>2 DEF Kept, K
  <1>4. \A i \in DOMAIN u : u[i].id = ID_HOST \/ Homed(u[i].id, u[i].by, t)
    BY <1>3 DEF SubscriberList
  <1>5. ASSUME NEW i \in DOMAIN u, NEW j \in DOMAIN u, u[i].id = u[j].id PROVE i = j
    <2>1. g[i] = g[j]
      BY <1>3, <1>5 DEF SubscriberList
    <2> QED BY <2>1, <1>2 DEF Kept
  <1>6. SubscriberList(u, t)
    BY <1>2, <1>4, <1>5 DEF Kept, SubscriberList
  <1> QED BY <1>6 DEF u, K

\* Subscribers of this id leave the events meant, all of them for url "all".
LEMMA EventsLeave ==
  ASSUME NEW list, NEW t, NEW url, NEW id, NEW starved, EventList(g_events, list, starved),
         \A x, by : Homed(x, by, list) /\ x # id => Homed(x, by, t),
         url # "all" => \A x, by : Homed(x, by, list) => Homed(x, by, t)
  PROVE  EventList(am_unregister_event(url, id), t, starved)
  <1> DEFINE meant(e) == url = "all" \/ e.url = url
             left(subs) == Keep(subs, {i \in DOMAIN subs : subs[i].id # id})
             cut(e) == [e EXCEPT !.subs = left(e.subs)]
             events == [i \in DOMAIN g_events |->
                          IF meant(g_events[i]) THEN cut(g_events[i]) ELSE g_events[i]]
             K == {i \in DOMAIN events : ~(events[i].subs = <<>> /\ meant(events[i]))}
             u == Keep(events, K)
  <1>1. am_unregister_event(url, id) = u
    BY DEF am_unregister_event
  <1>2. DOMAIN g_events = 1..Len(g_events) /\ Len(g_events) \in Nat
    BY ListSeq DEF EventList
  <1>3. List(events) /\ DOMAIN events = DOMAIN g_events
    <2>1. events = [i \in 1..Len(g_events) |-> events[i]]
      BY <1>2
    <2> QED BY <2>1, <1>2 DEF List
  <1>4. ASSUME NEW i \in DOMAIN g_events
        PROVE  /\ events[i] = [url |-> events[i].url, subs |-> events[i].subs]
               /\ SubscriberList(events[i].subs, t)
               /\ ~meant(events[i]) => EventOf(events[i], t, starved)
    <2>1. EventOf(g_events[i], list, starved)
      BY DEF EventList
    <2>2. CASE ~meant(g_events[i])
      <3>1. events[i] = g_events[i] /\ url # "all"
        BY <2>2
      <3>2. SubscriberList(g_events[i].subs, t)
        BY <2>1, <3>1 DEF EventOf, SubscriberList
      <3> QED BY <2>1, <3>1, <3>2 DEF EventOf
    <2>3. CASE meant(g_events[i])
      <3> DEFINE e == g_events[i]
                 l == left(e.subs)
      <3>1. SubscriberList(l, t)
        BY <2>1, SubscribersLeave DEF EventOf
      <3>2. events[i] = [e EXCEPT !.subs = l]
        BY <2>3
      <3> HIDE DEF e, l
      <3>3. e = [url |-> e.url, subs |-> e.subs]
        BY <2>1 DEF EventOf, e
      <3>4. events[i] = [url |-> e.url, subs |-> l]
        BY <3>2, <3>3
      <3>5. events[i].url = e.url /\ events[i].subs = l
        <4> HIDE DEF events
        <4> QED BY <3>4
      <3> QED BY <3>1, <3>4, <3>5, <2>3 DEF e
    <2> QED BY <2>2, <2>3
  <1> HIDE DEF events
  <1>5. PICK g : Kept(u, events, K, g)
    BY <1>3, KeepKept
  <1>6. \A i \in DOMAIN u : g[i] \in K /\ u[i] = events[g[i]] /\ g[i] \in DOMAIN g_events
    BY <1>3, <1>5 DEF Kept
  <1> HIDE DEF u
  <1>7. ASSUME NEW i \in DOMAIN u PROVE EventOf(u[i], t, starved)
    <2>1. u[i] = events[g[i]] /\ g[i] \in DOMAIN g_events /\ g[i] \in K
      BY <1>6
    <2>2. CASE meant(u[i])
      <3>1. u[i].subs # <<>>
        BY <2>1, <2>2
      <3> QED BY <2>1, <3>1, <1>4 DEF EventOf
    <2>3. CASE ~meant(u[i])
      BY <2>1, <2>3, <1>4
    <2> QED BY <2>2, <2>3
  <1>8. EventList(u, t, starved)
    BY <1>5, <1>7 DEF EventList, Kept
  <1> QED BY <1>1, <1>8

\* An uninstalled module leaves nothing in the registry.
LEMMA CleansUp ==
  ASSUME RegistryInv, NEW m \in ToSet(module_data_list), Cleanup(m)
  PROVE  RegistryInv'
  <1>1. /\ g_resources' = am_cleanup_registeration(m.id)
        /\ g_events' = am_unregister_event("all", m.id)
        /\ module_data_list' = Keep(module_data_list, {i \in DOMAIN module_data_list :
                                                         module_data_list[i].serial # m.serial})
        /\ UNCHANGED <<serial, registry_facts>>
    BY DEF Cleanup, module_data_list_remove
  <1>2. ASSUME ~registry_facts.clash
        PROVE  /\ ModuleList(module_data_list', serial)
               /\ ResourceList(g_resources', module_data_list')
               /\ EventList(g_events', module_data_list', registry_facts.starved)
    <2> DEFINE list == module_data_list
               t == module_data_list'
    <2>1. /\ ModuleList(list, serial) /\ ResourceList(g_resources, list)
          /\ EventList(g_events, list, registry_facts.starved)
      BY <1>2 DEF RegistryInv
    <2>2. ModuleList(t, serial) /\ \A id, by : Homed(id, by, list) /\ id # m.id => Homed(id, by, t)
      BY <1>1, <2>1, ModuleLeaves
    <2> HIDE DEF t
    <2>3. ResourceList(am_cleanup_registeration(m.id), t)
      BY <2>1, <2>2, ResourcesLeave
    <2>4. EventList(am_unregister_event("all", m.id), t, registry_facts.starved)
      BY <2>1, <2>2, EventsLeave
    <2> QED BY <1>1, <2>2, <2>3, <2>4 DEF t
  <1> QED BY <1>1, <1>2 DEF RegistryInv

\* A resource registered by a listed module.
LEMMA RegistersResource ==
  ASSUME NEW list, ResourceList(g_resources, list), NEW url, NEW id, NEW by, Homed(id, by, list)
  PROVE  ResourceList(am_register_resource(url, id, by), list)
  <1> DEFINE e == [url |-> url, id |-> id, by |-> by]
             t == Cons(e, g_resources)
  <1>1. am_register_resource(url, id, by) \in {g_resources, t}
    BY DEF am_register_resource, Cons
  <1>2. e.id = id /\ e.by = by
    OBVIOUS
  <1> HIDE DEF e
  <1>3. /\ List(t) /\ DOMAIN t = 1..Len(g_resources) + 1 /\ t[1] = e
        /\ Len(g_resources) \in Nat /\ DOMAIN g_resources = 1..Len(g_resources)
        /\ \A i \in 2..Len(g_resources) + 1 : t[i] = g_resources[i - 1]
    BY ConsList DEF ResourceList
  <1> HIDE DEF t
  <1>4. ASSUME NEW i \in DOMAIN t
        PROVE  t[i].id = ID_APP_MGR \/ Homed(t[i].id, t[i].by, list)
    <2>1. CASE i = 1
      BY <2>1, <1>2, <1>3
    <2>2. CASE i # 1
      <3>1. i - 1 \in DOMAIN g_resources /\ t[i] = g_resources[i - 1]
        BY <2>2, <1>3
      <3> QED BY <3>1 DEF ResourceList
    <2> QED BY <2>1, <2>2
  <1>5. ResourceList(t, list)
    BY <1>3, <1>4 DEF ResourceList
  <1> QED BY <1>1, <1>5

\* A new subscriber at the head of the list.
LEMMA AddsSubscriber ==
  ASSUME NEW list, NEW subs, SubscriberList(subs, list), NEW id, NEW by,
         id = ID_HOST \/ Homed(id, by, list), \A i \in DOMAIN subs : subs[i].id # id
  PROVE  /\ SubscriberList(Cons([id |-> id, by |-> by], subs), list)
         /\ Cons([id |-> id, by |-> by], subs) # <<>>
  <1> DEFINE e == [id |-> id, by |-> by]
             t == Cons(e, subs)
  <1>2. e.id = id /\ e.by = by
    OBVIOUS
  <1> HIDE DEF e
  <1>3. /\ List(t) /\ DOMAIN t = 1..Len(subs) + 1 /\ t[1] = e
        /\ Len(subs) \in Nat /\ DOMAIN subs = 1..Len(subs)
        /\ \A i \in 2..Len(subs) + 1 : t[i] = subs[i - 1]
    BY ConsList DEF SubscriberList
  <1> HIDE DEF t
  <1>4. ASSUME NEW i \in DOMAIN t, i # 1
        PROVE  i - 1 \in DOMAIN subs /\ t[i] = subs[i - 1] /\ i \in Nat
    BY <1>3, <1>4
  <1>5. ASSUME NEW i \in DOMAIN t
        PROVE  t[i].id = ID_HOST \/ Homed(t[i].id, t[i].by, list)
    BY <1>2, <1>3, <1>4 DEF SubscriberList
  <1>6. ASSUME NEW i \in DOMAIN t, NEW j \in DOMAIN t, t[i].id = t[j].id PROVE i = j
    <2>1. CASE i = 1 /\ j = 1
      BY <2>1
    <2>2. CASE i # 1 /\ j # 1
      <3>1. i - 1 = j - 1
        BY <2>2, <1>4, <1>6 DEF SubscriberList
      <3> QED BY <2>2, <3>1, <1>4
    <2>3. CASE i = 1 /\ j # 1
      BY <2>3, <1>2, <1>3, <1>4, <1>6
    <2>4. CASE i # 1 /\ j = 1
      BY <2>4, <1>2, <1>3, <1>4, <1>6
    <2> QED BY <2>1, <2>2, <2>3, <2>4
  <1>7. SubscriberList(t, list)
    BY <1>3, <1>5, <1>6 DEF SubscriberList
  <1>8. t # <<>>
    <2>1. 1 \in DOMAIN t /\ DOMAIN <<>> = {}
      BY <1>3
    <2> QED BY <2>1
  <1> QED BY <1>7, <1>8 DEF t, e

\* The events after a call that had memory for both, for the event alone, or for
\* nothing: only an event that was left alone has no subscriber.
LEMMA RegistersEvent ==
  ASSUME NEW list, NEW starved, EventList(g_events, list, starved), NEW url, NEW id, NEW by,
         id = ID_HOST \/ Homed(id, by, list), NEW memory \in {"all", "event", "none"}
  PROVE  EventList(am_register_event(url, id, by, memory), list,
                   starved \/ (memory = "event" /\ ~event_is_registered(url)))
  <1> DEFINE starves == starved \/ (memory = "event" /\ ~event_is_registered(url))
             known == event_is_registered(url)
             k == CHOOSE i \in DOMAIN g_events : g_events[i].url = url
             e == [url |-> url, subs |-> <<>>]
             fresh == Cons(e, g_events)
             events == IF known THEN g_events ELSE fresh
             at == IF known THEN k ELSE 1
             sub == [id |-> id, by |-> by]
             new == [events EXCEPT ![at].subs = Cons(sub, @)]
  <1>1. am_register_event(url, id, by, memory) =
          IF memory = "none" /\ ~known THEN g_events
          ELSE IF find_subscriber(events[at], id) \/ memory # "all" THEN events ELSE new
    BY DEF am_register_event, Cons
  <1>2. \A x, s : EventOf(x, list, starved) => EventOf(x, list, starved \/ s)
    BY DEF EventOf
  <1>3. List(g_events) /\ \A i \in DOMAIN g_events : EventOf(g_events[i], list, starves)
    BY <1>2 DEF EventList
  <1>4. /\ List(fresh) /\ DOMAIN fresh = 1..Len(g_events) + 1 /\ fresh[1] = e
        /\ Len(g_events) \in Nat /\ DOMAIN g_events = 1..Len(g_events)
        /\ \A i \in 2..Len(g_events) + 1 : fresh[i] = g_events[i - 1]
    <2> HIDE DEF e
    <2> QED BY <1>3, ConsList
  <1>5. e.subs = <<>> /\ e.url = url /\ e = [url |-> e.url, subs |-> e.subs]
    OBVIOUS
  <1>6. SubscriberList(<<>>, list)
    <2>1. <<>> = [i \in 1..0 |-> <<>>[i]] /\ DOMAIN <<>> = {}
      OBVIOUS
    <2> QED BY <2>1 DEF SubscriberList, List
  <1> HIDE DEF e
  <1>7. ASSUME NEW i \in DOMAIN fresh, i # 1 PROVE EventOf(fresh[i], list, starves)
    <2>1. i - 1 \in DOMAIN g_events /\ fresh[i] = g_events[i - 1]
      BY <1>4, <1>7
    <2> QED BY <2>1, <1>3
  <1>8. at \in DOMAIN events /\ List(events)
    <2>1. CASE known
      <3>1. k \in DOMAIN g_events
        BY <2>1 DEF event_is_registered
      <3> QED BY <2>1, <3>1, <1>3
    <2>2. CASE ~known
      BY <2>2, <1>4
    <2> QED BY <2>1, <2>2
  <1>9. ASSUME NEW i \in DOMAIN events
        PROVE  /\ events[i] = [url |-> events[i].url, subs |-> events[i].subs]
               /\ SubscriberList(events[i].subs, list)
               /\ (i # at \/ known) => EventOf(events[i], list, starves)
    <2>1. CASE known
      BY <2>1, <1>3 DEF EventOf
    <2>2. CASE ~known /\ i # 1
      BY <2>2, <1>7 DEF EventOf
    <2>3. CASE ~known /\ i = 1
      BY <2>3, <1>4, <1>5, <1>6
    <2> QED BY <2>1, <2>2, <2>3
  <1>10. ~known => events[at] = e
    BY <1>4
  <1> HIDE DEF events, at, fresh
  <1>11. CASE memory = "none" /\ ~known
    <2> HIDE DEF starves
    <2>1. EventList(g_events, list, starves)
      BY <1>3 DEF EventList
    <2> QED BY <1>1, <1>11, <2>1 DEF starves
  <1>12. CASE (memory # "none" \/ known) /\ (find_subscriber(events[at], id) \/ memory # "all")
    <2>1. am_register_event(url, id, by, memory) = events
      BY <1>1, <1>12
    <2>2. ASSUME ~known PROVE EventOf(events[at], list, starves)
      <3>1. ~find_subscriber(events[at], id)
        <4>1. DOMAIN <<>> = {}
          OBVIOUS
        <4> QED BY <4>1, <1>5, <1>10, <2>2 DEF find_subscriber
      <3>2. starves
        BY <3>1, <1>12, <2>2
      <3> HIDE DEF starves
      <3> QED BY <3>2, <1>8, <1>9 DEF EventOf
    <2> HIDE DEF starves
    <2>3. EventList(events, list, starves)
      BY <1>8, <1>9, <2>2 DEF EventList
    <2> QED BY <2>1, <2>3 DEF starves
  <1>13. CASE (memory # "none" \/ known) /\ ~(find_subscriber(events[at], id) \/ memory # "all")
    <2>1. am_register_event(url, id, by, memory) = new
      BY <1>1, <1>13
    <2> DEFINE old == events[at]
               l == Cons(sub, old.subs)
    <2>2. SubscriberList(old.subs, list) /\ old = [url |-> old.url, subs |-> old.subs]
      BY <1>8, <1>9
    <2>3. \A i \in DOMAIN old.subs : old.subs[i].id # id
      BY <1>13 DEF find_subscriber
    <2>4. SubscriberList(l, list) /\ l # <<>>
      BY <2>2, <2>3, AddsSubscriber
    <2>5. new = [events EXCEPT ![at] = [old EXCEPT !.subs = l]]
      OBVIOUS
    <2> HIDE DEF l
    <2>6. [old EXCEPT !.subs = l] = [url |-> old.url, subs |-> l]
      BY <2>2
    <2> DEFINE neu == [url |-> old.url, subs |-> l]
    <2>7. EventOf(neu, list, starves)
      <3>1. neu.url = old.url /\ neu.subs = l
        OBVIOUS
      <3>2. neu = [url |-> neu.url, subs |-> neu.subs]
        BY <3>1
      <3> HIDE DEF neu
      <3> QED BY <2>4, <3>1, <3>2 DEF EventOf
    <2>8. new = [events EXCEPT ![at] = neu]
      BY <2>5, <2>6
    <2> HIDE DEF neu, new, starves
    <2>9. DOMAIN events = 1..Len(events) /\ Len(events) \in Nat /\ events = [i \in 1..Len(events) |-> events[i]]
      <3>1. events \in Seq(ToSet(events)) /\ DOMAIN events = 1..Len(events) /\ Len(events) \in Nat
        BY <1>8, ListSeq
      <3> QED BY <3>1
    <2>10. DOMAIN new = DOMAIN events /\ \A i \in DOMAIN events : new[i] = IF i = at THEN neu ELSE events[i]
      BY <2>8, <2>9
    <2>11. List(new)
      <3>1. new = [i \in 1..Len(events) |-> new[i]]
        BY <2>8, <2>9
      <3> QED BY <3>1, <2>9 DEF List
    <2>12. \A i \in DOMAIN new : EventOf(new[i], list, starves)
      BY <2>7, <2>10, <1>9
    <2>13. EventList(new, list, starves)
      BY <2>11, <2>12 DEF EventList
    <2> QED BY <2>1, <2>13 DEF starves
  <1> QED BY <1>11, <1>12, <1>13

\* An event is registered for an application or for the host.
LEMMA Registers ==
  ASSUME RegistryInv, NEW url, NEW id, NEW by, NEW memory \in {"all", "event", "none"},
         id = ID_HOST \/ Homed(id, by, module_data_list),
         g_events' = am_register_event(url, id, by, memory), Starved(url, memory),
         UNCHANGED <<module_data_list, serial, g_resources>>
  PROVE  RegistryInv'
  <1> DEFINE alone == memory = "event" /\ ~event_is_registered(url)
  <1>1. registry_facts' = [registry_facts EXCEPT !.starved = @ \/ alone]
    BY DEF Starved
  <1>2. registry_facts \in [clash : BOOLEAN, starved : BOOLEAN, misrouted : BOOLEAN]
    BY DEF RegistryInv
  <1>3. ~registry_facts.clash =>
          EventList(g_events', module_data_list, registry_facts.starved \/ alone)
    BY RegistersEvent DEF RegistryInv
  <1>4. alone \in BOOLEAN
    OBVIOUS
  <1> HIDE DEF alone
  <1>5. /\ registry_facts' \in [clash : BOOLEAN, starved : BOOLEAN, misrouted : BOOLEAN]
        /\ registry_facts'.starved = (registry_facts.starved \/ alone)
        /\ registry_facts'.misrouted = registry_facts.misrouted
        /\ registry_facts'.clash = registry_facts.clash
    BY <1>1, <1>2, <1>4
  <1> QED BY <1>3, <1>5 DEF RegistryInv

\* A subscription or its end.
LEMMA HandlesEvent ==
  ASSUME RegistryInv, NEW action, NEW url, NEW memory \in {"all", "event", "none"},
         event_handle_event_request(action, url, memory)
  PROVE  RegistryInv'
  <1>1. CASE action = COAP_PUT
    <2>1. /\ g_events' = am_register_event(url, ID_HOST, ID_HOST, memory) /\ Starved(url, memory)
          /\ UNCHANGED <<module_data_list, serial, g_resources>>
      BY <1>1 DEF event_handle_event_request, COAP_PUT, COAP_DELETE
    <2> QED BY <2>1, Registers
  <1>2. CASE action # COAP_PUT
    <2>1. /\ UNCHANGED <<module_data_list, serial, g_resources, registry_facts>>
          /\ g_events' = am_unregister_event(url, ID_HOST) \/ g_events' = g_events
      BY <1>2 DEF event_handle_event_request
    <2>2. ~registry_facts.clash =>
            EventList(am_unregister_event(url, ID_HOST), module_data_list, registry_facts.starved)
      BY EventsLeave DEF RegistryInv
    <2> QED BY <2>1, <2>2 DEF RegistryInv
  <1> QED BY <1>1, <1>2

\* A request or an event posted to the modules.
LEMMA Posts ==
  ASSUME RegistryInv, NEW url, NEW event, wasm_post_request(url, event)
  PROVE  RegistryInv'
  <1> DEFINE r == IF event THEN am_publish_event(url) ELSE am_dispatch_request(url)
  <1>1. Route(r) /\ UNCHANGED <<module_data_list, serial, g_resources, g_events>>
    BY DEF wasm_post_request
  <1>2. ~registry_facts.clash => r.to = r.by
    BY Published, Dispatched DEF RegistryInv
  <1> HIDE DEF r
  <1> QED BY <1>1, <1>2, RoutesHome

\* Whatever an application calls.
LEMMA CallsApp ==
  ASSUME RegistryInv, NEW m \in ToSet(module_data_list), NEW memory \in {"all", "event", "none"},
         Call(m, memory)
  PROVE  RegistryInv'
  <1>0. Homed(m.id, m.serial, module_data_list)
    BY DEF ToSet, Homed
  <1>1. PICK url \in Paths : \/ wasm_register_resource(m, url)
                             \/ wasm_sub_event(m, url, memory)
                             \/ \E event \in BOOLEAN : wasm_post_request(url, event)
    BY DEF Call
  <1>2. CASE wasm_register_resource(m, url)
    <2>1. ~registry_facts.clash =>
            ResourceList(am_register_resource(url, m.id, m.serial), module_data_list)
      BY <1>0, RegistersResource DEF RegistryInv
    <2> QED BY <1>2, <2>1 DEF wasm_register_resource, RegistryInv
  <1>3. CASE wasm_sub_event(m, url, memory)
    BY <1>0, <1>3, Registers DEF wasm_sub_event
  <1>4. CASE \E event \in BOOLEAN : wasm_post_request(url, event)
    BY <1>4, Posts
  <1> QED BY <1>1, <1>2, <1>3, <1>4

\* The registry is empty at first.
LEMMA RegistryStart ==
  ASSUME RegistryInit
  PROVE  RegistryInv
  <1>1. List(module_data_list) /\ DOMAIN module_data_list = {}
    <2>1. <<>> = [i \in 1..0 |-> <<>>[i]] /\ DOMAIN <<>> = {}
      OBVIOUS
    <2> QED BY <2>1 DEF RegistryInit, List
  <1>2. List(g_events) /\ DOMAIN g_events = {}
    BY <1>1 DEF RegistryInit
  <1>3. List(g_resources) /\ \A i \in DOMAIN g_resources : g_resources[i].id = ID_APP_MGR
    <2>1. g_resources = [i \in 1..3 |-> g_resources[i]]
      BY DEF RegistryInit
    <2> QED BY <2>1 DEF RegistryInit, List
  <1>4. serial = 0 /\ registry_facts = [clash |-> FALSE, starved |-> FALSE, misrouted |-> FALSE]
    BY DEF RegistryInit
  <1> QED BY <1>1, <1>2, <1>3, <1>4 DEF RegistryInv, ModuleList, ResourceList, EventList

\* What a step of the device does to the registry is one of the operations above.
LEMMA RegistryKept ==
  ASSUME RegistryInv, [Next]_vars
  PROVE  RegistryInv'
  <1>0. ASSUME UNCHANGED registry PROVE RegistryInv'
    BY <1>0 DEF registry, RegistryInv
  <1>1. CASE UNCHANGED vars
    BY <1>0, <1>1 DEF vars
  <1>2. ASSUME NEW f, Send(f) PROVE RegistryInv'
    BY <1>0, <1>2 DEF Send
  <1>3. CASE Arrival
    <2>1. ASSUME Stays PROVE RegistryInv'
      BY <1>0, <2>1 DEF Stays
    <2>2. ASSUME Phase_Payload PROVE RegistryInv'
      <3>1. CASE UNCHANGED registry
        BY <1>0, <3>1
      <3>2. ASSUME NEW r, Routed(r) PROVE RegistryInv'
        <4> DEFINE url == Urls[r.url[1]]
        <4>1. CASE ForManager(url)
          BY <1>0, <3>2, <4>1 DEF Routed
        <4>2. CASE ~ForManager(url)
          <5>1. /\ Route(am_dispatch_request(url))
                /\ UNCHANGED <<module_data_list, serial, g_resources, g_events>>
            BY <3>2, <4>2 DEF Routed
          <5>2. ~registry_facts.clash => am_dispatch_request(url).to = am_dispatch_request(url).by
            BY Dispatched DEF RegistryInv
          <5> QED BY <5>1, <5>2, RoutesHome
        <4> QED BY <4>1, <4>2
      <3>3. (UNCHANGED registry) \/ \E r : Routed(r)
        BY <2>2 DEF Phase_Payload
      <3> QED BY <3>1, <3>2, <3>3
    <2>3. ASSUME NEW memory, Phase_Size(memory) \/ Phase_Install(memory) PROVE RegistryInv'
      BY <2>1, <2>3 DEF Phase_Size, Phase_Install
    <2> QED BY <1>3, <2>1, <2>2, <2>3 DEF Arrival, Phase_Non_Start, Phase_Leading, Phase_Type, Keeps
  <1>4. ASSUME NEW step \in Steps, NEW memory \in {"all", "event", "none"},
               app_manager_queue_callback(step, memory)
        PROVE  RegistryInv'
    <2>1. ASSUME NEW name, NEW file, wasm_app_module_install(name, file, step) PROVE RegistryInv'
      <3>1. \/ UNCHANGED registry
            \/ AddedInVain
            \/ module_data_list_add(name) /\ UNCHANGED <<g_resources, g_events>>
        BY <2>1 DEF wasm_app_module_install, Listed, Steps
      <3>2. ASSUME AddedInVain PROVE RegistryInv'
        BY <3>2 DEF AddedInVain, RegistryInv
      <3> QED BY <3>1, <3>2, <1>0, AddsModule
    <2>2. ASSUME NEW name, NEW left, wasm_app_module_uninstall(name, left) PROVE RegistryInv'
      <3> DEFINE m == module_data_list_lookup(name)
      <3>1. CASE m = <<>>
        BY <1>0, <2>2, <3>1 DEF wasm_app_module_uninstall
      <3>2. CASE m # <<>>
        <4>1. Cleanup(m[1])
          BY <2>2, <3>2 DEF wasm_app_module_uninstall
        <4>2. CASE registry_facts.clash
          BY <4>1, <4>2 DEF Cleanup, RegistryInv
        <4>3. CASE ~registry_facts.clash
          <5>1. PICK i \in DOMAIN module_data_list : m = <<module_data_list[i]>>
            BY <3>2, <4>3, LookupName DEF RegistryInv, ModuleList
          <5>2. m[1] \in ToSet(module_data_list)
            BY <5>1 DEF ToSet
          <5> HIDE DEF m
          <5> QED BY <4>1, <5>2, CleansUp
        <4> QED BY <4>2, <4>3
      <3> QED BY <3>1, <3>2
    <2>3. ASSUME NEW action, NEW url, event_handle_event_request(action, url, memory)
          PROVE  RegistryInv'
      BY <2>3, HandlesEvent
    <2>4. \/ \E name, file : wasm_app_module_install(name, file, step)
          \/ \E name, left : wasm_app_module_uninstall(name, left)
          \/ \E action, url : event_handle_event_request(action, url, memory)
          \/ UNCHANGED registry
      BY <1>4 DEF app_manager_queue_callback
    <2> QED BY <1>0, <2>1, <2>2, <2>3, <2>4
  <1>5. CASE Calls
    BY <1>5, CallsApp DEF Calls
  <1> QED BY <1>1, <1>2, <1>3, <1>4, <1>5 DEF Next

\* The registry's invariant holds throughout.
LEMMA RegistryAlways == Spec => []RegistryInv
  <1>1. Init => RegistryInv
    BY RegistryStart DEF Init
  <1>2. RegistryInv /\ [Next]_vars => RegistryInv'
    BY RegistryKept
  <1> QED BY <1>1, <1>2, PTL DEF Spec

\* Requests and events reach exactly the modules that asked for them, and no
\* registration outlives its module, unless an id is given out while it is in use
\* (am_dispatch_request, am_publish_event, cleanup_app_resource).
THEOREM RoutedHomeCorrect == Spec => []RoutedHome
  <1>1. RegistryInv => RoutedHome
    <2> SUFFICES ASSUME RegistryInv, ~registry_facts.clash PROVE RoutedHome
      BY DEF RoutedHome
    <2>1. /\ ModuleList(module_data_list, serial) /\ ResourceList(g_resources, module_data_list)
          /\ EventList(g_events, module_data_list, registry_facts.starved) /\ ~registry_facts.misrouted
      BY DEF RegistryInv
    <2>2. ASSUME NEW r \in ToSet(g_resources), r.id # ID_APP_MGR
          PROVE  Serials(module_data_list_lookup_id(r.id)) = {r.by}
      <3>1. Homed(r.id, r.by, module_data_list)
        BY <2>1, <2>2 DEF ResourceList, ToSet
      <3> QED BY <2>1, <3>1, HomedSerials
    <2>3. ASSUME NEW e \in ToSet(g_events)
          PROVE  /\ \A s \in ToSet(e.subs) :
                      s.id # ID_HOST => Serials(module_data_list_lookup_id(s.id)) = {s.by}
                 /\ \A i, j \in DOMAIN e.subs : e.subs[i].id = e.subs[j].id => i = j
                 /\ e.subs = <<>> => registry_facts.starved
      <3>1. EventOf(e, module_data_list, registry_facts.starved)
        BY <2>1 DEF EventList, ToSet
      <3>2. ASSUME NEW s \in ToSet(e.subs), s.id # ID_HOST
            PROVE  Serials(module_data_list_lookup_id(s.id)) = {s.by}
        <4>1. Homed(s.id, s.by, module_data_list)
          BY <3>1, <3>2 DEF EventOf, SubscriberList, ToSet
        <4> QED BY <2>1, <4>1, HomedSerials
      <3> QED BY <3>1, <3>2 DEF EventOf, SubscriberList
    <2> QED BY <2>1, <2>2, <2>3 DEF RoutedHome
  <1> QED BY <1>1, RegistryAlways, PTL

-----------------------------------------------------------------------------
(* The receiver of a package.                                              *)

Octet == 0..255

\* A byte is a number.
LEMMA OctetIsNat == \A x \in Octet : x \in Nat /\ x <= 255
  BY DEF Octet

\* The bytes of an integer come to a number.
Folds(bytes, f) ==
  [i \in 0..Len(bytes) |-> IF i = 0 THEN 0 ELSE f[i - 1] * 256 + bytes[i]]

\* The number that bytes spell.
LEMMA NumberIsNat ==
  ASSUME NEW bytes \in Seq(Octet)
  PROVE  Number(bytes) \in Nat
  <1> DEFINE n == Len(bytes)
             G == [x \in (1..n) \X Nat |-> x[2] * 256 + bytes[x[1]]]
  <1>1. n \in Nat
    OBVIOUS
  <1>2. ASSUME NEW i \in 1..n, NEW v \in Nat PROVE G[<<i, v>>] = v * 256 + bytes[i] /\ G[<<i, v>>] \in Nat
    <2>1. bytes[i] \in Octet
      OBVIOUS
    <2>2. bytes[i] \in Nat
      BY <2>1, OctetIsNat
    <2>3. G[<<i, v>>] = v * 256 + bytes[i]
      OBVIOUS
    <2>4. v * 256 + bytes[i] \in Nat
      BY <2>2
    <2> HIDE DEF G
    <2> QED BY <2>3, <2>4
  <1> HIDE DEF G
  <1>3. StaysIn(G, n, Nat)
    BY <1>2 DEF StaysIn
  <1>4. PICK f \in [0..n -> Nat] : Carries(f, 0, G, n)
    <2> DEFINE v0 == 0
    <2>1. v0 \in Nat
      OBVIOUS
    <2> HIDE DEF v0, n
    <2>2. \E f \in [0..n -> Nat] : Carries(f, v0, G, n)
      BY <1>1, <1>3, <2>1, PrimRec
    <2> QED BY <2>2 DEF v0
  <1>5. ASSUME NEW i \in 0..n PROVE f[i] = IF i = 0 THEN 0 ELSE f[i - 1] * 256 + bytes[i]
    <2>1. CASE i = 0
      BY <2>1, <1>4 DEF Carries
    <2>2. CASE i # 0
      <3>1. i \in 1..n /\ i - 1 \in 0..n
        BY <2>2, <1>1
      <3>2. f[i - 1] \in Nat
        BY <3>1
      <3>3. f[i] = G[<<i, f[i - 1]>>]
        BY <3>1, <1>4 DEF Carries
      <3> QED BY <2>2, <3>1, <3>2, <3>3, <1>2
    <2> QED BY <2>1, <2>2
  <1>6. f = Folds(bytes, f)
    BY <1>5 DEF Folds
  <1> DEFINE h == CHOOSE g : g = Folds(bytes, g)
  <1>7. Number(bytes) = h[n]
    BY DEF Number, Folds
  <1>8. h = Folds(bytes, h)
    BY <1>6
  <1> HIDE DEF h
  <1> DEFINE T == {i \in 0..n : h[i] \notin Nat}
  <1>9. ASSUME T # {} PROVE FALSE
    <2>1. T \in SUBSET Nat
      OBVIOUS
    <2>2. PICK i \in T : \A k \in T : i <= k
      BY <1>9, <2>1, Least
    <2>3. i \in 0..n /\ h[i] \notin Nat
      OBVIOUS
    <2>4. h[i] = IF i = 0 THEN 0 ELSE h[i - 1] * 256 + bytes[i]
      BY <2>3, <1>8 DEF Folds
    <2>5. i # 0
      BY <2>3, <2>4
    <2>6. i \in 1..n /\ i - 1 \in 0..n /\ i - 1 < i
      BY <2>3, <2>5, <1>1
    <2>7. i - 1 \notin T
      <3> HIDE DEF T
      <3> QED BY <2>2, <2>6
    <2>8. h[i - 1] \in Nat
      BY <2>6, <2>7
    <2>9. bytes[i] \in Octet
      BY <2>6
    <2>10. h[i - 1] * 256 + bytes[i] \in Nat
      BY <2>8, <2>9, OctetIsNat, SMTT(30), ZenonT(30)
    <2> QED BY <2>3, <2>4, <2>5, <2>10
  <1>10. n \in 0..n
    BY <1>1
  <1>11. n \notin T
    <2> HIDE DEF T
    <2> QED BY <1>9
  <1> QED BY <1>7, <1>10, <1>11

\* Bytes in the other order are bytes.
LEMMA ReverseBytes ==
  ASSUME NEW bytes \in Seq(Octet)
  PROVE  Reverse(bytes) \in Seq(Octet)
  <1>1. Len(bytes) \in Nat
    OBVIOUS
  <1>2. ASSUME NEW i \in 1..Len(bytes) PROVE bytes[(Len(bytes) - i) + 1] \in Octet
    <2>1. (Len(bytes) - i) + 1 \in 1..Len(bytes)
      BY <1>1
    <2> QED BY <2>1
  <1>3. [i \in 1..Len(bytes) |-> bytes[(Len(bytes) - i) + 1]] \in [1..Len(bytes) -> Octet]
    BY <1>2
  <1> QED BY <1>1, <1>3 DEF Reverse

Phases ==
  {"Req_Ver", "Req_Action", "Req_Fmt", "Req_Mid", "Req_Sender", "Req_Url_Len", "Req_Payload_Len",
   "Req_Url", "App_Magic", "Wasm_Version", "Wasm_Section_Type", "Wasm_Section_Size",
   "Wasm_Section_Content", "AOT_Version", "AOT_Section_ID", "AOT_Section_Size",
   "AOT_Section_Content"}

Kinds == {"none", "wasm", "aot"}

Words == Seq(Octet)

Spots == Nat \X Nat

Section == [type : Nat, size : Nat, room : Int, at : Spots]

Receiver ==
  [phase : Phases, n : Nat, total : Nat, word : Words, action : Octet, len : Nat, url : Words,
   kind : Kinds, sections : Seq(Section), over : BOOLEAN, zero : BOOLEAN]

\* The phases that store a byte have room for it, unless a length of 0 was accepted
\* before, and those that complete a section have one.
Careful(c) ==
  /\ c.over => c.zero
  /\ c.phase = "Req_Payload_Len" => c.zero \/ c.len > 0
  /\ c.phase = "Req_Url" => c.zero \/ c.n < c.len
  /\ c.phase \in {"Wasm_Section_Size", "Wasm_Section_Content", "AOT_Section_Size", "AOT_Section_Content"}
       => c.sections # <<>>
  /\ c.phase = "AOT_Section_ID" /\ c.n # 0 => c.sections # <<>>
  /\ c.phase \in {"Wasm_Section_Content", "AOT_Section_Content"} =>
       c.zero \/ (c.sections[Last1(c)].room = c.sections[Last1(c)].size
                    /\ c.n < c.sections[Last1(c)].size)

\* The phases that neither store a byte nor go on with a section.
Plain == {"Req_Ver", "Req_Action", "Req_Fmt", "Req_Mid", "Req_Sender", "Req_Url_Len", "App_Magic",
          "Wasm_Version", "Wasm_Section_Type", "AOT_Version"}

\* A phase that stores nothing writes nothing outside.
LEMMA PlainCareful ==
  ASSUME NEW c, c.phase \in Plain \/ (c.phase = "AOT_Section_ID" /\ c.n = 0), c.over => c.zero
  PROVE  Careful(c)
  <1>1. CASE c.phase \in Plain
    BY <1>1 DEF Plain, Careful
  <1>2. CASE c.phase = "AOT_Section_ID" /\ c.n = 0
    BY <1>2 DEF Careful
  <1> QED BY <1>1, <1>2

\* What the helpers of the receiver leave alone.
Alike(c, d) ==
  /\ d.over = c.over /\ d.zero = c.zero /\ d.sections = c.sections /\ d.len = c.len
  /\ d.kind = c.kind

\* A receiver enters a phase with nothing read in it.
LEMMA Enters ==
  ASSUME NEW c \in Receiver, NEW p \in Phases
  PROVE  Enter(c, p) \in Receiver /\ Enter(c, p).phase = p /\ Enter(c, p).n = 0 /\ Alike(c, Enter(c, p))
  BY DEF Enter, Receiver, Alike

\* A byte of a number is collected.
LEMMA Collects ==
  ASSUME NEW c \in Receiver, NEW ch \in Octet
  PROVE  /\ Collect(c, ch) \in Receiver /\ Collect(c, ch).phase = c.phase
         /\ Collect(c, ch).n = c.n + 1 /\ Alike(c, Collect(c, ch))
         /\ Number(Collect(c, ch).word) \in Nat /\ Number(Reverse(Collect(c, ch).word)) \in Nat
  <1> DEFINE w == IF c.n = 0 THEN <<ch>> ELSE Append(c.word, ch)
  <1>1. c.word \in Seq(Octet)
    BY DEF Receiver, Words
  <1>2. w \in Seq(Octet)
    BY <1>1
  <1>3. Number(w) \in Nat /\ Number(Reverse(w)) \in Nat
    BY <1>2, NumberIsNat, ReverseBytes
  <1>4. Collect(c, ch) = [c EXCEPT !.n = @ + 1, !.word = w]
    BY DEF Collect
  <1>5. w \in Words
    BY <1>2 DEF Words
  <1> HIDE DEF w
  <1>6. Collect(c, ch).word = w
    BY <1>4 DEF Receiver
  <1> DEFINE k == c.n + 1
             d == [c EXCEPT !.n = k, !.word = w]
  <1>0. k \in Nat
    BY DEF Receiver
  <1> HIDE DEF k
  <1>7. d \in Receiver /\ d.phase = c.phase /\ d.n = k /\ Alike(c, d)
    BY <1>0, <1>5 DEF Receiver, Alike
  <1> HIDE DEF d
  <1>8. Collect(c, ch) = d
    BY <1>4 DEF d, k
  <1> QED BY <1>3, <1>6, <1>7, <1>8 DEF k

\* A receiver that gives up starts over.
LEMMA Fails ==
  ASSUME NEW c \in Receiver, c.over => c.zero
  PROVE  /\ Fail(c).ctx \in Receiver /\ Careful(Fail(c).ctx) /\ Fail(c).post = <<>>
         /\ Alike(c, Fail(c).ctx)
  <1> DEFINE d == [c EXCEPT !.phase = "Req_Ver", !.n = 0, !.total = 0, !.url = <<>>]
  <1>1. Fail(c).ctx = d /\ Fail(c).post = <<>>
    BY DEF Fail
  <1>2. <<>> \in Words
    BY DEF Words
  <1>3. d \in Receiver /\ d.phase = "Req_Ver" /\ Alike(c, d)
    BY <1>2 DEF Receiver, Alike, Phases
  <1> HIDE DEF d
  <1>4. d.phase \in Plain /\ (d.over => d.zero)
    BY <1>3 DEF Plain, Alike
  <1> QED BY <1>1, <1>3, <1>4, PlainCareful

\* A byte accepted without more.
LEMMA TrueIs ==
  ASSUME NEW c
  PROVE  True(c).ctx = c /\ True(c).post = <<>>
  BY DEF True

\* Integers that are only skipped.
LEMMA ReceivesInteger ==
  ASSUME NEW c \in Receiver, Careful(c), c.phase \in Plain, NEW ch \in Octet, NEW width,
         NEW next \in Plain \cup {"AOT_Section_ID"}
  PROVE  /\ RECV_INTEGER(c, ch, width, next).ctx \in Receiver
         /\ Careful(RECV_INTEGER(c, ch, width, next).ctx)
         /\ RECV_INTEGER(c, ch, width, next).post = <<>>
         /\ Alike(c, RECV_INTEGER(c, ch, width, next).ctx)
  <1> DEFINE d == Collect(c, ch)
             r == RECV_INTEGER(c, ch, width, next)
             e == Enter(d, next)
  <1>1. d \in Receiver /\ d.phase = c.phase /\ Alike(c, d)
    BY Collects
  <1>2. next \in Phases
    BY DEF Plain, Phases
  <1>3. e \in Receiver /\ e.phase = next /\ e.n = 0 /\ Alike(d, e)
    BY <1>1, <1>2, Enters
  <1>4. r.ctx \in {d, e} /\ r.post = <<>>
    BY TrueIs DEF RECV_INTEGER
  <1>5. c.over => c.zero
    BY DEF Careful
  <1> HIDE DEF d, e, r
  <1>6. Careful(d)
    BY <1>1, <1>5, PlainCareful DEF Alike
  <1>7. Careful(e)
    BY <1>1, <1>3, <1>5, PlainCareful DEF Alike
  <1>8. Alike(c, e)
    BY <1>1, <1>3 DEF Alike
  <1> QED BY <1>1, <1>3, <1>4, <1>6, <1>7, <1>8 DEF r

\* The sections, by where their headers began, are those of before, and one more.
SameSpots(t, s) == Len(t) = Len(s) /\ \A i \in 1..Len(s) : t[i].at = s[i].at

OneMore(t, s, place) ==
  /\ Len(t) = Len(s) + 1 /\ t[Len(s) + 1].at = place
  /\ \A i \in 1..Len(s) : t[i].at = s[i].at

\* What becomes of a receiver c by a byte: it stays careful, and the sections stay
\* with it, with one more or not, or leave with the package.
Yields(r, c, place) ==
  /\ r.ctx \in Receiver /\ Careful(r.ctx)
  /\ \/ r.post = <<>> /\ SameSpots(r.ctx.sections, c.sections)
     \/ r.post = <<>> /\ OneMore(r.ctx.sections, c.sections, place)
     \/ r.ctx.sections = <<>> /\ \E p : r.post = <<p>> /\ p.sections = c.sections

\* A result with the sections as they were.
LEMMA YieldsAlike ==
  ASSUME NEW r, NEW c, NEW place, r.ctx \in Receiver, Careful(r.ctx), r.post = <<>>, Alike(c, r.ctx)
  PROVE  Yields(r, c, place)
  BY DEF Yields, SameSpots, Alike

\* A byte accepted, with the same sections or one more.
LEMMA YieldsTrue ==
  ASSUME NEW c, NEW d \in Receiver, NEW place, Careful(d),
         SameSpots(d.sections, c.sections) \/ OneMore(d.sections, c.sections, place)
  PROVE  Yields(True(d), c, place)
  BY TrueIs DEF Yields

\* A byte refused, with the same sections or one more.
LEMMA YieldsFail ==
  ASSUME NEW c, NEW d \in Receiver, NEW place, d.over => d.zero,
         SameSpots(d.sections, c.sections) \/ OneMore(d.sections, c.sections, place)
  PROVE  Yields(Fail(d), c, place)
  <1>1. /\ Fail(d).ctx \in Receiver /\ Careful(Fail(d).ctx) /\ Fail(d).post = <<>>
        /\ Fail(d).ctx.sections = d.sections
    BY Fails DEF Alike
  <1> DEFINE r == Fail(d)
  <1> HIDE DEF r
  <1>2. r.ctx \in Receiver /\ Careful(r.ctx) /\ r.post = <<>> /\ r.ctx.sections = d.sections
    BY <1>1 DEF r
  <1>3. Yields(r, c, place)
    BY <1>2 DEF Yields
  <1> QED BY <1>3 DEF r

\* Phase Req_Ver.
LEMMA GetsVersion ==
  ASSUME NEW c \in Receiver, Careful(c), c.phase = "Req_Ver", NEW ch \in Octet, NEW place
  PROVE  Yields(Req_Ver(c, ch), c, place)
  <1> DEFINE e == Enter(c, "Req_Action")
  <1>1. e \in Receiver /\ e.phase = "Req_Action" /\ Alike(c, e)
    BY Enters DEF Phases
  <1> HIDE DEF e
  <1>2. Careful(e)
    BY <1>1, PlainCareful DEF Alike, Careful, Plain
  <1>3. CASE ch = Version
    <2>1. Req_Ver(c, ch) = True(e)
      BY <1>3 DEF Req_Ver, e
    <2> QED BY <1>1, <1>2, <2>1, YieldsTrue DEF Alike, SameSpots
  <1>4. CASE ch # Version
    <2> DEFINE r == [ctx |-> c, ret |-> FALSE, post |-> <<>>]
    <2>1. Req_Ver(c, ch) = r /\ r.ctx = c /\ r.post = <<>>
      BY <1>4 DEF Req_Ver
    <2> HIDE DEF r
    <2> QED BY <2>1, YieldsAlike DEF Alike
  <1> QED BY <1>3, <1>4

\* Phase Req_Action.
LEMMA GetsAction ==
  ASSUME NEW c \in Receiver, Careful(c), NEW ch \in Octet, NEW place
  PROVE  Yields(Req_Action(c, ch), c, place)
  <1> DEFINE a == Enter(c, "Req_Fmt")
             e == [a EXCEPT !.action = ch]
  <1>0. a \in Receiver /\ a.phase = "Req_Fmt" /\ Alike(c, a)
    BY Enters DEF Phases
  <1> HIDE DEF a
  <1>1. e \in Receiver /\ e.phase = "Req_Fmt" /\ Alike(c, e)
    BY <1>0 DEF Receiver, Alike
  <1>4. Req_Action(c, ch) = True(e)
    BY DEF Req_Action, a
  <1> HIDE DEF e
  <1>2. Careful(e)
    BY <1>1, PlainCareful DEF Alike, Careful, Plain
  <1>3. Yields(True(e), c, place)
    BY <1>1, <1>2, YieldsTrue DEF Alike, SameSpots
  <1> QED BY <1>3, <1>4

\* A phase that reads a number and goes on.
LEMMA GetsInteger ==
  ASSUME NEW c \in Receiver, Careful(c), c.phase \in Plain, NEW ch \in Octet, NEW width,
         NEW next \in Plain \cup {"AOT_Section_ID"}, NEW place
  PROVE  Yields(RECV_INTEGER(c, ch, width, next), c, place)
  BY ReceivesInteger, YieldsAlike

\* A phase that reads the version of the file.
LEMMA GetsFileVersion ==
  ASSUME NEW c \in Receiver, Careful(c), c.phase \in Plain, NEW ch \in Octet,
         NEW next \in Plain \cup {"AOT_Section_ID"}, NEW place
  PROVE  Yields(FileVersionByte(c, ch, next), c, place)
  <1>1. Yields(Fail(c), c, place)
    BY YieldsFail DEF Careful, SameSpots
  <1>2. Yields(RECV_INTEGER(c, ch, 4, next), c, place)
    BY GetsInteger
  <1> QED BY <1>1, <1>2 DEF FileVersionByte

\* Phase Req_Url_Len: a buffer for the URL.
LEMMA GetsUrlLen ==
  ASSUME NEW c \in Receiver, Careful(c), c.phase = "Req_Url_Len", NEW ch \in Octet, NEW memory, NEW place
  PROVE  Yields(Req_Url_Len(c, ch, memory), c, place)
  <1> DEFINE d == Collect(c, ch)
             len == Number(d.word)
             f == Enter(d, "Req_Payload_Len")
             e == [f EXCEPT !.len = len, !.zero = @ \/ len = 0]
  <1>1. /\ d \in Receiver /\ d.phase = c.phase /\ d.n = c.n + 1 /\ Alike(c, d) /\ len \in Nat
    BY Collects
  <1>2. c.over => c.zero
    BY DEF Careful
  <1>3. Req_Url_Len(c, ch, memory) = IF d.n < 2 THEN True(d)
                                     ELSE IF d.n = 2 /\ memory THEN True(e) ELSE Fail(d)
    <2>1. d.n \in Nat
      BY <1>1 DEF Receiver
    <2> QED BY <2>1 DEF Req_Url_Len
  <1> HIDE DEF d, len
  <1>4. f \in Receiver /\ f.phase = "Req_Payload_Len" /\ Alike(d, f)
    BY <1>1, Enters DEF Phases
  <1> HIDE DEF f
  <1>5. /\ e \in Receiver /\ e.phase = "Req_Payload_Len" /\ e.len = len
        /\ (f.zero => e.zero) /\ (len = 0 => e.zero)
        /\ e.sections = f.sections /\ e.over = f.over
    BY <1>1, <1>4 DEF Receiver
  <1> HIDE DEF e
  <1>6. Yields(True(d), c, place)
    <2>1. Careful(d)
      BY <1>1, <1>2, PlainCareful DEF Alike, Plain
    <2> QED BY <1>1, <2>1, YieldsTrue DEF Alike, SameSpots
  <1>7. Yields(True(e), c, place)
    <2>1. (e.over => e.zero) /\ (e.zero \/ e.len > 0) /\ e.sections = c.sections
      BY <1>1, <1>2, <1>4, <1>5 DEF Alike
    <2>2. Careful(e)
      BY <1>5, <2>1 DEF Careful
    <2> QED BY <1>5, <2>1, <2>2, YieldsTrue DEF SameSpots
  <1>8. Yields(Fail(d), c, place)
    BY <1>1, <1>2, YieldsFail DEF Alike, SameSpots
  <1> QED BY <1>3, <1>6, <1>7, <1>8

\* Phase Req_Payload_Len.
LEMMA GetsPayloadLen ==
  ASSUME NEW c \in Receiver, Careful(c), c.phase = "Req_Payload_Len", NEW ch \in Octet, NEW place
  PROVE  Yields(RECV_INTEGER(c, ch, 4, "Req_Url"), c, place)
  <1> DEFINE d == Collect(c, ch)
             e == Enter(d, "Req_Url")
  <1>1. d \in Receiver /\ d.phase = c.phase /\ Alike(c, d)
    BY Collects
  <1>2. e \in Receiver /\ e.phase = "Req_Url" /\ e.n = 0 /\ Alike(d, e)
    BY <1>1, Enters DEF Phases
  <1>3. RECV_INTEGER(c, ch, 4, "Req_Url") = IF d.n = 4 THEN True(e) ELSE True(d)
    BY DEF RECV_INTEGER
  <1> HIDE DEF d, e
  <1>4. Careful(d) /\ Careful(e)
    BY <1>1, <1>2 DEF Careful, Alike
  <1>5. Yields(True(d), c, place) /\ Yields(True(e), c, place)
    BY <1>1, <1>2, <1>4, YieldsTrue DEF Alike, SameSpots
  <1> QED BY <1>3, <1>5

\* Phase Req_Url: a byte stored in the buffer.
LEMMA GetsUrl ==
  ASSUME NEW c \in Receiver, Careful(c), c.phase = "Req_Url", NEW ch \in Octet, NEW place
  PROVE  Yields(Req_Url(c, ch), c, place)
  <1> DEFINE k == c.n + 1
             u == Append(c.url, ch)
             o == c.over \/ c.n > c.len
             d == [c EXCEPT !.n = k, !.url = u, !.over = o]
             e == Enter(d, "App_Magic")
  <1>1. k \in Nat /\ u \in Words /\ c.n \in Nat /\ c.len \in Nat /\ o \in BOOLEAN
    BY DEF Receiver, Words
  <1>2. Req_Url(c, ch) = IF d.n = d.len THEN True(e) ELSE True(d)
    BY DEF Req_Url
  <1>3. (o => c.zero) /\ (c.zero \/ c.n < c.len)
    BY <1>1 DEF Careful
  <1>4. (c.n < c.len /\ k # c.len) => k < c.len
    BY <1>1
  <1> HIDE DEF k, u, o
  <1>5. /\ d \in Receiver /\ d.n = k /\ d.phase = "Req_Url" /\ d.len = c.len /\ d.over = o
        /\ d.zero = c.zero /\ d.sections = c.sections
    BY <1>1 DEF Receiver
  <1> HIDE DEF d
  <1>6. e \in Receiver /\ e.phase = "App_Magic" /\ Alike(d, e)
    BY <1>5, Enters DEF Phases
  <1> HIDE DEF e
  <1>7. Yields(True(e), c, place)
    <2>1. Careful(e)
      BY <1>3, <1>5, <1>6, PlainCareful DEF Alike, Plain
    <2> QED BY <1>5, <1>6, <2>1, YieldsTrue DEF Alike, SameSpots
  <1>8. ASSUME d.n # d.len PROVE Yields(True(d), c, place)
    <2>1. Careful(d)
      BY <1>3, <1>4, <1>5, <1>8 DEF Careful
    <2> QED BY <1>5, <2>1, YieldsTrue DEF SameSpots
  <1> QED BY <1>2, <1>7, <1>8

\* Phase App_Magic.
LEMMA GetsMagic ==
  ASSUME NEW c \in Receiver, Careful(c), c.phase = "App_Magic", NEW ch \in Octet, NEW place
  PROVE  Yields(App_Magic(c, ch), c, place)
  <1> DEFINE d == Collect(c, ch)
             a == Enter(d, "Wasm_Version")
             b == Enter(d, "AOT_Version")
             e == [a EXCEPT !.kind = "wasm"]
             f == [b EXCEPT !.kind = "aot"]
  <1>1. d \in Receiver /\ d.phase = c.phase /\ Alike(c, d) /\ (c.over => c.zero)
    BY Collects DEF Careful
  <1>2. /\ a \in Receiver /\ a.phase = "Wasm_Version" /\ Alike(d, a)
        /\ b \in Receiver /\ b.phase = "AOT_Version" /\ Alike(d, b)
    BY <1>1, Enters DEF Phases
  <1>3. \/ App_Magic(c, ch) = True(d) \/ App_Magic(c, ch) = True(e)
        \/ App_Magic(c, ch) = True(f) \/ App_Magic(c, ch) = Fail(d)
    BY DEF App_Magic
  <1> HIDE DEF d, a, b
  <1>4. /\ e \in Receiver /\ e.phase = "Wasm_Version" /\ e.over = a.over /\ e.zero = a.zero
        /\ e.sections = a.sections
    BY <1>2 DEF Receiver, Kinds
  <1>5. /\ f \in Receiver /\ f.phase = "AOT_Version" /\ f.over = b.over /\ f.zero = b.zero
        /\ f.sections = b.sections
    BY <1>2 DEF Receiver, Kinds
  <1> HIDE DEF e, f
  <1>6. Careful(d) /\ Careful(e) /\ Careful(f)
    BY <1>1, <1>2, <1>4, <1>5, PlainCareful DEF Alike, Plain
  <1>7. d.sections = c.sections /\ e.sections = c.sections /\ f.sections = c.sections
    BY <1>1, <1>2, <1>4, <1>5 DEF Alike
  <1>8. Yields(True(d), c, place) /\ Yields(True(e), c, place) /\ Yields(True(f), c, place)
    BY <1>1, <1>4, <1>5, <1>6, <1>7, YieldsTrue DEF SameSpots
  <1>9. Yields(Fail(d), c, place)
    BY <1>1, <1>7, YieldsFail DEF SameSpots, Alike
  <1> QED BY <1>3, <1>8, <1>9

\* A change of the section that is being received, and a new one.
LEMMA EditsAt ==
  ASSUME NEW s \in Seq(Section), NEW k \in 1..Len(s), NEW x \in Section
  PROVE  \E t \in [1..Len(s) -> Section] :
           /\ t = [s EXCEPT ![k] = x] /\ t[k] = x
           /\ \A i \in 1..Len(s) : i # k => t[i] = s[i]
  <1>1. s \in [1..Len(s) -> Section]
    OBVIOUS
  <1> DEFINE n == Len(s)
             t == [s EXCEPT ![k] = x]
  <1> HIDE DEF n
  <1>2. t \in [1..n -> Section] /\ t[k] = x /\ \A i \in 1..n : i # k => t[i] = s[i]
    BY <1>1 DEF n
  <1> HIDE DEF t
  <1>3. t = [s EXCEPT ![k] = x]
    BY DEF t
  <1> QED BY <1>2, <1>3 DEF n

\* x in the place of the last section, and what that leaves of the list.
Relast(s, x) == [s EXCEPT ![Len(s)] = x]

Edited(t, s, x) ==
  t \in Seq(Section) /\ Len(t) = Len(s) /\ t[Len(s)] = x /\ t # <<>> /\ SameSpots(t, s)

\* The last section changed in place.
LEMMA EditsLast ==
  ASSUME NEW s \in Seq(Section), s # <<>>, NEW x \in Section, x.at = s[Len(s)].at
  PROVE  Edited(Relast(s, x), s, x)
  <1>1. Len(s) \in Nat /\ Len(s) \in 1..Len(s)
    OBVIOUS
  <1>2. PICK t \in [1..Len(s) -> Section] :
          /\ t = [s EXCEPT ![Len(s)] = x] /\ t[Len(s)] = x
          /\ \A i \in 1..Len(s) : i # Len(s) => t[i] = s[i]
    BY <1>1, EditsAt
  <1>3. ASSUME NEW n \in Nat, NEW u \in [1..n -> Section] PROVE u \in Seq(Section) /\ Len(u) = n
    OBVIOUS
  <1>4. t \in Seq(Section) /\ Len(t) = Len(s)
    BY <1>1, <1>3
  <1>5. t # <<>>
    BY <1>1, <1>4, SMTT(30), ZenonT(30)
  <1>6. SameSpots(t, s)
    BY <1>2, <1>4 DEF SameSpots
  <1>7. Edited(t, s, x)
    BY <1>2, <1>4, <1>5, <1>6, ZenonT(60) DEF Edited
  <1>8. Relast(s, x) = t
    BY <1>2 DEF Relast
  <1> QED BY <1>7, <1>8, Zenon

\* A section that is given its type, its size or its room stays where it is.
SameSection(c, d, x) ==
  /\ d \in Receiver /\ x \in Section /\ d.sections # <<>>
  /\ d.phase = c.phase /\ d.over = c.over /\ d.kind = c.kind
  /\ SameSpots(d.sections, c.sections) /\ Last1(d) = Last1(c) /\ d.sections[Last1(d)] = x

\* The size of the last section is set.
LEMMA SetsSize ==
  ASSUME NEW c \in Receiver, c.sections # <<>>, NEW size \in Nat
  PROVE  \E x : /\ SameSection(c, SetSize(c, size), x) /\ x.size = size /\ SetSize(c, size).zero = c.zero
                /\ SetSize(c, size).n = c.n
  <1> DEFINE s == c.sections
             k == Len(s)
             x == [s[k] EXCEPT !.size = size]
             t == [s EXCEPT ![k] = x]
             d == [c EXCEPT !.sections = t]
  <1>1. s \in Seq(Section) /\ s # <<>>
    BY DEF Receiver
  <1>2. s[k] \in Section
    BY <1>1
  <1>3. x \in Section /\ x.at = s[k].at /\ x.size = size
    BY <1>2 DEF Section
  <1> HIDE DEF x
  <1>4. t \in Seq(Section) /\ Len(t) = k /\ t[k] = x /\ t # <<>> /\ SameSpots(t, s)
    <2>1. Edited(Relast(s, x), s, x)
      BY <1>1, <1>3, EditsLast, Zenon
    <2>2. t = Relast(s, x)
      BY DEF Relast
    <2> QED BY <2>1, <2>2, Zenon DEF Edited
  <1>5. SetSize(c, size) = d
    BY DEF SetSize, Last1, x
  <1> HIDE DEF t
  <1>6. /\ d \in Receiver /\ d.sections = t /\ d.phase = c.phase /\ d.over = c.over /\ d.kind = c.kind
        /\ d.zero = c.zero /\ d.n = c.n
    BY <1>4 DEF Receiver
  <1> HIDE DEF d
  <1>7. SameSection(c, d, x)
    BY <1>3, <1>4, <1>6 DEF SameSection, Last1
  <1> QED BY <1>3, <1>5, <1>6, <1>7

\* The type of the last section is set.
LEMMA SetsType ==
  ASSUME NEW c \in Receiver, c.sections # <<>>, NEW type \in Nat, NEW d,
         d = [c EXCEPT !.sections[Last1(c)].type = type]
  PROVE  \E x : SameSection(c, d, x) /\ d.zero = c.zero /\ d.n = c.n
  <1> DEFINE s == c.sections
             k == Len(s)
             x == [s[k] EXCEPT !.type = type]
             t == [s EXCEPT ![k] = x]
  <1>1. s \in Seq(Section) /\ s # <<>>
    BY DEF Receiver
  <1>2. s[k] \in Section
    BY <1>1
  <1>3. x \in Section /\ x.at = s[k].at
    BY <1>2 DEF Section
  <1> HIDE DEF x
  <1>4. t \in Seq(Section) /\ Len(t) = k /\ t[k] = x /\ t # <<>> /\ SameSpots(t, s)
    <2>1. Edited(Relast(s, x), s, x)
      BY <1>1, <1>3, EditsLast, Zenon
    <2>2. t = Relast(s, x)
      BY DEF Relast
    <2> QED BY <2>1, <2>2, Zenon DEF Edited
  <1>5. d = [c EXCEPT !.sections = t]
    BY DEF Last1, x
  <1> HIDE DEF t
  <1>6. /\ d \in Receiver /\ d.sections = t /\ d.phase = c.phase /\ d.over = c.over /\ d.kind = c.kind
        /\ d.zero = c.zero /\ d.n = c.n
    BY <1>4, <1>5 DEF Receiver
  <1>7. SameSection(c, d, x)
    BY <1>3, <1>4, <1>6 DEF SameSection, Last1
  <1> QED BY <1>6, <1>7

\* Room is allocated for what the section says its size is.
LEMMA GetsBody ==
  ASSUME NEW c \in Receiver, c.sections # <<>>
  PROVE  \E x : /\ SameSection(c, WithBody(c), x) /\ (c.zero => WithBody(c).zero)
                /\ WithBody(c).zero \/ (x.size > 0 /\ x.room = x.size)
  <1> DEFINE s == c.sections
             k == Len(s)
             size == s[k].size
             room == IF size = 0 /\ c.kind = "aot" THEN None ELSE size
             x == [s[k] EXCEPT !.room = room]
             t == [s EXCEPT ![k] = x]
             z == c.zero \/ size = 0
             d == [c EXCEPT !.sections = t, !.zero = z]
  <1>1. s \in Seq(Section) /\ s # <<>>
    BY DEF Receiver
  <1>2. s[k] \in Section
    BY <1>1
  <1>3. size \in Nat /\ room \in Int /\ z \in BOOLEAN
    BY <1>2 DEF Section, None, Receiver
  <1>4. (z \/ (size > 0 /\ room = size)) /\ (c.zero => z)
    BY <1>3
  <1> HIDE DEF room, z
  <1>5. x \in Section /\ x.at = s[k].at /\ x.size = size /\ x.room = room
    BY <1>2, <1>3 DEF Section
  <1> HIDE DEF x
  <1>6. t \in Seq(Section) /\ Len(t) = k /\ t[k] = x /\ t # <<>> /\ SameSpots(t, s)
    <2>1. Edited(Relast(s, x), s, x)
      BY <1>1, <1>5, EditsLast, Zenon
    <2>2. t = Relast(s, x)
      BY DEF Relast
    <2> QED BY <2>1, <2>2, Zenon DEF Edited
  <1>7. WithBody(c) = d
    BY DEF WithBody, Last1, x, room, z
  <1> HIDE DEF t
  <1>8. /\ d \in Receiver /\ d.sections = t /\ d.phase = c.phase /\ d.over = c.over /\ d.kind = c.kind
        /\ d.zero = z
    BY <1>3, <1>6 DEF Receiver
  <1> HIDE DEF d
  <1>9. SameSection(c, d, x)
    BY <1>5, <1>6, <1>8 DEF SameSection, Last1
  <1> QED BY <1>4, <1>5, <1>7, <1>8, <1>9

\* A section more, known by the place of its header.
LEMMA AddsSection ==
  ASSUME NEW c \in Receiver, NEW type \in Nat, NEW place \in Spots
  PROVE  /\ NewSection(c, type, place) \in Receiver
         /\ OneMore(NewSection(c, type, place).sections, c.sections, place)
         /\ NewSection(c, type, place).sections # <<>>
         /\ NewSection(c, type, place).over = c.over /\ NewSection(c, type, place).zero = c.zero
         /\ NewSection(c, type, place).n = c.n /\ NewSection(c, type, place).phase = c.phase
  <1> DEFINE s == c.sections
             x == [type |-> type, size |-> 0, room |-> None, at |-> place]
             t == Append(s, x)
             d == [c EXCEPT !.sections = t]
  <1>1. s \in Seq(Section)
    BY DEF Receiver
  <1>2. x \in Section /\ x.at = place
    BY DEF Section, None
  <1>3. NewSection(c, type, place) = d
    BY DEF NewSection
  <1> HIDE DEF x
  <1>4. /\ t \in Seq(Section) /\ Len(t) = Len(s) + 1 /\ t[Len(s) + 1] = x /\ t # <<>> /\ Len(s) \in Nat
        /\ \A i \in 1..Len(s) : t[i] = s[i]
    BY <1>1, <1>2
  <1> HIDE DEF t
  <1>5. OneMore(t, s, place)
    BY <1>2, <1>4 DEF OneMore
  <1>6. /\ d \in Receiver /\ d.sections = t /\ d.phase = c.phase /\ d.over = c.over /\ d.zero = c.zero
        /\ d.n = c.n
    BY <1>4 DEF Receiver
  <1> HIDE DEF d
  <1> QED BY <1>3, <1>4, <1>5, <1>6

\* Phase Wasm_Section_Type.
LEMMA GetsSectionType ==
  ASSUME NEW c \in Receiver, Careful(c), NEW ch \in Octet, NEW memory, NEW place \in Spots
  PROVE  Yields(Wasm_Section_Type(c, ch, memory, place), c, place)
  <1> DEFINE d == NewSection(c, ch, place)
             e == Enter(d, "Wasm_Section_Size")
  <1>1. Wasm_Section_Type(c, ch, memory, place) = True(e) \/ Wasm_Section_Type(c, ch, memory, place) = Fail(c)
    BY DEF Wasm_Section_Type
  <1>2. c.over => c.zero
    BY DEF Careful
  <1>3. Yields(Fail(c), c, place)
    BY <1>2, YieldsFail DEF SameSpots
  <1>4. ch \in Nat
    BY OctetIsNat
  <1>5. /\ d \in Receiver /\ OneMore(d.sections, c.sections, place) /\ d.sections # <<>>
        /\ d.over = c.over /\ d.zero = c.zero
    BY <1>4, AddsSection
  <1> HIDE DEF d
  <1>6. e \in Receiver /\ e.phase = "Wasm_Section_Size" /\ e.n = 0 /\ Alike(d, e)
    BY <1>5, Enters DEF Phases
  <1> HIDE DEF e
  <1>7. Careful(e)
    BY <1>2, <1>5, <1>6 DEF Careful, Alike
  <1>8. OneMore(e.sections, c.sections, place)
    BY <1>5, <1>6 DEF Alike
  <1>9. Yields(True(e), c, place)
    BY <1>6, <1>7, <1>8, YieldsTrue
  <1> QED BY <1>1, <1>3, <1>9

\* From the size of a section to its body, which gets room for as much.
LEMMA StartsBody ==
  ASSUME NEW c \in Receiver, c.sections # <<>>, c.over => c.zero,
         NEW p \in {"Wasm_Section_Content", "AOT_Section_Content"}
  PROVE  /\ Enter(WithBody(c), p) \in Receiver /\ Careful(Enter(WithBody(c), p))
         /\ SameSpots(Enter(WithBody(c), p).sections, c.sections)
  <1> DEFINE d == WithBody(c)
             e == Enter(d, p)
  <1>1. PICK x : /\ SameSection(c, d, x) /\ (c.zero => d.zero)
                 /\ d.zero \/ (x.size > 0 /\ x.room = x.size)
    BY GetsBody
  <1>2. d \in Receiver /\ d.sections # <<>> /\ d.over = c.over /\ d.sections[Last1(d)] = x
    BY <1>1 DEF SameSection
  <1>3. p \in Phases
    BY DEF Phases
  <1> HIDE DEF d
  <1>4. e \in Receiver /\ e.phase = p /\ e.n = 0 /\ Alike(d, e)
    BY <1>2, <1>3, Enters
  <1> HIDE DEF e
  <1>5. e.sections # <<>> /\ e.sections[Last1(e)] = x /\ e.zero = d.zero /\ e.over = d.over
    BY <1>2, <1>4 DEF Alike, Last1
  <1>6. e.zero \/ (x.room = x.size /\ e.n < x.size)
    BY <1>1, <1>4, <1>5
  <1>7. e.over => e.zero
    BY <1>1, <1>2, <1>5
  <1>8. Careful(e)
    BY <1>4, <1>5, <1>6, <1>7 DEF Careful
  <1>9. SameSpots(e.sections, c.sections)
    BY <1>1, <1>4 DEF SameSection, Alike
  <1> QED BY <1>4, <1>8, <1>9 DEF d, e

\* The weights of the bytes of a LEB number.
LEMMA LebUnitIsNat == \A n \in 0..4 : LebUnit[n + 1] \in Nat
  <1> SUFFICES ASSUME NEW n \in 0..4 PROVE LebUnit[n + 1] \in Nat
    OBVIOUS
  <1>1. n = 0 \/ n = 1 \/ n = 2 \/ n = 3 \/ n = 4
    OBVIOUS
  <1> QED BY <1>1 DEF LebUnit

\* Phase Wasm_Section_Size: a buffer for the section.
LEMMA GetsLebSize ==
  ASSUME NEW c \in Receiver, Careful(c), c.phase = "Wasm_Section_Size", NEW ch \in Octet, NEW memory,
         NEW place
  PROVE  Yields(Wasm_Section_Size(c, ch, memory), c, place)
  <1> DEFINE bits == ch % IF c.n = LebBytes - 1 THEN 16 ELSE 128
             size == c.sections[Last1(c)].size + bits * LebUnit[c.n + 1]
             k == c.n + 1
             f == SetSize(c, size)
             d == [f EXCEPT !.n = @ + 1]
             e == Enter(WithBody(d), "Wasm_Section_Content")
             r == Wasm_Section_Size(c, ch, memory)
  <1>1. (c.over => c.zero) /\ c.sections # <<>> /\ c.n \in Nat /\ ch \in Nat
    BY OctetIsNat DEF Careful, Receiver
  <1>2. CASE ~(c.n < LebBytes)
    <2>1. r = Fail(c)
      BY <1>1, <1>2 DEF Wasm_Section_Size, LebBytes
    <2> HIDE DEF r
    <2>2. Yields(Fail(c), c, place)
      BY <1>1, YieldsFail DEF SameSpots
    <2> QED BY <2>1, <2>2 DEF r
  <1>3. CASE c.n < LebBytes
    <2>1. r = True(d) \/ r = True(e) \/ r = Fail(d)
      BY <1>1, <1>3 DEF Wasm_Section_Size, LebBytes
    <2>2. c.sections[Last1(c)].size \in Nat
      <3>1. c.sections \in Seq(Section)
        BY DEF Receiver
      <3>2. c.sections[Len(c.sections)] \in Section
        BY <1>1, <3>1
      <3> QED BY <3>2 DEF Section, Last1
    <2>3. LebUnit[c.n + 1] \in Nat
      <3>1. c.n \in 0..4
        BY <1>1, <1>3 DEF LebBytes
      <3> QED BY <3>1, LebUnitIsNat
    <2>4. bits \in Nat
      BY <1>1
    <2> HIDE DEF bits
    <2>5. bits * LebUnit[c.n + 1] \in Nat
      BY <2>3, <2>4
    <2>6. size \in Nat
      BY <2>2, <2>5
    <2> HIDE DEF size
    <2>7. PICK x : SameSection(c, f, x) /\ f.zero = c.zero /\ f.n = c.n
      BY <1>1, <2>6, SetsSize
    <2>8. /\ f \in Receiver /\ f.phase = c.phase /\ f.over = c.over /\ f.sections # <<>>
          /\ SameSpots(f.sections, c.sections) /\ f.zero = c.zero
      BY <2>7 DEF SameSection
    <2> HIDE DEF f
    <2>9. /\ d \in Receiver /\ d.phase = f.phase /\ d.over = f.over /\ d.sections = f.sections
          /\ d.zero = f.zero
      <3>1. k \in Nat /\ f.n + 1 = k
        BY <1>1, <2>7
      <3>2. d = [f EXCEPT !.n = k]
        BY <3>1
      <3> HIDE DEF k, d
      <3> QED BY <2>8, <3>1, <3>2 DEF Receiver
    <2> HIDE DEF d
    <2>10. (d.over => d.zero) /\ d.sections # <<>> /\ SameSpots(d.sections, c.sections)
           /\ d.phase = "Wasm_Section_Size"
      BY <1>1, <2>8, <2>9
    <2>11. Careful(d)
      BY <2>10 DEF Careful
    <2>12. e \in Receiver /\ Careful(e) /\ SameSpots(e.sections, d.sections)
      BY <2>9, <2>10, StartsBody
    <2> HIDE DEF e, r
    <2>13. SameSpots(e.sections, c.sections)
      BY <2>10, <2>12 DEF SameSpots
    <2>14. Yields(True(d), c, place) /\ Yields(True(e), c, place)
      BY <2>9, <2>10, <2>11, <2>12, <2>13, YieldsTrue
    <2>15. Yields(Fail(d), c, place)
      BY <2>9, <2>10, YieldsFail
    <2> QED BY <2>1, <2>14, <2>15 DEF r
  <1> QED BY <1>2, <1>3

\* Phase AOT_Section_Size: a buffer for the section.
LEMMA GetsAotSize ==
  ASSUME NEW c \in Receiver, Careful(c), c.phase = "AOT_Section_Size", NEW ch \in Octet, NEW memory,
         NEW place
  PROVE  Yields(AOT_Section_Size(c, ch, memory), c, place)
  <1> DEFINE d == Collect(c, ch)
             size == Number(Reverse(d.word))
             f == SetSize(d, size)
             e == Enter(WithBody(f), "AOT_Section_Content")
             r == AOT_Section_Size(c, ch, memory)
  <1>1. (c.over => c.zero) /\ c.sections # <<>>
    BY DEF Careful
  <1>2. r = True(d) \/ r = True(e) \/ r = Fail(f)
    BY DEF AOT_Section_Size
  <1>3. d \in Receiver /\ d.phase = c.phase /\ Alike(c, d) /\ size \in Nat
    BY Collects
  <1> HIDE DEF d, size
  <1>4. (d.over => d.zero) /\ d.sections # <<>> /\ SameSpots(d.sections, c.sections)
    BY <1>1, <1>3 DEF Alike, SameSpots
  <1>5. Careful(d)
    BY <1>3, <1>4 DEF Careful
  <1>6. PICK x : SameSection(d, f, x) /\ f.zero = d.zero
    BY <1>3, <1>4, SetsSize
  <1>7. /\ f \in Receiver /\ f.sections # <<>> /\ SameSpots(f.sections, d.sections) /\ (f.over => f.zero)
    BY <1>4, <1>6 DEF SameSection
  <1> HIDE DEF f
  <1>8. e \in Receiver /\ Careful(e) /\ SameSpots(e.sections, f.sections)
    BY <1>7, StartsBody
  <1> HIDE DEF e, r
  <1>9. SameSpots(e.sections, c.sections) /\ SameSpots(f.sections, c.sections)
    BY <1>4, <1>7, <1>8 DEF SameSpots
  <1>10. Yields(True(d), c, place) /\ Yields(True(e), c, place)
    BY <1>3, <1>4, <1>5, <1>8, <1>9, YieldsTrue
  <1>11. Yields(Fail(f), c, place)
    BY <1>7, <1>9, YieldsFail
  <1> QED BY <1>2, <1>10, <1>11 DEF r

\* Phase AOT_Section_ID.
LEMMA GetsSectionID ==
  ASSUME NEW c \in Receiver, Careful(c), c.phase = "AOT_Section_ID", NEW ch \in Octet, NEW memory,
         NEW place \in Spots
  PROVE  Yields(AOT_Section_ID(c, ch, memory, place), c, place)
  <1> DEFINE b == IF c.n = 0 THEN NewSection(c, 0, place) ELSE c
             d == Collect(b, ch)
             type == Number(Reverse(d.word))
             e == [d EXCEPT !.sections[Last1(d)].type = type]
             f == Enter(e, "AOT_Section_Size")
             r == AOT_Section_ID(c, ch, memory, place)
             Grown(x) == SameSpots(x.sections, c.sections) \/ OneMore(x.sections, c.sections, place)
  <1>1. (c.over => c.zero) /\ (c.n # 0 => c.sections # <<>>)
    BY DEF Careful
  <1>2. r = True(c) \/ r = Fail(c) \/ r = True(d) \/ r = True(f) \/ r = Fail(e)
    BY DEF AOT_Section_ID
  <1>3. /\ b \in Receiver /\ b.sections # <<>> /\ Grown(b) /\ (b.over => b.zero)
        /\ b.phase = "AOT_Section_ID"
    <2>1. CASE c.n = 0
      BY <1>1, <2>1, AddsSection
    <2>2. CASE c.n # 0
      BY <1>1, <2>2 DEF SameSpots
    <2> QED BY <2>1, <2>2
  <1> HIDE DEF b
  <1>4. d \in Receiver /\ d.phase = b.phase /\ Alike(b, d) /\ type \in Nat
    BY <1>3, Collects
  <1> HIDE DEF d, type
  <1>5. d.sections # <<>> /\ Grown(d) /\ (d.over => d.zero) /\ d.phase = "AOT_Section_ID"
    BY <1>3, <1>4 DEF Alike
  <1>6. Careful(d)
    BY <1>5 DEF Careful
  <1>7. PICK x : SameSection(d, e, x) /\ e.zero = d.zero
    BY <1>4, <1>5, SetsType
  <1>8. e \in Receiver /\ e.sections # <<>> /\ SameSpots(e.sections, d.sections) /\ (e.over => e.zero)
    BY <1>5, <1>7 DEF SameSection
  <1> HIDE DEF e
  <1>9. Grown(e)
    BY <1>5, <1>8 DEF SameSpots, OneMore
  <1>10. f \in Receiver /\ f.phase = "AOT_Section_Size" /\ Alike(e, f)
    BY <1>8, Enters DEF Phases
  <1> HIDE DEF f, r
  <1>11. Careful(f)
    BY <1>8, <1>10 DEF Careful, Alike
  <1>12. Grown(f)
    BY <1>9, <1>10 DEF Alike
  <1>13. Grown(c)
    BY DEF SameSpots
  <1>14. Yields(True(c), c, place) /\ Yields(True(d), c, place) /\ Yields(True(f), c, place)
    BY <1>4, <1>5, <1>6, <1>10, <1>11, <1>12, <1>13, YieldsTrue
  <1>15. Yields(Fail(c), c, place) /\ Yields(Fail(e), c, place)
    BY <1>1, <1>8, <1>9, <1>13, YieldsFail
  <1> QED BY <1>2, <1>14, <1>15 DEF r

\* A receiver at the start of a package.
LEMMA NewReceiverCareful ==
  ASSUME NEW o \in BOOLEAN, NEW z \in BOOLEAN, o => z
  PROVE  /\ [NewReceiver EXCEPT !.over = o, !.zero = z] \in Receiver
         /\ Careful([NewReceiver EXCEPT !.over = o, !.zero = z])
         /\ [NewReceiver EXCEPT !.over = o, !.zero = z].sections = <<>>
  <1> DEFINE c == [NewReceiver EXCEPT !.over = o, !.zero = z]
  <1>1. <<>> \in Words /\ <<>> \in Seq(Section) /\ 0 \in Octet
    BY DEF Words, Octet
  <1>2. "Req_Ver" \in Phases /\ "none" \in Kinds
    BY DEF Phases, Kinds
  <1>3. NewReceiver \in Receiver /\ NewReceiver.phase = "Req_Ver" /\ NewReceiver.sections = <<>>
    BY <1>1, <1>2 DEF Receiver, NewReceiver
  <1>4. c \in Receiver /\ c.phase = "Req_Ver" /\ c.over = o /\ c.zero = z /\ c.sections = <<>>
    BY <1>3 DEF Receiver
  <1> HIDE DEF c
  <1>5. Careful(c)
    BY <1>4, PlainCareful DEF Plain
  <1> QED BY <1>4, <1>5 DEF c

\* The phases of a section's content: a byte stored in the buffer.
LEMMA GetsContent ==
  ASSUME NEW c \in Receiver, Careful(c), c.phase \in {"Wasm_Section_Content", "AOT_Section_Content"},
         NEW next \in {"Wasm_Section_Type", "AOT_Section_ID"}, NEW size, NEW posts, NEW place
  PROVE  Yields(Section_Content(c, size, posts, next), c, place)
  <1> DEFINE s == c.sections[Last1(c)]
             k == c.n + 1
             o == c.over \/ c.n >= s.room
             d == [c EXCEPT !.n = k, !.over = o]
             e == Enter(d, next)
             g == [NewReceiver EXCEPT !.over = d.over, !.zero = d.zero]
             q == [ctx |-> g, ret |-> TRUE, post |-> <<module_wasm_app_handle_install_msg(d)>>]
             r == Section_Content(c, size, posts, next)
  <1>1. /\ c.over => c.zero
        /\ c.sections # <<>> /\ (c.zero \/ (s.room = s.size /\ c.n < s.size))
    BY DEF Careful
  <1>2. s \in Section /\ c.n \in Nat
    <2>1. c.sections \in Seq(Section) /\ c.n \in Nat
      BY DEF Receiver
    <2>2. c.sections[Len(c.sections)] \in Section
      BY <1>1, <2>1
    <2> QED BY <2>1, <2>2 DEF Last1
  <1>3. s.size \in Nat /\ s.room \in Int
    BY <1>2 DEF Section
  <1>4. r = IF d.n # s.size THEN True(d) ELSE IF d.total # size THEN True(e) ELSE IF posts THEN q ELSE Fail(d)
    BY DEF Section_Content
  <1> HIDE DEF s
  <1>5. k \in Nat /\ o \in BOOLEAN /\ (o => c.zero) /\ (c.n < s.size /\ k # s.size => k < s.size)
    <2>1. o => c.zero
      BY <1>1, <1>2, <1>3
    <2>2. c.over \in BOOLEAN
      BY DEF Receiver
    <2> QED BY <1>2, <1>3, <2>1, <2>2
  <1> HIDE DEF k, o
  <1>6. /\ d \in Receiver /\ d.n = k /\ d.phase = c.phase /\ d.over = o /\ d.zero = c.zero
        /\ d.sections = c.sections /\ d.over \in BOOLEAN /\ d.zero \in BOOLEAN
    BY <1>5 DEF Receiver
  <1> HIDE DEF d
  <1>7. SameSpots(d.sections, c.sections) /\ (d.over => d.zero) /\ d.sections[Last1(d)] = s
    BY <1>5, <1>6 DEF SameSpots, Last1, s
  <1>8. ASSUME d.n # s.size PROVE Yields(True(d), c, place)
    <2>1. Careful(d)
      BY <1>1, <1>5, <1>6, <1>7, <1>8 DEF Careful
    <2> QED BY <1>6, <1>7, <2>1, YieldsTrue
  <1>9. Yields(True(e), c, place)
    <2>1. next \in Phases /\ (next \in Plain \/ next = "AOT_Section_ID")
      BY DEF Phases, Plain
    <2>2. e \in Receiver /\ e.phase = next /\ e.n = 0 /\ Alike(d, e)
      BY <1>6, <2>1, Enters
    <2> HIDE DEF e
    <2>3. Careful(e)
      BY <1>7, <2>1, <2>2, PlainCareful DEF Alike
    <2>4. SameSpots(e.sections, c.sections)
      BY <1>7, <2>2 DEF Alike
    <2> QED BY <2>2, <2>3, <2>4, YieldsTrue
  <1>10. Yields(q, c, place)
    <2>1. g \in Receiver /\ Careful(g) /\ g.sections = <<>>
      BY <1>6, <1>7, NewReceiverCareful
    <2> DEFINE p == module_wasm_app_handle_install_msg(d)
    <2>2. p.sections = c.sections
      BY <1>6 DEF module_wasm_app_handle_install_msg
    <2> HIDE DEF g, p
    <2>3. q.ctx = g /\ q.post = <<p>>
      BY DEF p
    <2> HIDE DEF q
    <2> QED BY <2>1, <2>2, <2>3 DEF Yields
  <1>11. Yields(Fail(d), c, place)
    BY <1>6, <1>7, YieldsFail
  <1> HIDE DEF r, e, q
  <1> QED BY <1>4, <1>8, <1>9, <1>10, <1>11 DEF r

\* What a byte of a package does (wasm_app_module_on_install_request_byte_arrive).
LEMMA Receives ==
  ASSUME NEW ctx \in Receiver, Careful(ctx), NEW ch \in Octet, NEW size, NEW memory, NEW posts,
         NEW place \in Spots
  PROVE  Yields(Receive(ctx, ch, size, memory, posts, place), ctx, place)
  <1> DEFINE c == IF ctx.phase = "Req_Ver" THEN [ctx EXCEPT !.n = 0, !.total = 1]
                  ELSE [ctx EXCEPT !.total = @ + 1]
             r == Receive(ctx, ch, size, memory, posts, place)
  <1>1. /\ c \in Receiver /\ c.phase = ctx.phase /\ Alike(ctx, c)
        /\ ctx.phase # "Req_Ver" => c.n = ctx.n
    <2>1. CASE ctx.phase = "Req_Ver"
      BY <2>1 DEF Receiver, Alike
    <2>2. CASE ctx.phase # "Req_Ver"
      <3> DEFINE k == ctx.total + 1
                 e == [ctx EXCEPT !.total = k]
      <3>1. k \in Nat
        BY DEF Receiver
      <3> HIDE DEF k
      <3>2. e \in Receiver /\ e.phase = ctx.phase /\ Alike(ctx, e) /\ e.n = ctx.n
        BY <3>1 DEF Receiver, Alike
      <3>3. c = e
        BY <2>2 DEF k
      <3> HIDE DEF c, e
      <3> QED BY <3>2, <3>3
    <2> QED BY <2>1, <2>2
  <1>2. r = CASE c.phase = "Req_Ver" -> Req_Ver(c, ch)
       [] c.phase = "Req_Action" -> Req_Action(c, ch)
       [] c.phase = "Req_Fmt" -> RECV_INTEGER(c, ch, 2, "Req_Mid")
       [] c.phase = "Req_Mid" -> RECV_INTEGER(c, ch, 4, "Req_Sender")
       [] c.phase = "Req_Sender" -> RECV_INTEGER(c, ch, 4, "Req_Url_Len")
       [] c.phase = "Req_Url_Len" -> Req_Url_Len(c, ch, memory)
       [] c.phase = "Req_Payload_Len" -> RECV_INTEGER(c, ch, 4, "Req_Url")
       [] c.phase = "Req_Url" -> Req_Url(c, ch)
       [] c.phase = "App_Magic" -> App_Magic(c, ch)
       [] c.phase = "Wasm_Version" -> FileVersionByte(c, ch, "Wasm_Section_Type")
       [] c.phase = "Wasm_Section_Type" -> Wasm_Section_Type(c, ch, memory, place)
       [] c.phase = "Wasm_Section_Size" -> Wasm_Section_Size(c, ch, memory)
       [] c.phase = "Wasm_Section_Content" -> Section_Content(c, size, posts, "Wasm_Section_Type")
       [] c.phase = "AOT_Version" -> FileVersionByte(c, ch, "AOT_Section_ID")
       [] c.phase = "AOT_Section_ID" -> AOT_Section_ID(c, ch, memory, place)
       [] c.phase = "AOT_Section_Size" -> AOT_Section_Size(c, ch, memory)
       [] c.phase = "AOT_Section_Content" -> Section_Content(c, size, posts, "AOT_Section_ID")
    BY DEF Receive
  <1> HIDE DEF c, r
  <1>3. Careful(c)
    BY <1>1 DEF Careful, Alike, Last1
  <1>4. c.phase \in Phases
    BY <1>1 DEF Receiver
  <1>5. Yields(r, c, place)
    <2>1. CASE c.phase = "Req_Ver"
      BY <1>1, <1>2, <1>3, <2>1, GetsVersion
    <2>2. CASE c.phase = "Req_Action"
      BY <1>1, <1>2, <1>3, <2>2, GetsAction
    <2>3. CASE c.phase \in {"Req_Fmt", "Req_Mid", "Req_Sender"}
      <3>1. /\ c.phase \in Plain
            /\ \E w, next \in {2, 4, "Req_Mid", "Req_Sender", "Req_Url_Len"} :
                 next \in Plain /\ r = RECV_INTEGER(c, ch, w, next)
        BY <1>2, <2>3 DEF Plain
      <3> QED BY <1>1, <1>3, <3>1, GetsInteger, SMTT(30), ZenonT(30)
    <2>4. CASE c.phase = "Req_Url_Len"
      BY <1>1, <1>2, <1>3, <2>4, GetsUrlLen
    <2>5. CASE c.phase = "Req_Payload_Len"
      BY <1>1, <1>2, <1>3, <2>5, GetsPayloadLen
    <2>6. CASE c.phase = "Req_Url"
      BY <1>1, <1>2, <1>3, <2>6, GetsUrl
    <2>7. CASE c.phase = "App_Magic"
      BY <1>1, <1>2, <1>3, <2>7, GetsMagic
    <2>8. CASE c.phase = "Wasm_Version"
      <3>1. r = FileVersionByte(c, ch, "Wasm_Section_Type") /\ c.phase \in Plain /\ "Wasm_Section_Type" \in Plain
        BY <1>2, <2>8 DEF Plain
      <3> QED BY <1>1, <1>3, <3>1, GetsFileVersion
    <2>9. CASE c.phase = "AOT_Version"
      <3>1. r = FileVersionByte(c, ch, "AOT_Section_ID") /\ c.phase \in Plain
        BY <1>2, <2>9 DEF Plain
      <3> QED BY <1>1, <1>3, <3>1, GetsFileVersion
    <2>10. CASE c.phase = "Wasm_Section_Type"
      BY <1>1, <1>2, <1>3, <2>10, GetsSectionType
    <2>11. CASE c.phase = "Wasm_Section_Size"
      BY <1>1, <1>2, <1>3, <2>11, GetsLebSize
    <2>12. CASE c.phase = "Wasm_Section_Content"
      BY <1>1, <1>2, <1>3, <2>12, GetsContent
    <2>13. CASE c.phase = "AOT_Section_ID"
      BY <1>1, <1>2, <1>3, <2>13, GetsSectionID
    <2>14. CASE c.phase = "AOT_Section_Size"
      BY <1>1, <1>2, <1>3, <2>14, GetsAotSize
    <2>15. CASE c.phase = "AOT_Section_Content"
      BY <1>1, <1>2, <1>3, <2>15, GetsContent
    <2> QED BY <1>4, <2>1, <2>2, <2>3, <2>4, <2>5, <2>6, <2>7, <2>8, <2>9, <2>10, <2>11, <2>12,
               <2>13, <2>14, <2>15 DEF Phases
  <1> QED BY <1>1, <1>5 DEF Yields, Alike, r

-----------------------------------------------------------------------------
(* The link, and what it hands to the receiver.                            *)

WireInv ==
  /\ theme \in Themes
  /\ wire = [frame |-> wire.frame, at |-> wire.at, number |-> wire.number, clean |-> wire.clean,
             failed |-> wire.failed, done |-> wire.done]
  /\ wire.frame.bytes \in Seq(Octet) /\ wire.at \in 0..Len(wire.frame.bytes) /\ wire.number \in Nat

Links ==
  [phase : {"Non_Start", "Leading", "Type", "Size", "Payload"}, n : Nat, type : Spots, word : Words,
   size : Nat, payload : Words, held : BOOLEAN]

\* The inductive invariant of WritesInside: the size is counted from 0 on, whatever
\* became of the frame before, and a payload that is stored has the room it needs.
LinkInv ==
  /\ link \in Links
  /\ link.phase = "Size" => link.n < 4
  /\ link.phase = "Payload" /\ ~Is(INSTALL_WASM_APP) => link.held /\ link.n < link.size

ReceiverInv == recv \in Receiver /\ Careful(recv)

\* What is on the wire is a byte, at a place of its own.
LEMMA ByteIsOctet ==
  ASSUME WireInv, ~Idle
  PROVE  /\ Byte \in Octet /\ wire.at + 1 \in 0..Len(wire.frame.bytes) /\ Place \in Spots
         /\ wire.at \in Nat
  <1>1. /\ wire.frame.bytes \in Seq(Octet) /\ wire.at \in 0..Len(wire.frame.bytes)
        /\ wire.at # Len(wire.frame.bytes)
    BY DEF WireInv, Idle
  <1> DEFINE b == wire.frame.bytes
             k == wire.at + 1
  <1>2. k \in 1..Len(b)
    BY <1>1
  <1> HIDE DEF k
  <1>3. b[k] \in Octet
    BY <1>1, <1>2
  <1>4. Place \in Spots
    BY <1>1 DEF WireInv, Place, Spots
  <1> QED BY <1>1, <1>2, <1>3, <1>4 DEF Byte, k

\* One byte of the frame arrives.
LEMMA ArrivesOne ==
  ASSUME WireInv, ~Idle, NEW done, NEW failed, Arrives(done, failed), UNCHANGED theme
  PROVE  WireInv' /\ wire'.at = wire.at + 1 /\ wire'.number = wire.number
  <1> DEFINE k == wire.at + 1
             d == wire.done \o done
             f == wire.failed \/ failed
  <1>1. wire' = [wire EXCEPT !.at = k, !.done = d, !.failed = f]
    BY DEF Arrives
  <1>2. k \in 0..Len(wire.frame.bytes)
    BY ByteIsOctet
  <1> HIDE DEF k, d, f
  <1>3. wire' = [frame |-> wire.frame, at |-> k, number |-> wire.number, clean |-> wire.clean,
                 failed |-> f, done |-> d]
    BY <1>1 DEF WireInv
  <1>4. /\ wire'.frame = wire.frame /\ wire'.at = k /\ wire'.number = wire.number
        /\ wire'.clean = wire.clean /\ wire'.failed = f /\ wire'.done = d
    BY <1>3
  <1>5. WireInv'
    BY <1>2, <1>3, <1>4 DEF WireInv
  <1> QED BY <1>4, <1>5 DEF k

\* The link at the start of a frame.
LEMMA NewLinkFine == NewLink \in Links /\ NewLink.phase = "Non_Start"
  <1>1. <<>> \in Words /\ <<0, 0>> \in Spots
    BY DEF Words, Spots
  <1> QED BY <1>1 DEF NewLink, Links

\* A step of the wire is a frame sent or a byte taken.
LEMMA WireKept ==
  ASSUME WireInv, [Next]_vars
  PROVE  WireInv'
  <1>1. CASE UNCHANGED vars
    BY <1>1 DEF vars, WireInv
  <1>2. ASSUME NEW f \in theme.frames, Send(f) PROVE WireInv'
    <2>1. Bytes(f) \in Seq(0..255)
      BY FrameAssumption DEF WireInv
    <2> DEFINE b == Bytes(f)
    <2>2. b \in Seq(Octet)
      BY <2>1 DEF Octet
    <2>3. wire' = [frame |-> [bytes |-> b, means |-> f.means], at |-> 0,
                   number |-> wire.number + 1, failed |-> FALSE, done |-> <<>>, clean |-> Fresh]
      BY <1>2 DEF Send
    <2>4. UNCHANGED theme /\ wire.number + 1 \in Nat
      BY <1>2 DEF Send, WireInv
    <2> HIDE DEF b
    <2>5. /\ wire'.frame = [bytes |-> b, means |-> f.means] /\ wire'.at = 0
          /\ wire'.number = wire.number + 1 /\ wire'.failed = FALSE /\ wire'.done = <<>>
          /\ wire'.clean = Fresh
      BY <2>3
    <2>6. wire'.frame.bytes = b
      BY <2>5
    <2>7. 0 \in 0..Len(b)
      BY <2>2
    <2>8. wire' = [frame |-> wire'.frame, at |-> wire'.at, number |-> wire'.number, clean |-> wire'.clean,
                   failed |-> wire'.failed, done |-> wire'.done]
      BY <2>3, <2>5
    <2> QED BY <2>2, <2>4, <2>5, <2>6, <2>7, <2>8 DEF WireInv
  <1>3. CASE Arrival
    <2>1. ~Idle /\ UNCHANGED theme /\ \E done, failed : Arrives(done, failed)
      BY <1>3 DEF Arrival, Phase_Non_Start, Phase_Leading, Phase_Type, Phase_Size, Phase_Payload,
                  Phase_Install, Keeps, Stays
    <2> QED BY <2>1, ArrivesOne, SMTT(30), ZenonT(30)
  <1>4. CASE UNCHANGED <<theme, wire>>
    BY <1>4 DEF WireInv
  <1>5. ASSUME NEW step, NEW memory, app_manager_queue_callback(step, memory) PROVE WireInv'
    BY <1>4, <1>5 DEF app_manager_queue_callback
  <1>6. CASE Calls
    BY <1>4, <1>6 DEF Calls
  <1> QED BY <1>1, <1>2, <1>3, <1>5, <1>6 DEF Next

\* Only the type and the phase of the link, and whether a payload fits, matter.
LEMMA LinkFine ==
  ASSUME NEW l \in Links, link' = l, l.phase = "Size" => l.n < 4,
         l.phase = "Payload" /\ l.type # <<0, INSTALL_WASM_APP>> => l.held /\ l.n < l.size
  PROVE  LinkInv'
  BY DEF LinkInv, Is

\* The bytes before the type of a frame.
LEMMA StartsFrame ==
  ASSUME LinkInv, Phase_Non_Start \/ Phase_Leading
  PROVE  LinkInv'
  <1>1. CASE Phase_Non_Start
    <2> DEFINE p == IF Byte = Leading[1] THEN "Leading" ELSE link.phase
               l == [link EXCEPT !.size = 0, !.payload = <<>>, !.held = FALSE, !.phase = p]
    <2>1. link' = l /\ p \in {"Leading", "Non_Start"}
      BY <1>1 DEF Phase_Non_Start
    <2>2. <<>> \in Words
      BY DEF Words
    <2> HIDE DEF p
    <2>3. l \in Links /\ l.phase = p
      BY <2>1, <2>2 DEF LinkInv, Links
    <2> HIDE DEF l
    <2> QED BY <2>1, <2>3, LinkFine
  <1>2. CASE Phase_Leading
    <2> DEFINE p == IF Byte = Leading[2] THEN "Type" ELSE "Non_Start"
               l == [link EXCEPT !.phase = p]
    <2>1. link' = l /\ p \in {"Type", "Non_Start"}
      BY <1>2 DEF Phase_Leading
    <2> HIDE DEF p
    <2>2. l \in Links /\ l.phase = p
      BY <2>1 DEF LinkInv, Links
    <2> HIDE DEF l
    <2> QED BY <2>1, <2>2, LinkFine
  <1> QED BY <1>1, <1>2

\* The type of a frame.
LEMMA GetsType ==
  ASSUME LinkInv, Byte \in Octet, Phase_Type
  PROVE  LinkInv'
  <1> DEFINE t == <<0, Byte>>
             u == <<link.type[2], link.type[1] + Byte>>
             a == [link EXCEPT !.n = 1, !.type = t]
             b == [link EXCEPT !.n = 0, !.phase = "Size", !.type = u]
  <1>1. link.phase = "Type" /\ (link' = a \/ link' = b)
    BY DEF Phase_Type
  <1>2. Byte \in Nat /\ link.type \in Spots
    BY OctetIsNat DEF LinkInv, Links
  <1>3. t \in Spots /\ u \in Spots
    <2>1. link.type[1] \in Nat /\ link.type[2] \in Nat
      BY <1>2 DEF Spots
    <2> QED BY <1>2, <2>1 DEF Spots
  <1> HIDE DEF t, u
  <1>4. a \in Links /\ a.phase = "Type" /\ b \in Links /\ b.phase = "Size" /\ b.n = 0
    BY <1>1, <1>3 DEF LinkInv, Links
  <1> HIDE DEF a, b
  <1>5. ASSUME link' = a PROVE LinkInv'
    BY <1>4, <1>5, LinkFine
  <1>6. ASSUME link' = b PROVE LinkInv'
    BY <1>4, <1>6, LinkFine
  <1> QED BY <1>1, <1>5, <1>6

\* The size of a frame: a buffer for the payload.
LEMMA GetsSize ==
  ASSUME LinkInv, Byte \in Octet, NEW memory, Phase_Size(memory)
  PROVE  LinkInv'
  <1> DEFINE word == IF link.n = 0 THEN <<Byte>> ELSE Append(link.word, Byte)
             size == Number(word)
             k == link.n + 1
             c == [link EXCEPT !.n = k, !.word = word]
             whole == [c EXCEPT !.size = size, !.payload = <<>>, !.held = FALSE]
             wants == c.n = 4 /\ size \in 1..MaxPayload /\ ~Is(INSTALL_WASM_APP)
             a == [whole EXCEPT !.phase = "Non_Start"]
             b == [whole EXCEPT !.phase = "Payload", !.n = 0, !.held = wants]
  <1>1. /\ link.phase = "Size" /\ (memory \/ wants)
        /\ link' = CASE c.n < 4 -> c
                     [] c.n = 4 /\ size = 0 -> NewLink
                     [] c.n = 4 /\ (size > MaxPayload \/ ~memory) -> a
                     [] OTHER -> b
    BY DEF Phase_Size
  <1>2. link \in Links /\ link.n < 4 /\ link.n \in Nat /\ link.word \in Words
    BY <1>1 DEF LinkInv, Links
  <1>3. word \in Words
    BY <1>2 DEF Words
  <1>4. size \in Nat
    BY <1>3, NumberIsNat DEF Words
  <1>5. k \in Nat /\ (k < 4 \/ k = 4)
    BY <1>2
  <1> HIDE DEF word, size, k
  <1>6. c \in Links /\ c.n = k /\ c.phase = "Size" /\ c.type = link.type
    BY <1>1, <1>2, <1>3, <1>5 DEF Links
  <1> HIDE DEF c
  <1>7. /\ whole \in Links /\ whole.type = link.type /\ whole.size = size
    <2>1. <<>> \in Words
      BY DEF Words
    <2> QED BY <1>4, <1>6, <2>1 DEF Links
  <1>8. wants \in BOOLEAN /\ (k = 4 /\ size \in 1..MaxPayload /\ link.type # <<0, INSTALL_WASM_APP>> => wants)
    BY <1>6 DEF Is
  <1>0. size = 0 => memory /\ ~(size > MaxPayload)
    BY <1>1, LinkAssumption
  <1> HIDE DEF whole, wants
  <1>9. a \in Links /\ a.phase = "Non_Start"
    BY <1>7 DEF Links
  <1>10. b \in Links /\ b.n = 0 /\ b.size = size /\ b.held = wants /\ b.type = link.type /\ b.phase = "Payload"
    BY <1>7, <1>8 DEF Links
  <1> HIDE DEF a, b
  <1>11. CASE k < 4
    <2>1. link' = c
      BY <1>1, <1>5, <1>6, <1>11
    <2> QED BY <1>6, <1>11, <2>1, LinkFine
  <1>12. CASE k = 4 /\ size = 0
    <2>1. link' = NewLink
      BY <1>0, <1>1, <1>6, <1>12
    <2>2. NewLink.phase = "Non_Start" /\ NewLink \in Links
      BY NewLinkFine
    <2> DEFINE l == NewLink
    <2> HIDE DEF l
    <2>3. link' = l /\ l.phase = "Non_Start" /\ l \in Links
      BY <2>1, <2>2 DEF l
    <2> QED BY <2>3, LinkFine
  <1>13. CASE k = 4 /\ size # 0 /\ (size > MaxPayload \/ ~memory)
    <2>1. link' = a
      BY <1>1, <1>6, <1>13
    <2> QED BY <1>9, <2>1, LinkFine
  <1>14. CASE k = 4 /\ size # 0 /\ ~(size > MaxPayload \/ ~memory)
    <2>1. link' = b
      BY <1>1, <1>6, <1>14
    <2>2. size \in 1..MaxPayload /\ 0 < size
      BY <1>4, <1>14, LinkAssumption
    <2>3. b.type # <<0, INSTALL_WASM_APP>> => b.held /\ b.n < b.size
      BY <1>8, <1>10, <1>14, <2>2
    <2> QED BY <1>10, <2>1, <2>3, LinkFine
  <1> QED BY <1>5, <1>11, <1>12, <1>13, <1>14

\* A byte of the payload.
LEMMA GetsPayload ==
  ASSUME LinkInv, Byte \in Octet, Phase_Payload
  PROVE  LinkInv'
  <1> DEFINE k == link.n + 1
             u == Append(link.payload, Byte)
             c == [link EXCEPT !.n = k, !.payload = u]
             a == [c EXCEPT !.phase = "Non_Start"]
  <1>1. link.phase = "Payload" /\ ~Is(INSTALL_WASM_APP)
    BY DEF Phase_Payload
  <1>2. \/ c.n < c.size /\ link' = c
        \/ link' = NewLink
        \/ link' = a
    BY DEF Phase_Payload
  <1>3. link \in Links /\ link.held /\ link.n \in Nat /\ link.payload \in Words /\ link.type # <<0, INSTALL_WASM_APP>>
    BY <1>1 DEF LinkInv, Links, Is
  <1>4. k \in Nat /\ u \in Words
    BY <1>3 DEF Words
  <1> HIDE DEF k, u
  <1>5. c \in Links /\ c.phase = "Payload" /\ c.held = link.held
    BY <1>1, <1>3, <1>4 DEF Links
  <1> HIDE DEF c
  <1>6. a \in Links /\ a.phase = "Non_Start"
    BY <1>5 DEF Links
  <1> HIDE DEF a
  <1>7. ASSUME c.n < c.size, link' = c PROVE LinkInv'
    BY <1>3, <1>5, <1>7, LinkFine
  <1>8. ASSUME link' = a PROVE LinkInv'
    BY <1>6, <1>8, LinkFine
  <1>9. ASSUME link' = NewLink PROVE LinkInv'
    <2> DEFINE l == NewLink
    <2> HIDE DEF l
    <2>1. link' = l /\ l.phase = "Non_Start" /\ l \in Links
      BY <1>9, NewLinkFine DEF l
    <2> QED BY <2>1, LinkFine
  <1> QED BY <1>2, <1>7, <1>8, <1>9

\* A byte of a package goes to the receiver.
LEMMA GetsPackage ==
  ASSUME LinkInv, ReceiverInv, WireInv, ~Idle, NEW memory, Phase_Install(memory)
  PROVE  /\ LinkInv' /\ ReceiverInv'
         /\ \E r : /\ Yields(r, recv, Place) /\ recv' = r.ctx
                   /\ queue' = queue \o [i \in DOMAIN r.post |->
                                   [action |-> r.post[i].action, url |-> r.post[i].url, file |-> r.post[i]]]
                   /\ heap' = [heap EXCEPT !.live = @ \cup Ids(ToSet(r.ctx.sections))
                                 \cup UNION {Ids(ToSet(p.sections)) : p \in ToSet(r.post)}]
  <1> DEFINE takes == Len(queue) < MaxQueue
             counted == IF recv.phase = "Req_Ver" THEN 1 ELSE recv.total + 1
             a == [link EXCEPT !.phase = "Non_Start", !.n = 0]
             k == link.n + 1
             b == [link EXCEPT !.n = k]
             r == Receive(recv, Byte, link.size, memory, memory /\ takes, Place)
  <1>1. /\ link.phase = "Payload" /\ Is(INSTALL_WASM_APP)
        /\ link' \in {a, NewLink, b}
        /\ recv' = r.ctx
        /\ queue' = queue \o [i \in DOMAIN r.post |->
                                [action |-> r.post[i].action, url |-> r.post[i].url, file |-> r.post[i]]]
        /\ heap' = [heap EXCEPT !.live = @ \cup Ids(ToSet(r.ctx.sections))
                                           \cup UNION {Ids(ToSet(p.sections)) : p \in ToSet(r.post)}]
    BY DEF Phase_Install
  <1>2. Byte \in Octet /\ Place \in Spots
    BY ByteIsOctet
  <1>3. Yields(r, recv, Place)
    BY <1>2, Receives DEF ReceiverInv
  <1> HIDE DEF r
  <1>4. ReceiverInv'
    BY <1>1, <1>3 DEF ReceiverInv, Yields
  <1>5. link \in Links /\ k \in Nat /\ link.type = <<0, INSTALL_WASM_APP>>
    BY <1>1 DEF LinkInv, Links, Is
  <1> HIDE DEF k
  <1>6. a \in Links /\ a.phase = "Non_Start" /\ b \in Links /\ b.phase = "Payload" /\ b.type = link.type
    BY <1>1, <1>5 DEF Links
  <1> HIDE DEF a, b
  <1>7. ASSUME link' = a PROVE LinkInv'
    BY <1>6, <1>7, LinkFine
  <1>8. ASSUME link' = b PROVE LinkInv'
    BY <1>5, <1>6, <1>8, LinkFine
  <1>9. ASSUME link' = NewLink PROVE LinkInv'
    <2> DEFINE l == NewLink
    <2> HIDE DEF l
    <2>1. link' = l /\ l.phase = "Non_Start" /\ l \in Links
      BY <1>9, NewLinkFine DEF l
    <2> QED BY <2>1, LinkFine
  <1> QED BY <1>1, <1>3, <1>4, <1>7, <1>8, <1>9

\* Every step keeps the invariants of link and receiver.
LEMMA LinkKept ==
  ASSUME LinkInv, ReceiverInv, WireInv, [Next]_vars
  PROVE  LinkInv' /\ ReceiverInv'
  <1>1. CASE UNCHANGED <<link, recv>>
    BY <1>1 DEF LinkInv, ReceiverInv, Is
  <1>2. CASE Arrival
    <2>1. ~Idle /\ Byte \in Octet
      BY <1>2, ByteIsOctet DEF Arrival
    <2>2. ASSUME UNCHANGED recv PROVE ReceiverInv'
      BY <2>2 DEF ReceiverInv
    <2>3. CASE Phase_Non_Start \/ Phase_Leading \/ Phase_Type
      BY <2>1, <2>2, <2>3, StartsFrame, GetsType DEF Phase_Non_Start, Phase_Leading, Phase_Type, Keeps
    <2>4. CASE Phase_Payload
      BY <2>1, <2>2, <2>4, GetsPayload DEF Phase_Payload
    <2>5. ASSUME NEW memory, Phase_Size(memory) PROVE LinkInv' /\ ReceiverInv'
      BY <2>1, <2>2, <2>5, GetsSize DEF Phase_Size
    <2>6. ASSUME NEW memory, Phase_Install(memory) PROVE LinkInv' /\ ReceiverInv'
      BY <2>1, <2>6, GetsPackage
    <2> QED BY <1>2, <2>3, <2>4, <2>5, <2>6 DEF Arrival
  <1>3. ASSUME NEW f, Send(f) PROVE UNCHANGED <<link, recv>>
    BY <1>3 DEF Send
  <1>4. ASSUME NEW step, NEW memory, app_manager_queue_callback(step, memory)
        PROVE  UNCHANGED <<link, recv>>
    BY <1>4 DEF app_manager_queue_callback
  <1>5. ASSUME Calls \/ UNCHANGED vars PROVE UNCHANGED <<link, recv>>
    BY <1>5 DEF Calls, vars
  <1> QED BY <1>1, <1>2, <1>3, <1>4, <1>5 DEF Next

\* Link and receiver start empty.
LEMMA LinkStart ==
  ASSUME Init
  PROVE  LinkInv /\ ReceiverInv /\ WireInv
  <1>1. LinkInv
    <2>1. link \in Links /\ link.phase = "Non_Start"
      BY NewLinkFine DEF Init
    <2> QED BY <2>1 DEF LinkInv
  <1>2. ReceiverInv
    <2>1. /\ <<>> \in Words /\ <<>> \in Seq(Section) /\ "Req_Ver" \in Phases /\ "none" \in Kinds
          /\ 0 \in Octet
      BY DEF Words, Phases, Kinds, Octet
    <2>2. recv \in Receiver /\ recv.phase = "Req_Ver" /\ recv.over = FALSE
      BY <2>1 DEF Init, Receiver, NewReceiver
    <2>3. Careful(recv)
      BY <2>2, PlainCareful DEF Plain
    <2> QED BY <2>2, <2>3 DEF ReceiverInv
  <1>3. WireInv
    <2>1. wire = [frame |-> [bytes |-> <<>>, means |-> <<>>], at |-> 0, number |-> 0,
                  clean |-> TRUE, failed |-> FALSE, done |-> <<>>] /\ theme \in Themes
      BY DEF Init
    <2>2. /\ wire.frame = [bytes |-> <<>>, means |-> <<>>] /\ wire.at = 0 /\ wire.number = 0
          /\ wire.clean = TRUE /\ wire.failed = FALSE /\ wire.done = <<>>
      BY <2>1
    <2>3. wire.frame.bytes = <<>>
      BY <2>2
    <2>4. <<>> \in Seq(Octet) /\ 0 \in 0..Len(<<>>)
      OBVIOUS
    <2> QED BY <2>1, <2>2, <2>3, <2>4 DEF WireInv
  <1> QED BY <1>1, <1>2, <1>3

\* The invariants of wire, link and receiver hold throughout.
LEMMA LinkAlways == Spec => [](WireInv /\ LinkInv /\ ReceiverInv)
  <1>1. Init => WireInv /\ LinkInv /\ ReceiverInv
    BY LinkStart
  <1>2. (WireInv /\ LinkInv /\ ReceiverInv) /\ [Next]_vars => (WireInv /\ LinkInv /\ ReceiverInv)'
    BY WireKept, LinkKept
  <1> QED BY <1>1, <1>2, PTL DEF Spec

\* Whatever bytes arrive, in whatever state the frame before was given up, none is
\* stored outside of its buffer, unless a URL or a section of length 0 was accepted
\* (on_imrt_link_byte_arrive, wasm_app_module_on_install_request_byte_arrive).
THEOREM WritesInsideCorrect == Spec => []WritesInside
  <1>1. LinkInv /\ ReceiverInv => WritesInside
    BY DEF LinkInv, ReceiverInv, Careful, WritesInside
  <1> QED BY <1>1, LinkAlways, PTL

-----------------------------------------------------------------------------
(* Who owns a section: R are those of the receiver, Q those of each request in *)
(* the queue, A those of each application.                                 *)

Own(R, Q, A, live, dropped) ==
  /\ R \subseteq live /\ dropped \subseteq live
  /\ \A i \in DOMAIN Q : Q[i] \subseteq live
  /\ \A x \in DOMAIN A : A[x] \subseteq live
  /\ \A p \in live : \/ p \in R \/ p \in dropped
                     \/ \E i \in DOMAIN Q : p \in Q[i]
                     \/ \E x \in DOMAIN A : p \in A[x]
  /\ \A p \in R : p \notin dropped
  /\ \A i \in DOMAIN Q : \A p \in Q[i] : p \notin R /\ p \notin dropped
  /\ \A x \in DOMAIN A : \A p \in A[x] : p \notin R /\ p \notin dropped
  /\ \A i, j \in DOMAIN Q : \A p : p \in Q[i] /\ p \in Q[j] => i = j
  /\ \A x, y \in DOMAIN A : \A p : p \in A[x] /\ p \in A[y] => x = y
  /\ \A i \in DOMAIN Q, x \in DOMAIN A : \A p \in Q[i] : p \notin A[x]

\* The receiver gets a new section.
LEMMA OwnFresh ==
  ASSUME NEW R, NEW Q, NEW A, NEW live, NEW dropped, Own(R, Q, A, live, dropped),
         NEW p, p \notin live
  PROVE  Own(R \cup {p}, Q, A, live \cup {p}, dropped)
  <1>1. \A i \in DOMAIN Q : p \notin Q[i]
    BY DEF Own
  <1>2. \A x \in DOMAIN A : p \notin A[x]
    BY DEF Own
  <1>3. p \notin dropped
    BY DEF Own
  <1> QED BY <1>1, <1>2, <1>3 DEF Own

\* The queue grows by what the receiver had, or by a request without sections.
LEMMA OwnPost ==
  ASSUME NEW R, NEW Q, NEW A, NEW live, NEW dropped, Own(R, Q, A, live, dropped),
         NEW n \in Nat, DOMAIN Q = 1..n, NEW P, DOMAIN P = 1..n + 1,
         \A i \in 1..n : P[i] = Q[i], NEW S, P[n + 1] = R \/ P[n + 1] = {},
         S = R \ P[n + 1]
  PROVE  Own(S, P, A, live, dropped)
  <1> DEFINE k == n + 1
  <1>1. k \in DOMAIN P /\ \A i \in DOMAIN Q : i \in DOMAIN P /\ i # k
    OBVIOUS
  <1>2. \A i \in DOMAIN P : i = k \/ (i \in DOMAIN Q /\ P[i] = Q[i])
    OBVIOUS
  <1>3. \A i \in DOMAIN Q : i \in DOMAIN P /\ P[i] = Q[i]
    OBVIOUS
  <1>4. /\ \A p : p \in P[k] => p \in R
        /\ \A p : p \in S => p \in R /\ p \notin P[k]
        /\ \A p : p \in R => p \in S \/ p \in P[k]
    OBVIOUS
  <1> HIDE DEF k
  <1>5. /\ S \subseteq live /\ dropped \subseteq live
        /\ \A i \in DOMAIN P : P[i] \subseteq live
        /\ \A x \in DOMAIN A : A[x] \subseteq live
    BY <1>2, <1>4 DEF Own
  <1>6. ASSUME NEW p \in live
        PROVE  \/ p \in S \/ p \in dropped
               \/ \E i \in DOMAIN P : p \in P[i]
               \/ \E x \in DOMAIN A : p \in A[x]
    BY <1>1, <1>3, <1>4 DEF Own
  <1>7. /\ \A p \in S : p \notin dropped
        /\ \A i \in DOMAIN P : \A p \in P[i] : p \notin S /\ p \notin dropped
        /\ \A x \in DOMAIN A : \A p \in A[x] : p \notin S /\ p \notin dropped
    BY <1>2, <1>4 DEF Own
  <1>8. ASSUME NEW i \in DOMAIN P, NEW j \in DOMAIN P, NEW p, p \in P[i], p \in P[j] PROVE i = j
    <2>1. CASE i = k /\ j # k
      BY <1>2, <1>4, <1>8, <2>1 DEF Own
    <2>2. CASE i # k /\ j = k
      BY <1>2, <1>4, <1>8, <2>2 DEF Own
    <2>3. CASE i # k /\ j # k
      BY <1>2, <1>8, <2>3 DEF Own
    <2> QED BY <2>1, <2>2, <2>3
  <1>9. /\ \A x, y \in DOMAIN A : \A p : p \in A[x] /\ p \in A[y] => x = y
        /\ \A i \in DOMAIN P, x \in DOMAIN A : \A p \in P[i] : p \notin A[x]
    BY <1>2, <1>4 DEF Own
  <1> QED BY <1>5, <1>6, <1>7, <1>8, <1>9 DEF Own

\* The applications are the same, or there is one more, z, with some of F.
Gains(B, A, z, F) ==
  /\ z \notin DOMAIN A
  /\ \/ B = A
     \/ DOMAIN B = DOMAIN A \cup {z} /\ (\A x \in DOMAIN A : B[x] = A[x]) /\ B[z] \subseteq F

\* Of F only what is lost, or with z, is still there.
Remains(l, live, F, lost, B, A, z) ==
  /\ lost \subseteq F /\ (B # A => lost = {})
  /\ \A p : p \in l <=> p \in live /\ (p \notin F \/ p \in lost \/ (B # A /\ p \in B[z]))

\* The first request leaves the queue.
LEMMA OwnLeaves ==
  ASSUME NEW R, NEW Q, NEW A, NEW live, NEW dropped, Own(R, Q, A, live, dropped),
         NEW n \in Nat, n > 0, DOMAIN Q = 1..n, NEW P, DOMAIN P = 1..n - 1,
         \A i \in 1..n - 1 : P[i] = Q[i + 1],
         NEW B, NEW z, Gains(B, A, z, Q[1]),
         NEW lost, NEW l, Remains(l, live, Q[1], lost, B, A, z)
  PROVE  Own(R, P, B, l, dropped \cup lost)
  <1>1. 1 \in DOMAIN Q /\ \A i \in DOMAIN P : i + 1 \in DOMAIN Q /\ i + 1 # 1 /\ P[i] = Q[i + 1]
    OBVIOUS
  <1>2. \A i \in DOMAIN Q : i = 1 \/ \E k \in DOMAIN P : i = k + 1
    <2>1. ASSUME NEW i \in DOMAIN Q, i # 1 PROVE \E k \in DOMAIN P : i = k + 1
      <3>1. i - 1 \in DOMAIN P /\ i = (i - 1) + 1
        BY <2>1
      <3> QED BY <3>1
    <2> QED BY <2>1
  <1>3. \A i, j \in DOMAIN P : i + 1 = j + 1 => i = j
    OBVIOUS
  <1> DEFINE F == Q[1]
  <1>4. \A i \in DOMAIN P : \A p \in P[i] : p \notin F /\ p \in live
    BY <1>1 DEF Own
  <1>5. \A p \in R : p \notin F /\ p \in live
    BY <1>1 DEF Own
  <1>6. \A x \in DOMAIN A : \A p \in A[x] : p \notin F /\ p \in live
    BY <1>1 DEF Own
  <1>7. \A p \in F : p \in live /\ p \notin dropped /\ p \notin R
    BY <1>1 DEF Own
  <1>a. \A p \in dropped : p \in live /\ p \notin F
    BY <1>7 DEF Own
  <1>8. \A x \in DOMAIN B : (x \in DOMAIN A /\ B[x] = A[x]) \/ (B # A /\ x = z /\ B[x] \subseteq F)
    BY DEF Gains
  <1>9. \A x \in DOMAIN A : x \in DOMAIN B /\ B[x] = A[x]
    BY DEF Gains
  <1>10. B # A => z \in DOMAIN B
    BY DEF Gains
  <1>11. /\ \A p \in lost : p \in F
         /\ \A p : p \in l <=> p \in live /\ (p \notin F \/ p \in lost \/ (B # A /\ p \in B[z]))
    BY DEF Remains
  <1> HIDE DEF F
  <1>12. /\ R \subseteq l /\ dropped \cup lost \subseteq l
         /\ \A i \in DOMAIN P : P[i] \subseteq l
         /\ \A x \in DOMAIN B : B[x] \subseteq l
    <2>1. \A p \in R : p \in l
      BY <1>5, <1>11
    <2>2. \A p \in dropped \cup lost : p \in l
      BY <1>7, <1>a, <1>11
    <2>3. \A i \in DOMAIN P : \A p \in P[i] : p \in l
      BY <1>4, <1>11
    <2>4. \A x \in DOMAIN B : \A p \in B[x] : p \in l
      BY <1>6, <1>7, <1>8, <1>11
    <2> QED BY <2>1, <2>2, <2>3, <2>4
  <1>13. ASSUME NEW p \in l
         PROVE  \/ p \in R \/ p \in dropped \cup lost
                \/ \E i \in DOMAIN P : p \in P[i]
                \/ \E x \in DOMAIN B : p \in B[x]
    <2>1. CASE p \in F
      BY <2>1, <1>10, <1>11
    <2>2. CASE p \notin F
      <3>1. \/ p \in R \/ p \in dropped
            \/ \E i \in DOMAIN Q : i # 1 /\ p \in Q[i]
            \/ \E x \in DOMAIN A : p \in A[x]
        BY <2>2, <1>11 DEF Own, F
      <3>2. ASSUME NEW i \in DOMAIN Q, i # 1, p \in Q[i] PROVE \E k \in DOMAIN P : p \in P[k]
        BY <3>2, <1>1, <1>2
      <3> QED BY <3>1, <3>2, <1>9
    <2> QED BY <2>1, <2>2
  <1>14. /\ \A p \in R : p \notin dropped \cup lost
         /\ \A i \in DOMAIN P : \A p \in P[i] : p \notin R /\ p \notin dropped \cup lost
    <2>1. \A p \in R : p \notin dropped \cup lost
      BY <1>5, <1>11 DEF Own
    <2>2. \A i \in DOMAIN P : \A p \in P[i] : p \notin R /\ p \notin dropped
      BY <1>1 DEF Own
    <2> QED BY <2>1, <2>2, <1>4, <1>11
  <1>15. ASSUME NEW x \in DOMAIN B, NEW p \in B[x] PROVE p \notin R /\ p \notin dropped \cup lost
    <2>1. CASE x \in DOMAIN A /\ B[x] = A[x]
      BY <2>1, <1>6, <1>11 DEF Own
    <2>2. CASE B # A /\ x = z /\ B[x] \subseteq F
      BY <2>2, <1>7, <1>11 DEF Remains
    <2> QED BY <2>1, <2>2, <1>8
  <1>16. ASSUME NEW i \in DOMAIN P, NEW j \in DOMAIN P, NEW p, p \in P[i], p \in P[j] PROVE i = j
    <2>1. i + 1 = j + 1
      BY <1>1, <1>16 DEF Own
    <2> QED BY <2>1, <1>3
  <1>17. ASSUME NEW x \in DOMAIN B, NEW y \in DOMAIN B, NEW p, p \in B[x], p \in B[y] PROVE x = y
    BY <1>6, <1>8, <1>17 DEF Own
  <1>18. ASSUME NEW i \in DOMAIN P, NEW x \in DOMAIN B, NEW p \in P[i] PROVE p \notin B[x]
    <2>1. CASE x \in DOMAIN A /\ B[x] = A[x]
      BY <2>1, <1>1 DEF Own
    <2>2. CASE B # A /\ x = z /\ B[x] \subseteq F
      BY <2>2, <1>4
    <2> QED BY <2>1, <2>2, <1>8
  <1> QED BY <1>12, <1>13, <1>14, <1>15, <1>16, <1>17, <1>18 DEF Own

\* An uninstalled application gives its sections back.
LEMMA OwnUninstalled ==
  ASSUME NEW R, NEW Q, NEW A, NEW live, NEW dropped, Own(R, Q, A, live, dropped),
         NEW z \in DOMAIN A, NEW B, DOMAIN B = DOMAIN A \ {z},
         \A x \in DOMAIN B : B[x] = A[x]
  PROVE  Own(R, Q, B, live \ A[z], dropped)
  <1>1. \A x \in DOMAIN B : x \in DOMAIN A /\ x # z /\ B[x] = A[x]
    OBVIOUS
  <1>2. \A x \in DOMAIN A : x # z => x \in DOMAIN B /\ B[x] = A[x]
    OBVIOUS
  <1>3. R \subseteq live \ A[z] /\ dropped \subseteq live \ A[z]
    BY DEF Own
  <1>4. \A i \in DOMAIN Q : Q[i] \subseteq live \ A[z]
    BY DEF Own
  <1>5. \A x \in DOMAIN B : B[x] \subseteq live \ A[z]
    BY <1>1 DEF Own
  <1>6. ASSUME NEW p \in live \ A[z]
        PROVE  \/ p \in R \/ p \in dropped
               \/ \E i \in DOMAIN Q : p \in Q[i]
               \/ \E x \in DOMAIN B : p \in B[x]
    BY <1>2 DEF Own
  <1>7. /\ \A p \in R : p \notin dropped
        /\ \A i \in DOMAIN Q : \A p \in Q[i] : p \notin R /\ p \notin dropped
        /\ \A x \in DOMAIN B : \A p \in B[x] : p \notin R /\ p \notin dropped
    BY <1>1 DEF Own
  <1>8. /\ \A i, j \in DOMAIN Q : \A p : p \in Q[i] /\ p \in Q[j] => i = j
        /\ \A x, y \in DOMAIN B : \A p : p \in B[x] /\ p \in B[y] => x = y
        /\ \A i \in DOMAIN Q, x \in DOMAIN B : \A p \in Q[i] : p \notin B[x]
    BY <1>1 DEF Own
  <1> QED BY <1>3, <1>4, <1>5, <1>6, <1>7, <1>8 DEF Own

-----------------------------------------------------------------------------
(* What is released, and what is left.                                     *)

\* Sections with different places.
Apart(S) == \A s, t \in S : s.at = t.at => s = t

\* The names of what is left of sections that are apart.
LEMMA IdsApart ==
  ASSUME NEW S, Apart(S), NEW T \in SUBSET S
  PROVE  Ids(S \ T) = Ids(S) \ Ids(T) /\ Ids(T) \subseteq Ids(S)
  <1>1. \A p : p \in Ids(S \ T) => p \in Ids(S) /\ p \notin Ids(T)
    BY DEF Ids, Apart
  <1>2. \A p : p \in Ids(S) /\ p \notin Ids(T) => p \in Ids(S \ T)
    BY DEF Ids
  <1>3. \A p : p \in Ids(T) => p \in Ids(S)
    BY DEF Ids
  <1> QED BY <1>1, <1>2, <1>3

\* The sections of the types given leave the list, the others stay.
LEMMA Parts ==
  ASSUME NEW list, List(list), NEW types, NEW d, d = destroy_part_sections(list, types)
  PROVE  List(d.list) /\ d.freed \subseteq ToSet(list) /\ ToSet(d.list) = ToSet(list) \ d.freed
  <1> DEFINE out == UNION {FirstOf(list, t) : t \in types}
             K == {i \in DOMAIN list : list[i] \notin out}
             left == Keep(list, K)
  <1>1. d = [list |-> left, freed |-> out]
    BY DEF destroy_part_sections
  <1>2. \A t : FirstOf(list, t) \subseteq ToSet(list)
    BY DEF FirstOf, ToSet
  <1>3. out \subseteq ToSet(list)
    BY <1>2
  <1> HIDE DEF out
  <1>4. PICK g : Kept(left, list, K, g)
    BY KeepKept
  <1>5. ASSUME NEW s \in ToSet(left) PROVE s \in ToSet(list) \ out
    <2>1. PICK i \in DOMAIN left : s = left[i]
      BY DEF ToSet
    <2>2. g[i] \in DOMAIN list /\ s = list[g[i]] /\ list[g[i]] \notin out
      BY <2>1, <1>4 DEF Kept
    <2> QED BY <2>2 DEF ToSet
  <1>6. ASSUME NEW s \in ToSet(list) \ out PROVE s \in ToSet(left)
    <2>1. PICK k \in DOMAIN list : s = list[k]
      BY DEF ToSet
    <2>2. k \in K
      BY <2>1
    <2>3. PICK i \in DOMAIN left : left[i] = list[k]
      BY <2>2, <1>4 DEF Kept
    <2> QED BY <2>1, <2>3 DEF ToSet
  <1>7. List(left)
    BY <1>4 DEF Kept
  <1> HIDE DEF left
  <1>8. d.list = left /\ d.freed = out
    BY <1>1
  <1>9. ToSet(left) = ToSet(list) \ out
    BY <1>5, <1>6
  <1> QED BY <1>3, <1>7, <1>8, <1>9

\* Only the text may be released again.
Heaped(h) ==
  /\ h = [live |-> h.live, twice |-> h.twice, dropped |-> h.dropped, wild |-> h.wild]
  /\ \A s \in h.twice : s.type = Text

\* What the groups hold, that it is all allocated, and that two groups have
\* only text in common.
AllIds(groups, n) == UNION {Ids(groups[j]) : j \in 1..n}

GroupsLive(groups, n) == \A k \in 1..n : Ids(groups[k]) \subseteq heap.live

TextShared(groups, n) ==
  \A j, k \in 1..n : j < k =>
    \A s \in groups[k], t \in groups[j] : s.at = t.at => s.type = Text

\* Groups of sections are freed, each section once, but for the text.
LEMMA FreesGroups ==
  ASSUME Heaped(heap), NEW groups, NEW n \in Nat, DOMAIN groups = 1..n, Len(groups) = n,
         NEW left, NEW wild, Released(groups, left, wild),
         GroupsLive(groups, n), TextShared(groups, n)
  PROVE  /\ Heaped(heap') /\ heap'.dropped = heap.dropped \cup left
         /\ heap'.live = heap.live \ AllIds(groups, n)
  <1> DEFINE before(k) == UNION {Ids(groups[j]) : j \in 1..k - 1}
             again(k) == {s \in groups[k] : s.at \notin heap.live \ before(k)}
             l == heap.live \ before(Len(groups) + 1)
             w == heap.twice \cup UNION {again(k) : k \in DOMAIN groups}
             d == heap.dropped \cup left
  <1>1. heap' = [live |-> l, twice |-> w, dropped |-> d, wild |-> wild]
    BY DEF Released
  <1>2. ASSUME NEW k \in 1..n, NEW s \in again(k) PROVE s.type = Text
    <2>1. s.at \in Ids(groups[k])
      BY DEF Ids
    <2>2. s.at \in heap.live
      BY <2>1 DEF GroupsLive
    <2>3. s.at \in before(k)
      BY <2>2
    <2>4. PICK j \in 1..k - 1 : s.at \in Ids(groups[j])
      BY <2>3
    <2>5. PICK t \in groups[j] : t.at = s.at
      BY <2>4 DEF Ids
    <2>6. j \in 1..n /\ j < k
      BY <2>4
    <2> QED BY <2>5, <2>6 DEF TextShared
  <1>3. \A s \in w : s.type = Text
    BY <1>2 DEF Heaped
  <1>4. l = heap.live \ AllIds(groups, n)
    <2>1. (n + 1) - 1 = n
      OBVIOUS
    <2> QED BY <2>1 DEF AllIds
  <1> HIDE DEF l, w, d
  <1>5. heap'.live = l /\ heap'.twice = w /\ heap'.dropped = d /\ heap'.wild = wild
    BY <1>1
  <1> QED BY <1>1, <1>3, <1>4, <1>5 DEF Heaped, d

\* The sections S, in groups that may have the text in common.
LEMMA FreesThese ==
  ASSUME Heaped(heap), NEW groups, NEW n \in Nat, DOMAIN groups = 1..n, Len(groups) = n,
         NEW left, NEW wild, Released(groups, left, wild), NEW S, Ids(S) \subseteq heap.live,
         \A k \in 1..n : groups[k] \subseteq S,
         \A s \in S : \E k \in 1..n : s \in groups[k],
         \A j, k \in 1..n : j < k =>
           \A s \in groups[k], t \in groups[j] : s.at = t.at => s.type = Text
  PROVE  /\ Heaped(heap') /\ heap'.dropped = heap.dropped \cup left
         /\ heap'.live = heap.live \ Ids(S)
  <1>1. \A k \in 1..n : Ids(groups[k]) \subseteq Ids(S)
    BY DEF Ids
  <1>2. GroupsLive(groups, n) /\ TextShared(groups, n)
    BY <1>1 DEF GroupsLive, TextShared
  <1>3. /\ Heaped(heap') /\ heap'.dropped = heap.dropped \cup left
        /\ heap'.live = heap.live \ AllIds(groups, n)
    BY <1>2, FreesGroups, Zenon
  <1>4. AllIds(groups, n) = Ids(S)
    <2>1. ASSUME NEW p \in Ids(S) PROVE p \in AllIds(groups, n)
      <3>1. PICK s \in S : p = s.at
        BY DEF Ids
      <3>2. PICK k \in 1..n : s \in groups[k]
        OBVIOUS
      <3>3. p \in Ids(groups[k])
        BY <3>1, <3>2 DEF Ids
      <3> QED BY <3>3 DEF AllIds
    <2> QED BY <2>1, <1>1 DEF AllIds
  <1> QED BY <1>3, <1>4, Zenon

\* The same with nothing left behind.
LEMMA FreesAll ==
  ASSUME Heaped(heap), NEW groups, NEW n \in Nat, DOMAIN groups = 1..n, Len(groups) = n,
         NEW wild, Released(groups, {}, wild), NEW S, Ids(S) \subseteq heap.live,
         \A k \in 1..n : groups[k] \subseteq S,
         \A s \in S : \E k \in 1..n : s \in groups[k],
         \A j, k \in 1..n : j < k =>
           \A s \in groups[k], t \in groups[j] : s.at = t.at => s.type = Text
  PROVE  Heaped(heap') /\ heap'.dropped = heap.dropped /\ heap'.live = heap.live \ Ids(S)
  <1> DEFINE e == {}
  <1>1. Released(groups, e, wild) /\ heap.dropped \cup e = heap.dropped
    OBVIOUS
  <1> HIDE DEF e
  <1>2. /\ Heaped(heap') /\ heap'.dropped = heap.dropped \cup e
        /\ heap'.live = heap.live \ Ids(S)
    BY <1>1, FreesThese, SMTT(30)
  <1> QED BY <1>1, <1>2

\* What the loader releases early is the text.
LEMMA Unloads ==
  ASSUME NEW kind, NEW list
  PROVE  Unload(kind, list) \subseteq ToSet(list) /\ \A s \in Unload(kind, list) : s.type = Text
  BY DEF Unload

\* An installation that fails releases every section; one that succeeds hands
\* over to the application those that it did not release.
LEMMA Installs ==
  ASSUME Heaped(heap), NEW name, NEW file, NEW step \in Steps,
         wasm_app_module_install(name, file, step),
         List(file.sections), Apart(ToSet(file.sections)),
         Ids(ToSet(file.sections)) \subseteq heap.live
  PROVE  /\ Heaped(heap') /\ heap'.dropped = heap.dropped
         /\ \/ /\ heap'.live = heap.live \ Ids(ToSet(file.sections))
               /\ UNCHANGED apps
               /\ heap'.wild \/ UNCHANGED <<module_data_list, serial>>
            \/ \E list :
                 /\ Ids(ToSet(list)) \subseteq Ids(ToSet(file.sections))
                 /\ heap'.live = heap.live \ (Ids(ToSet(file.sections)) \ Ids(ToSet(list)))
                 /\ apps' = [x \in DOMAIN apps \cup {serial} |->
                               IF x = serial THEN [kind |-> file.kind, sections |-> list] ELSE apps[x]]
                 /\ module_data_list_add(name)
  <1> DEFINE all == ToSet(file.sections)
             loaded == destroy_part_sections(file.sections, AfterLoad(file.kind))
             made == destroy_part_sections(loaded.list, AfterInstance(file.kind))
             un == Unload(file.kind, file.sections)
             un1 == Unload(file.kind, loaded.list)
             un2 == Unload(file.kind, made.list)
             L == ToSet(loaded.list)
             M == ToSet(made.list)
             f1 == loaded.freed
             f2 == made.freed
             new == [x \in DOMAIN apps \cup {serial} |->
                       IF x = serial THEN [kind |-> file.kind, sections |-> made.list] ELSE apps[x]]
  <1>1. /\ step = "load" => Freed(<<all>>) /\ UNCHANGED <<apps, registry>>
        /\ step = "text" => Freed(<<un, all>>) /\ UNCHANGED <<apps, registry>>
        /\ step = "instance" => Freed(<<f1, un1, L>>) /\ UNCHANGED <<apps, registry>>
        /\ step \in {"late", "timers", "thread"} =>
             /\ Released(<<f1, f2, un2, M>>, {}, step = "timers") /\ Listed(name, step)
             /\ UNCHANGED apps
        /\ step = "done" => Freed(<<f1, f2>>) /\ apps' = new /\ module_data_list_add(name)
    BY DEF wasm_app_module_install
  <1>14. ASSUME UNCHANGED registry PROVE UNCHANGED <<module_data_list, serial>>
    BY <1>14 DEF registry
  <1>2. List(loaded.list) /\ f1 \subseteq all /\ L = all \ f1
    BY Parts
  <1>3. f2 \subseteq L /\ M = L \ f2
    <2> HIDE DEF loaded
    <2> QED BY <1>2, Parts
  <1>4. /\ un \subseteq all /\ (\A s \in un : s.type = Text)
        /\ un1 \subseteq L /\ (\A s \in un1 : s.type = Text)
        /\ un2 \subseteq M /\ (\A s \in un2 : s.type = Text)
    BY Unloads
  <1>5. Ids(all) \subseteq heap.live /\ Apart(all)
    OBVIOUS
  <1>6. ToSet(made.list) = M
    OBVIOUS
  <1>7. ToSet(file.sections) = all
    OBVIOUS
  <1> HIDE DEF all, un, un1, un2, L, M, f1, f2
  <1>8. CASE step = "load"
    <2> DEFINE g == <<all>>
    <2>1. g[1] = all /\ \A k \in 1..1 : k = 1
      OBVIOUS
    <2>7. DOMAIN g = 1..1 /\ Len(g) = 1
      OBVIOUS
    <2>2. PICK w : Released(g, {}, w)
      BY <1>1, <1>8 DEF Freed
    <2> HIDE DEF g
    <2>4. \A k \in 1..1 : g[k] \subseteq all
      BY <2>1
    <2>5. \A s \in all : \E k \in 1..1 : s \in g[k]
      BY <2>1
    <2>6. \A j, k \in 1..1 : j < k => \A s \in g[k], t \in g[j] : s.at = t.at => s.type = Text
      OBVIOUS
    <2>3. Heaped(heap') /\ heap'.dropped = heap.dropped /\ heap'.live = heap.live \ Ids(all)
      BY <1>5, <2>2, <2>4, <2>5, <2>6, <2>7, FreesAll
    <2> QED BY <1>1, <1>7, <1>8, <1>14, <2>3
  <1>9. CASE step = "text"
    <2> DEFINE g == <<un, all>>
    <2>1. g[1] = un /\ g[2] = all /\ \A k \in 1..2 : k = 1 \/ k = 2
      OBVIOUS
    <2>7. DOMAIN g = 1..2 /\ Len(g) = 2
      OBVIOUS
    <2>2. PICK w : Released(g, {}, w)
      BY <1>1, <1>9 DEF Freed
    <2>0. \A s \in all, t \in un : s.at = t.at => s.type = Text
      BY <1>4, <1>5 DEF Apart
    <2> HIDE DEF g
    <2>3. \A k \in 1..2 : g[k] \subseteq all
      BY <1>4, <2>1
    <2>4. \A s \in all : \E k \in 1..2 : s \in g[k]
      BY <2>1
    <2>5. \A j, k \in 1..2 : j < k => \A s \in g[k], t \in g[j] : s.at = t.at => s.type = Text
      BY <2>0, <2>1
    <2>6. Heaped(heap') /\ heap'.dropped = heap.dropped /\ heap'.live = heap.live \ Ids(all)
      BY <1>5, <2>7, <2>2, <2>3, <2>4, <2>5, FreesAll
    <2> QED BY <1>1, <1>7, <1>9, <1>14, <2>6
  <1>10. CASE step = "instance"
    <2> DEFINE g == <<f1, un1, L>>
    <2>1. /\ DOMAIN g = 1..3 /\ Len(g) = 3 /\ g[1] = f1 /\ g[2] = un1 /\ g[3] = L
          /\ \A k \in 1..3 : k = 1 \/ k = 2 \/ k = 3
      OBVIOUS
    <2>2. PICK w : Released(g, {}, w)
      BY <1>1, <1>10 DEF Freed
    <2>0. /\ \A s \in L, t \in f1 : s.at # t.at
          /\ \A s \in L, t \in un1 : s.at = t.at => s.type = Text
      BY <1>2, <1>4, <1>5 DEF Apart
    <2> HIDE DEF g
    <2>3. \A k \in 1..3 : g[k] \subseteq all
      BY <1>2, <1>4, <2>1
    <2>4. \A s \in all : \E k \in 1..3 : s \in g[k]
      BY <1>2, <2>1
    <2>5. \A j, k \in 1..3 : j < k => \A s \in g[k], t \in g[j] : s.at = t.at => s.type = Text
      BY <1>4, <2>0, <2>1
    <2>6. Heaped(heap') /\ heap'.dropped = heap.dropped /\ heap'.live = heap.live \ Ids(all)
      BY <1>5, <2>1, <2>2, <2>3, <2>4, <2>5, FreesAll
    <2> QED BY <1>1, <1>7, <1>10, <1>14, <2>6
  <1>11. CASE step \in {"late", "timers", "thread"}
    <2> DEFINE g == <<f1, f2, un2, M>>
    <2>1. /\ DOMAIN g = 1..4 /\ Len(g) = 4 /\ g[1] = f1 /\ g[2] = f2 /\ g[3] = un2 /\ g[4] = M
          /\ \A k \in 1..4 : k = 1 \/ k = 2 \/ k = 3 \/ k = 4
      OBVIOUS
    <2>2. PICK w : Released(g, {}, w) /\ w = (step = "timers")
      BY <1>1, <1>11
    <2>0. /\ \A s \in L, t \in f1 : s.at # t.at
          /\ \A s \in M, t \in f2 : s.at # t.at
          /\ \A s \in M, t \in un2 : s.at = t.at => s.type = Text
      BY <1>2, <1>3, <1>4, <1>5 DEF Apart
    <2> HIDE DEF g
    <2>3. \A k \in 1..4 : g[k] \subseteq all
      BY <1>2, <1>3, <1>4, <2>1
    <2>4. \A s \in all : \E k \in 1..4 : s \in g[k]
      BY <1>2, <1>3, <2>1
    <2>5. \A j, k \in 1..4 : j < k => \A s \in g[k], t \in g[j] : s.at = t.at => s.type = Text
      BY <1>3, <1>4, <2>0, <2>1
    <2>6. Heaped(heap') /\ heap'.dropped = heap.dropped /\ heap'.live = heap.live \ Ids(all)
      BY <1>5, <2>1, <2>2, <2>3, <2>4, <2>5, FreesAll
    <2>7. heap'.wild \/ UNCHANGED <<module_data_list, serial>>
      <3>1. CASE step = "timers"
        <4>1. heap'.wild = w
          BY <2>2 DEF Released
        <4> QED BY <2>2, <3>1, <4>1
      <3>2. CASE step # "timers"
        <4>1. Listed(name, step)
          BY <1>1, <1>11
        <4> QED BY <1>11, <1>14, <3>2, <4>1 DEF Listed, AddedInVain
      <3> QED BY <3>1, <3>2
    <2> QED BY <1>1, <1>7, <1>11, <2>6, <2>7
  <1>12. CASE step = "done"
    <2> DEFINE g == <<f1, f2>>
               S == f1 \cup f2
    <2>1. DOMAIN g = 1..2 /\ Len(g) = 2 /\ g[1] = f1 /\ g[2] = f2 /\ \A k \in 1..2 : k = 1 \/ k = 2
      OBVIOUS
    <2>2. PICK w : Released(g, {}, w)
      BY <1>1, <1>12 DEF Freed
    <2>0. \A s \in f2, t \in f1 : s.at # t.at
      BY <1>2, <1>3, <1>5 DEF Apart
    <2>7. S \subseteq all /\ M = all \ S
      BY <1>2, <1>3
    <2> HIDE DEF g
    <2>3. \A k \in 1..2 : g[k] \subseteq S
      BY <2>1
    <2>4. \A s \in S : \E k \in 1..2 : s \in g[k]
      BY <2>1
    <2>5. \A j, k \in 1..2 : j < k => \A s \in g[k], t \in g[j] : s.at = t.at => s.type = Text
      BY <2>0, <2>1
    <2> HIDE DEF S
    <2>8. Ids(M) = Ids(all) \ Ids(S) /\ Ids(S) \subseteq Ids(all)
      BY <1>5, <2>7, IdsApart
    <2>6. Heaped(heap') /\ heap'.dropped = heap.dropped /\ heap'.live = heap.live \ Ids(S)
      BY <1>5, <2>1, <2>2, <2>3, <2>4, <2>5, <2>8, FreesAll
    <2>9. Ids(S) = Ids(all) \ Ids(M)
      BY <2>8
    <2> DEFINE list == made.list
    <2>10. apps' = [x \in DOMAIN apps \cup {serial} |->
                      IF x = serial THEN [kind |-> file.kind, sections |-> list] ELSE apps[x]]
      BY <1>1, <1>12
    <2>11. module_data_list_add(name) /\ ToSet(list) = M
      BY <1>1, <1>6, <1>12
    <2> HIDE DEF list
    <2>12. /\ Ids(ToSet(list)) \subseteq Ids(ToSet(file.sections))
           /\ heap'.live = heap.live \ (Ids(ToSet(file.sections)) \ Ids(ToSet(list)))
      BY <1>7, <2>6, <2>8, <2>9, <2>11
    <2> QED BY <2>6, <2>10, <2>11, <2>12
  <1> QED BY <1>8, <1>9, <1>10, <1>11, <1>12 DEF Steps

-----------------------------------------------------------------------------
(* One owner for each section.                                             *)

QueueHolds(q) == [i \in DOMAIN q |-> Parcel(q[i])]
AppsHold(a) == [x \in DOMAIN a |-> Ids(ToSet(a[x].sections))]

Bundle(r) == "file" \in DOMAIN r => List(r.file.sections) /\ Apart(ToSet(r.file.sections))
Queued(q) == List(q) /\ \A i \in DOMAIN q : Bundle(q[i])

\* Applications have serials that were given out, and a module that is listed is one.
Installed(a, list, ser) ==
  /\ ser \in Nat /\ \A x \in DOMAIN a : x \in Nat /\ x < ser
  /\ List(list) /\ \A k \in DOMAIN list : list[k].serial \in DOMAIN a

\* Headers of sections that are held were received before what comes next.
Past(live, number, at) ==
  \A p \in live : p \in Spots /\ (p[1] < number \/ (p[1] = number /\ p[2] < at))

Spread(s) == \A i, j \in 1..Len(s) : s[i].at = s[j].at => i = j

\* The inductive invariant of SectionsOwned: what it says, with places that are not
\* used twice, which makes a new section unlike the others.  A module that is freed
\* and still listed is no application, and the end of what is claimed.
HeapInv ==
  /\ Heaped(heap) /\ Queued(queue) /\ Spread(recv.sections)
  /\ heap.wild \/ Installed(apps, module_data_list, serial)
  /\ Past(heap.live, wire.number, wire.at)
  /\ Own(Ids(ToSet(recv.sections)), QueueHolds(queue), AppsHold(apps), heap.live, heap.dropped)

\* The places of the sections of a list.
LEMMA SpotIds ==
  ASSUME NEW X, NEW s \in Seq(X), NEW p
  PROVE  p \in Ids(ToSet(s)) <=> \E i \in 1..Len(s) : p = s[i].at
  <1>1. DOMAIN s = 1..Len(s)
    OBVIOUS
  <1> QED BY <1>1 DEF Ids, ToSet

\* Lists with the same places hold the same sections.
LEMMA SameIds ==
  ASSUME NEW X, NEW s \in Seq(X), NEW t \in Seq(X), SameSpots(t, s), Spread(s)
  PROVE  Ids(ToSet(t)) = Ids(ToSet(s)) /\ Spread(t)
  <1>1. \A p : p \in Ids(ToSet(t)) <=> \E i \in 1..Len(t) : p = t[i].at
    BY SpotIds
  <1>2. \A p : p \in Ids(ToSet(s)) <=> \E i \in 1..Len(s) : p = s[i].at
    BY SpotIds
  <1> DEFINE T == Ids(ToSet(t))
             S == Ids(ToSet(s))
  <1> HIDE DEF T, S
  <1>3. \A p : p \in T <=> p \in S
    BY <1>1, <1>2 DEF SameSpots, T, S
  <1>4. T = S
    BY <1>3
  <1> QED BY <1>4 DEF SameSpots, Spread, T, S

\* A list with one place more holds one section more.
LEMMA MoreIds ==
  ASSUME NEW X, NEW s \in Seq(X), NEW t \in Seq(X), NEW place, OneMore(t, s, place), Spread(s),
         place \notin Ids(ToSet(s))
  PROVE  Ids(ToSet(t)) = Ids(ToSet(s)) \cup {place} /\ Spread(t)
  <1> DEFINE T == Ids(ToSet(t))
             S == Ids(ToSet(s))
             k == Len(s) + 1
  <1>1. \A p : p \in T <=> \E i \in 1..Len(t) : p = t[i].at
    BY SpotIds
  <1>2. \A p : p \in S <=> \E i \in 1..Len(s) : p = s[i].at
    BY SpotIds
  <1>3. /\ Len(t) = k /\ t[k].at = place /\ (\A i \in 1..Len(s) : t[i].at = s[i].at)
        /\ k \in 1..k /\ (\A i \in 1..k : i \in 1..Len(s) \/ i = k) /\ (\A i \in 1..Len(s) : i \in 1..k)
    BY DEF OneMore
  <1>4. place \notin S
    OBVIOUS
  <1> HIDE DEF T, S, k
  <1>5. \A p : p \in T <=> p \in S \/ p = place
    BY <1>1, <1>2, <1>3
  <1>6. T = S \cup {place}
    BY <1>5
  <1>7. ASSUME NEW i \in 1..k, NEW j \in 1..k, t[i].at = t[j].at PROVE i = j
    BY <1>2, <1>3, <1>4, <1>7 DEF Spread
  <1> QED BY <1>3, <1>6, <1>7 DEF T, S, Spread

\* The sections of a list without repetition are apart.
LEMMA SpreadApart ==
  ASSUME NEW X, NEW s \in Seq(X), Spread(s)
  PROVE  List(s) /\ Apart(ToSet(s))
  <1>1. DOMAIN s = 1..Len(s)
    OBVIOUS
  <1>2. \A x \in ToSet(s) : \E i \in 1..Len(s) : x = s[i]
    BY <1>1 DEF ToSet
  <1>3. Apart(ToSet(s))
    BY <1>2 DEF Apart, Spread
  <1> QED BY <1>3, SeqList

\* A request at the end of the queue.
LEMMA Enqueues ==
  ASSUME NEW q, Queued(q), NEW e, Bundle(e)
  PROVE  \E t : /\ t = Append(q, e) /\ Queued(t) /\ Len(q) \in Nat /\ DOMAIN q = 1..Len(q)
                /\ DOMAIN t = 1..Len(q) + 1 /\ t[Len(q) + 1] = e
                /\ \A i \in 1..Len(q) : t[i] = q[i]
  <1> DEFINE S == ToSet(q) \cup {e}
             t == Append(q, e)
             n == Len(q)
  <1>1. q \in Seq(ToSet(q)) /\ n \in Nat /\ DOMAIN q = 1..n
    BY ListSeq DEF Queued
  <1>2. q \in Seq(S) /\ e \in S
    BY <1>1
  <1>3. /\ t \in Seq(S) /\ DOMAIN t = 1..n + 1 /\ t[n + 1] = e
        /\ \A i \in 1..n : t[i] = q[i]
    BY <1>2
  <1>4. List(t)
    BY <1>3, SeqList
  <1> HIDE DEF t
  <1>5. \A i \in 1..n + 1 : i \in 1..n \/ i = n + 1
    BY <1>1
  <1>6. \A i \in DOMAIN t : Bundle(t[i])
    BY <1>1, <1>3, <1>5 DEF Queued
  <1>7. Queued(t)
    BY <1>4, <1>6 DEF Queued
  <1> QED BY <1>1, <1>3, <1>7 DEF t

\* A request takes the receiver's sections into the queue, or none.
LEMMA EnqueueOwned ==
  ASSUME NEW R, NEW A, NEW live, NEW dropped, Own(R, QueueHolds(queue), A, live, dropped),
         Queued(queue), NEW e, Bundle(e), queue' = Append(queue, e), NEW S,
         Parcel(e) = R \/ Parcel(e) = {}, S = R \ Parcel(e)
  PROVE  Queued(queue') /\ Own(S, QueueHolds(queue'), A, live, dropped)
  <1>1. PICK t : /\ t = Append(queue, e) /\ Queued(t) /\ Len(queue) \in Nat
                 /\ DOMAIN queue = 1..Len(queue)
                 /\ DOMAIN t = 1..Len(queue) + 1 /\ t[Len(queue) + 1] = e
                 /\ \A i \in 1..Len(queue) : t[i] = queue[i]
    BY Enqueues
  <1>2. queue' = t
    BY <1>1
  <1> DEFINE n == Len(queue)
             Q == QueueHolds(queue)
             P == QueueHolds(t)
  <1>3. DOMAIN Q = 1..n /\ (\A i \in 1..n : Q[i] = Parcel(queue[i]))
    BY <1>1 DEF QueueHolds
  <1>4. DOMAIN P = 1..n + 1 /\ (\A i \in 1..n + 1 : P[i] = Parcel(t[i]))
    BY <1>1 DEF QueueHolds
  <1>5. n + 1 \in 1..n + 1 /\ \A i \in 1..n : i \in 1..n + 1
    BY <1>1
  <1>6. P[n + 1] = Parcel(e) /\ \A i \in 1..n : P[i] = Q[i]
    BY <1>1, <1>3, <1>4, <1>5
  <1>7. n \in Nat /\ Own(R, Q, A, live, dropped)
    BY <1>1
  <1> HIDE DEF P, Q, n
  <1>8. Own(S, P, A, live, dropped)
    BY <1>3, <1>4, <1>6, <1>7, OwnPost
  <1> QED BY <1>1, <1>2, <1>8 DEF P

\* The queue without its first request.
LEMMA Dequeues ==
  ASSUME Queued(queue), queue # <<>>, queue' = Tail(queue)
  PROVE  /\ Queued(queue') /\ Len(queue) \in Nat /\ Len(queue) > 0 /\ Head(queue) = queue[1]
         /\ Bundle(queue[1])
         /\ DOMAIN QueueHolds(queue) = 1..Len(queue)
         /\ DOMAIN QueueHolds(queue') = 1..Len(queue) - 1
         /\ QueueHolds(queue)[1] = Parcel(queue[1])
         /\ \A i \in 1..Len(queue) - 1 : QueueHolds(queue')[i] = QueueHolds(queue)[i + 1]
  <1> DEFINE S == ToSet(queue)
             n == Len(queue)
             t == Tail(queue)
  <1>1. queue \in Seq(S) /\ n \in Nat /\ DOMAIN queue = 1..n
    BY ListSeq DEF Queued
  <1>2. n > 0
    BY <1>1
  <1>3. /\ t \in Seq(S) /\ DOMAIN t = 1..n - 1 /\ Head(queue) = queue[1]
        /\ \A i \in 1..n - 1 : t[i] = queue[i + 1]
    BY <1>1, <1>2
  <1>4. List(t)
    BY <1>3, SeqList
  <1>5. queue' = t
    OBVIOUS
  <1> HIDE DEF t
  <1>6. 1 \in DOMAIN queue /\ \A i \in 1..n - 1 : i + 1 \in DOMAIN queue
    BY <1>1, <1>2
  <1>7. \A i \in DOMAIN t : Bundle(t[i])
    BY <1>3, <1>6 DEF Queued
  <1>8. \A i \in 1..n - 1 : QueueHolds(t)[i] = QueueHolds(queue)[i + 1]
    BY <1>3, <1>6 DEF QueueHolds
  <1>9. /\ DOMAIN QueueHolds(queue) = 1..n /\ DOMAIN QueueHolds(t) = 1..n - 1
        /\ QueueHolds(queue)[1] = Parcel(queue[1])
    BY <1>1, <1>3, <1>6 DEF QueueHolds
  <1> QED BY <1>1, <1>2, <1>3, <1>4, <1>5, <1>6, <1>7, <1>8, <1>9 DEF Queued

\* What is allocated is before the next byte, and before all later ones.
LEMMA PastLater ==
  ASSUME NEW live, NEW n \in Nat, NEW k \in Nat, Past(live, n, k)
  PROVE  /\ Past(live, n + 1, 0) /\ Past(live, n, k + 1) /\ <<n, k>> \notin live
         /\ Past(live \cup {<<n, k>>}, n, k + 1)
  <1>1. \A p \in live : /\ p \in Spots /\ p[1] \in Nat /\ p[2] \in Nat
                        /\ (p[1] < n \/ (p[1] = n /\ p[2] < k))
    BY DEF Past, Spots
  <1>2. Past(live, n + 1, 0)
    BY <1>1 DEF Past
  <1>3. Past(live, n, k + 1)
    BY <1>1 DEF Past
  <1> DEFINE z == <<n, k>>
  <1>4. z \in Spots /\ z[1] = n /\ z[2] = k
    BY DEF Spots
  <1> HIDE DEF z
  <1>5. z \notin live
    BY <1>1, <1>4
  <1>6. Past(live \cup {z}, n, k + 1)
    BY <1>1, <1>4 DEF Past
  <1> QED BY <1>2, <1>3, <1>5, <1>6 DEF z

\* A byte of a package: the section that it begins is the receiver's, and those of
\* a package that is complete go with the request to the queue.
LEMMA OwnedPackage ==
  ASSUME HeapInv, ~heap.wild, ReceiverInv, LinkInv, WireInv, ~Idle, NEW memory, Phase_Install(memory)
  PROVE  HeapInv'
  <1> DEFINE s == recv.sections
             R == Ids(ToSet(s))
             Q == QueueHolds(queue)
             A == AppsHold(apps)
  <1>1. PICK r : /\ Yields(r, recv, Place) /\ recv' = r.ctx
                 /\ queue' = queue \o [i \in DOMAIN r.post |->
                                 [action |-> r.post[i].action, url |-> r.post[i].url, file |-> r.post[i]]]
                 /\ heap' = [heap EXCEPT !.live = @ \cup Ids(ToSet(r.ctx.sections))
                               \cup UNION {Ids(ToSet(p.sections)) : p \in ToSet(r.post)}]
    BY GetsPackage
  <1>2. UNCHANGED <<apps, module_data_list, serial, theme>>
    BY DEF Phase_Install, Stays, registry
  <1>3. \E done, failed : Arrives(done, failed)
    BY DEF Phase_Install
  <1>4. wire'.at = wire.at + 1 /\ wire'.number = wire.number
    BY <1>2, <1>3, ArrivesOne
  <1>5. wire.at \in Nat /\ wire.number \in Nat
    BY ByteIsOctet DEF WireInv
  <1> DEFINE z == <<wire.number, wire.at>>
  <1>6. Place = z
    BY DEF Place
  <1>7. /\ Past(heap.live, wire.number, wire.at + 1) /\ z \notin heap.live
        /\ Past(heap.live \cup {z}, wire.number, wire.at + 1)
    BY <1>5, PastLater DEF HeapInv
  <1>8. /\ s \in Seq(Section) /\ Spread(s) /\ Own(R, Q, A, heap.live, heap.dropped)
        /\ Queued(queue) /\ Heaped(heap) /\ Installed(apps, module_data_list, serial)
    BY DEF HeapInv, ReceiverInv, Receiver
  <1>9. recv'.sections = r.ctx.sections /\ r.ctx.sections \in Seq(Section)
    BY <1>1 DEF Yields, Receiver
  <1>10. R \subseteq heap.live
    BY <1>8 DEF Own
  <1> DEFINE N == heap.live \cup Ids(ToSet(r.ctx.sections))
                    \cup UNION {Ids(ToSet(p.sections)) : p \in ToSet(r.post)}
  <1>11. Heaped(heap') /\ heap'.live = N /\ heap'.dropped = heap.dropped
    <2>1. heap' = [heap EXCEPT !.live = N]
      BY <1>1
    <2> HIDE DEF N
    <2>2. heap' = [live |-> N, twice |-> heap.twice, dropped |-> heap.dropped, wild |-> heap.wild]
      BY <2>1, <1>8 DEF Heaped
    <2>3. /\ heap'.live = N /\ heap'.twice = heap.twice /\ heap'.dropped = heap.dropped
          /\ heap'.wild = heap.wild
      BY <2>2
    <2> QED BY <2>2, <2>3, <1>8 DEF Heaped
  <1>12. ToSet(<<>>) = {}
    BY SerialsShort
  <1>13. ASSUME r.post = <<>>
         PROVE  queue' = queue /\ N = heap.live \cup Ids(ToSet(r.ctx.sections))
    <2>1. UNION {Ids(ToSet(p.sections)) : p \in ToSet(r.post)} = {}
      BY <1>12, <1>13
    <2>2. queue \in Seq(ToSet(queue))
      BY <1>8, ListSeq DEF Queued
    <2>3. [i \in DOMAIN r.post |-> [action |-> r.post[i].action, url |-> r.post[i].url, file |-> r.post[i]]] = <<>>
      BY <1>13
    <2>4. queue' = queue \o <<>>
      BY <1>1, <2>3
    <2>5. queue \o <<>> = queue
      BY <2>2
    <2> QED BY <2>1, <2>4, <2>5
  <1>14. CASE r.post = <<>> /\ SameSpots(r.ctx.sections, s)
    <2>1. Ids(ToSet(r.ctx.sections)) = R /\ Spread(r.ctx.sections)
      BY <1>8, <1>9, <1>14, SameIds
    <2>2. N = heap.live
      BY <1>10, <1>13, <1>14, <2>1
    <2> HIDE DEF N
    <2>3. Past(heap'.live, wire'.number, wire'.at)
      BY <1>4, <1>7, <1>11, <2>2
    <2>4. Own(Ids(ToSet(recv'.sections)), QueueHolds(queue'), AppsHold(apps'), heap'.live, heap'.dropped)
      BY <1>2, <1>8, <1>9, <1>11, <1>13, <1>14, <2>1, <2>2
    <2> QED BY <1>2, <1>8, <1>9, <1>11, <1>13, <1>14, <2>1, <2>3, <2>4 DEF HeapInv
  <1>15. CASE r.post = <<>> /\ OneMore(r.ctx.sections, s, Place)
    <2>0. OneMore(r.ctx.sections, s, z) /\ z \notin R
      BY <1>6, <1>7, <1>10, <1>15
    <2> HIDE DEF z
    <2>1. Ids(ToSet(r.ctx.sections)) = R \cup {z} /\ Spread(r.ctx.sections)
      BY <1>8, <1>9, <2>0, MoreIds
    <2>2. N = heap.live \cup {z}
      BY <1>10, <1>13, <1>15, <2>1
    <2> HIDE DEF N, Q, A, R
    <2>3. Past(heap'.live, wire'.number, wire'.at)
      BY <1>4, <1>7, <1>11, <2>2
    <2>4. Own(R \cup {z}, Q, A, heap.live \cup {z}, heap.dropped)
      BY <1>7, <1>8, OwnFresh
    <2>5. Own(Ids(ToSet(recv'.sections)), QueueHolds(queue'), AppsHold(apps'), heap'.live, heap'.dropped)
      BY <1>2, <1>9, <1>11, <1>13, <1>15, <2>1, <2>2, <2>4 DEF Q, A
    <2> QED BY <1>2, <1>8, <1>9, <1>11, <1>13, <1>15, <2>1, <2>3, <2>5 DEF HeapInv
  <1>16. CASE r.ctx.sections = <<>> /\ \E p : r.post = <<p>> /\ p.sections = s
    <2>1. PICK p : r.post = <<p>> /\ p.sections = s
      BY <1>16
    <2> DEFINE e == [action |-> p.action, url |-> p.url, file |-> p]
    <2>2. [i \in DOMAIN r.post |-> [action |-> r.post[i].action, url |-> r.post[i].url, file |-> r.post[i]]] = <<e>>
      BY <2>1
    <2>3. "file" \in DOMAIN e /\ e.file = p
      OBVIOUS
    <2> HIDE DEF e
    <2>4. e.file.sections = s
      BY <2>1, <2>3
    <2>5. Parcel(e) = R /\ Bundle(e)
      <3>1. List(s) /\ Apart(ToSet(s))
        BY <1>8, SpreadApart
      <3> QED BY <2>3, <2>4, <3>1 DEF Parcel, Bundle
    <2>6. queue' = Append(queue, e)
      <3>1. queue \in Seq(ToSet(queue))
        BY <1>8, ListSeq DEF Queued
      <3>2. queue \o <<e>> = Append(queue, e)
        BY <3>1
      <3> QED BY <1>1, <2>2, <3>2
    <2>7. Ids(ToSet(r.ctx.sections)) = {}
      BY <1>12, <1>16 DEF Ids
    <2>8. UNION {Ids(ToSet(x.sections)) : x \in ToSet(r.post)} = R
      <3>1. ToSet(r.post) = {p}
        BY <2>1, SerialsShort
      <3>2. UNION {Ids(ToSet(x.sections)) : x \in ToSet(r.post)} = Ids(ToSet(p.sections))
        BY <3>1
      <3> QED BY <2>1, <3>2
    <2>9. N = heap.live
      BY <1>10, <2>7, <2>8
    <2>10. Ids(ToSet(recv'.sections)) = {} /\ Spread(recv'.sections)
      <3>1. recv'.sections = <<>>
        BY <1>9, <1>16
      <3>2. Spread(<<>>)
        BY DEF Spread
      <3> QED BY <1>9, <2>7, <3>1, <3>2
    <2> HIDE DEF N, Q, A, R
    <2>11. Own(R, QueueHolds(queue), A, heap.live, heap.dropped)
      BY <1>8 DEF Q
    <2>12. Queued(queue') /\ Own({}, QueueHolds(queue'), A, heap.live, heap.dropped)
      <3>1. {} = R \ Parcel(e)
        BY <2>5
      <3> QED BY <1>8, <2>5, <2>6, <2>11, <3>1, EnqueueOwned
    <2>13. Past(heap'.live, wire'.number, wire'.at)
      BY <1>4, <1>7, <1>11, <2>9
    <2>14. Own(Ids(ToSet(recv'.sections)), QueueHolds(queue'), AppsHold(apps'), heap'.live, heap'.dropped)
      BY <1>2, <1>11, <2>9, <2>10, <2>12 DEF A
    <2> QED BY <1>2, <1>8, <1>11, <2>10, <2>12, <2>13, <2>14 DEF HeapInv
  <1>17. \/ r.post = <<>> /\ SameSpots(r.ctx.sections, s)
         \/ r.post = <<>> /\ OneMore(r.ctx.sections, s, Place)
         \/ r.ctx.sections = <<>> /\ \E p : r.post = <<p>> /\ p.sections = s
    BY <1>1 DEF Yields
  <1> QED BY <1>14, <1>15, <1>16, <1>17

\* What is known of the heap stays, but for the claims.
LEMMA GoesWild ==
  ASSUME Heaped(heap), heap' = Wild
  PROVE  Heaped(heap') /\ heap'.live = heap.live /\ heap'.dropped = heap.dropped
  <1>1. heap' = [live |-> heap.live, twice |-> heap.twice, dropped |-> heap.dropped, wild |-> TRUE]
    BY DEF Wild, Heaped
  <1>2. /\ heap'.live = heap.live /\ heap'.twice = heap.twice /\ heap'.dropped = heap.dropped
        /\ heap'.wild = TRUE
    BY <1>1
  <1> QED BY <1>1, <1>2 DEF Heaped

\* A request that is complete has no sections with it.
LEMMA OwnedPayload ==
  ASSUME HeapInv, ~heap.wild, WireInv, ~Idle, Phase_Payload
  PROVE  HeapInv'
  <1>1. UNCHANGED <<recv, apps, theme>> /\ \E done, failed : Arrives(done, failed)
    BY DEF Phase_Payload
  <1>9. Heaped(heap') /\ heap'.live = heap.live /\ heap'.dropped = heap.dropped
    <2>1. heap' = heap \/ heap' = Wild
      BY DEF Phase_Payload
    <2> QED BY <2>1, GoesWild DEF HeapInv
  <1>2. wire'.at = wire.at + 1 /\ wire'.number = wire.number
    BY <1>1, ArrivesOne
  <1>3. wire.at \in Nat /\ wire.number \in Nat
    BY ByteIsOctet DEF WireInv
  <1>0. Past(heap.live, wire.number, wire.at + 1)
    BY <1>3, PastLater DEF HeapInv
  <1>4. Past(heap'.live, wire'.number, wire'.at)
    BY <1>0, <1>2, <1>9
  <1> DEFINE c == [link EXCEPT !.n = @ + 1, !.payload = Append(@, Byte)]
             d == unpack_request(c.payload)
  <1>5. /\ UNCHANGED <<module_data_list, serial>>
        /\ queue' = queue \/ queue' = Append(queue, d)
    <2>1. (UNCHANGED queue /\ UNCHANGED registry) \/ Routed(d)
      BY DEF Phase_Payload
    <2> HIDE DEF d
    <2> QED BY <2>1 DEF Routed, registry
  <1>6. "file" \notin DOMAIN d
    BY DEF unpack_request
  <1>7. Parcel(d) = {} /\ Bundle(d)
    BY <1>6 DEF Parcel, Bundle
  <1> HIDE DEF d
  <1> DEFINE R == Ids(ToSet(recv.sections))
             A == AppsHold(apps)
  <1>8. Queued(queue') /\ Own(R, QueueHolds(queue'), A, heap.live, heap.dropped)
    <2>1. Queued(queue) /\ Own(R, QueueHolds(queue), A, heap.live, heap.dropped)
      BY DEF HeapInv
    <2> HIDE DEF R, A
    <2>2. CASE queue' = queue
      BY <2>1, <2>2
    <2>3. CASE queue' = Append(queue, d)
      <3>1. R = R \ Parcel(d)
        BY <1>7
      <3> QED BY <1>7, <2>1, <2>3, <3>1, EnqueueOwned
    <2> QED BY <1>5, <2>2, <2>3
  <1>10. Own(Ids(ToSet(recv'.sections)), QueueHolds(queue'), AppsHold(apps'), heap'.live, heap'.dropped)
    BY <1>1, <1>8, <1>9
  <1>11. Spread(recv'.sections) /\ Installed(apps', module_data_list', serial')
    BY <1>1, <1>5 DEF HeapInv
  <1> QED BY <1>4, <1>8, <1>9, <1>10, <1>11 DEF HeapInv

\* Only the place of the next byte changes.
LEMMA OwnedAlike ==
  ASSUME HeapInv, UNCHANGED <<recv, queue, apps, heap, module_data_list, serial>>,
         Past(heap.live, wire'.number, wire'.at)
  PROVE  HeapInv'
  BY DEF HeapInv

\* A byte of a frame's head moves no section.
LEMMA OwnedByte ==
  ASSUME HeapInv, WireInv, ~Idle, NEW memory,
         Phase_Non_Start \/ Phase_Leading \/ Phase_Type \/ Phase_Size(memory)
  PROVE  HeapInv'
  <1>1. /\ UNCHANGED <<recv, queue, apps, heap, module_data_list, serial, theme>>
        /\ \E done, failed : Arrives(done, failed)
    BY DEF Phase_Non_Start, Phase_Leading, Phase_Type, Phase_Size, Keeps, Stays, registry
  <1>2. wire'.at = wire.at + 1 /\ wire'.number = wire.number
    BY <1>1, ArrivesOne
  <1>3. wire.at \in Nat /\ wire.number \in Nat
    BY ByteIsOctet DEF WireInv
  <1>0. Past(heap.live, wire.number, wire.at + 1)
    BY <1>3, PastLater DEF HeapInv
  <1>4. Past(heap.live, wire'.number, wire'.at)
    BY <1>0, <1>2
  <1> QED BY <1>1, <1>4, OwnedAlike

\* A new frame moves no section.
LEMMA OwnedSend ==
  ASSUME HeapInv, WireInv, NEW f, Send(f)
  PROVE  HeapInv'
  <1>1. /\ UNCHANGED <<recv, queue, apps, heap, module_data_list, serial>>
        /\ wire' = [frame |-> [bytes |-> Bytes(f), means |-> f.means], at |-> 0,
                    number |-> wire.number + 1, failed |-> FALSE, done |-> <<>>, clean |-> Fresh]
    BY DEF Send, registry
  <1>2. wire'.at = 0 /\ wire'.number = wire.number + 1
    BY <1>1
  <1>3. wire.at \in Nat /\ wire.number \in Nat
    BY DEF WireInv
  <1>0. Past(heap.live, wire.number + 1, 0)
    BY <1>3, PastLater DEF HeapInv
  <1>4. Past(heap.live, wire'.number, wire'.at)
    BY <1>0, <1>2
  <1> QED BY <1>1, <1>4, OwnedAlike

\* The calls of applications move no section.
LEMMA OwnedCalls ==
  ASSUME HeapInv, Calls
  PROVE  HeapInv'
  <1>1. UNCHANGED <<recv, queue, apps, heap, wire, module_data_list, serial>>
    BY DEF Calls, Call, wasm_register_resource, wasm_sub_event, wasm_post_request
  <1>2. Past(heap.live, wire'.number, wire'.at)
    BY <1>1 DEF HeapInv
  <1> QED BY <1>1, <1>2, OwnedAlike

\* A module more, and a module less.
LEMMA InstalledMore ==
  ASSUME NEW a, NEW list, NEW ser, Installed(a, list, ser), NEW m, m.serial = ser,
         NEW b, DOMAIN b = DOMAIN a \cup {ser}
  PROVE  Installed(b, <<m>> \o list, ser + 1)
  <1> DEFINE S == ToSet(list) \cup {m}
             n == Len(list)
             t == <<m>> \o list
  <1>1. list \in Seq(ToSet(list)) /\ n \in Nat /\ DOMAIN list = 1..n
    BY ListSeq DEF Installed
  <1>2. list \in Seq(S) /\ <<m>> \in Seq(S)
    BY <1>1
  <1>3. /\ t \in Seq(S) /\ DOMAIN t = 1..n + 1 /\ t[1] = m
        /\ \A k \in 2..n + 1 : t[k] = list[k - 1]
    BY <1>1, <1>2
  <1>4. List(t)
    BY <1>3, SeqList
  <1> HIDE DEF t
  <1>5. ASSUME NEW k \in DOMAIN t PROVE t[k].serial \in DOMAIN b
    <2>1. CASE k = 1
      BY <2>1, <1>3
    <2>2. CASE k # 1
      <3>1. k \in 2..n + 1 /\ k - 1 \in DOMAIN list
        BY <2>2, <1>1, <1>3
      <3>2. t[k] = list[k - 1]
        BY <3>1, <1>3
      <3> QED BY <3>1, <3>2 DEF Installed
    <2> QED BY <2>1, <2>2
  <1>6. ser + 1 \in Nat /\ \A x \in DOMAIN b : x \in Nat /\ x < ser + 1
    BY DEF Installed
  <1>7. Installed(b, t, ser + 1)
    BY <1>4, <1>5, <1>6 DEF Installed
  <1> QED BY <1>7 DEF t

\* The installed applications without the one that is removed.
LEMMA InstalledLess ==
  ASSUME NEW a, Installed(a, module_data_list, serial), NEW m, module_data_list_remove(m),
         NEW b, DOMAIN b = DOMAIN a \ {m.serial}
  PROVE  Installed(b, module_data_list', serial)
  <1> DEFINE list == module_data_list
             K == {i \in DOMAIN list : list[i].serial # m.serial}
             t == Keep(list, K)
  <1>1. module_data_list' = t
    BY DEF module_data_list_remove
  <1>2. PICK g : Kept(t, list, K, g)
    BY KeepKept DEF Installed
  <1> HIDE DEF t
  <1>3. \A k \in DOMAIN t : t[k].serial \in DOMAIN a /\ t[k].serial # m.serial
    BY <1>2 DEF Kept, Installed
  <1>4. Installed(b, t, serial)
    BY <1>2, <1>3 DEF Installed, Kept
  <1> QED BY <1>1, <1>4

\* Fewer sections are before the next byte, too.
LEMMA PastFewer ==
  ASSUME NEW live, NEW n, NEW k, Past(live, n, k), NEW fewer \in SUBSET live
  PROVE  Past(fewer, n, k)
  BY DEF Past

\* What a request brings, left behind.
LEMMA Leaves ==
  ASSUME Heaped(heap), NEW r,
         IF "file" \in DOMAIN r THEN Dropped(r.file.sections) ELSE UNCHANGED heap
  PROVE  Heaped(heap') /\ heap'.live = heap.live /\ heap'.dropped = heap.dropped \cup Parcel(r)
  <1> DEFINE F == Parcel(r)
             d == heap.dropped \cup F
  <1>1. CASE "file" \in DOMAIN r
    <2>1. F = Ids(ToSet(r.file.sections))
      BY <1>1 DEF Parcel
    <2> HIDE DEF F
    <2>2. heap' = [heap EXCEPT !.dropped = @ \cup F]
      BY <1>1, <2>1 DEF Dropped
    <2> HIDE DEF d
    <2>3. heap' = [live |-> heap.live, twice |-> heap.twice, dropped |-> d, wild |-> heap.wild]
      BY <2>2 DEF Heaped, d
    <2>4. /\ heap'.live = heap.live /\ heap'.twice = heap.twice /\ heap'.dropped = d
          /\ heap'.wild = heap.wild
      BY <2>3
    <2>5. heap'.dropped = heap.dropped \cup Parcel(r)
      BY <2>4 DEF d, F
    <2> QED BY <2>3, <2>4, <2>5 DEF Heaped
  <1>2. CASE "file" \notin DOMAIN r
    <2>1. F = {} /\ heap' = heap
      BY <1>2 DEF Parcel
    <2> QED BY <2>1
  <1> QED BY <1>1, <1>2

\* A request that does not install what it brings leaves it behind.
LEMMA OwnedDropped ==
  ASSUME HeapInv, ~heap.wild, queue # <<>>, queue' = Tail(queue),
         UNCHANGED <<wire, recv, apps, module_data_list, serial>>,
         Heaped(heap'), heap'.live = heap.live, heap'.dropped = heap.dropped \cup Parcel(Head(queue))
  PROVE  HeapInv'
  <1> DEFINE R == Ids(ToSet(recv.sections))
             Q == QueueHolds(queue)
             P == QueueHolds(queue')
             A == AppsHold(apps)
             n == Len(queue)
             F == Parcel(queue[1])
  <1>1. Queued(queue)
    BY DEF HeapInv
  <1>2. /\ Queued(queue') /\ n \in Nat /\ n > 0 /\ Head(queue) = queue[1]
        /\ DOMAIN Q = 1..n /\ DOMAIN P = 1..n - 1 /\ Q[1] = F
        /\ \A i \in 1..n - 1 : P[i] = Q[i + 1]
    BY <1>1, Dequeues
  <1>3. Heaped(heap') /\ heap'.live = heap.live /\ heap'.dropped = heap.dropped \cup F
    BY <1>2
  <1>4. Own(R, Q, A, heap.live, heap.dropped) /\ serial \notin DOMAIN A
    BY DEF HeapInv, Installed, AppsHold
  <1>5. F \subseteq heap.live
    BY <1>2, <1>4 DEF Own
  <1> HIDE DEF R, Q, P, A, F, n
  <1>6. Own(R, P, A, heap.live, heap.dropped \cup F)
    <2>1. Remains(heap.live, heap.live, Q[1], F, A, A, serial)
      BY <1>2 DEF Remains
    <2>2. Gains(A, A, serial, Q[1])
      BY <1>4 DEF Gains
    <2> QED BY <1>2, <1>4, <2>1, <2>2, OwnLeaves
  <1>7. Own(Ids(ToSet(recv'.sections)), QueueHolds(queue'), AppsHold(apps'), heap'.live, heap'.dropped)
    BY <1>3, <1>6 DEF R, P, A
  <1> QED BY <1>2, <1>3, <1>7 DEF HeapInv

\* The installed applications with a new one.
LEMMA AddsListed ==
  ASSUME NEW name, module_data_list_add(name), NEW a, Installed(a, module_data_list, serial),
         NEW b, DOMAIN b = DOMAIN a \cup {serial}
  PROVE  Installed(b, module_data_list', serial')
  <1> DEFINE id == IF module_id_max = IdLimit THEN 1 ELSE module_id_max
             m == [id |-> id, name |-> name, serial |-> serial]
  <1>1. module_data_list' = <<m>> \o module_data_list /\ serial' = serial + 1
    BY DEF module_data_list_add, NewId
  <1>2. m.serial = serial
    OBVIOUS
  <1> HIDE DEF m
  <1>3. Installed(b, <<m>> \o module_data_list, serial + 1)
    BY <1>2, InstalledMore
  <1> QED BY <1>1, <1>3

\* The manager installs an application.
LEMMA OwnedInstall ==
  ASSUME HeapInv, ~heap.wild, queue # <<>>, queue' = Tail(queue), UNCHANGED <<wire, recv>>,
         "file" \in DOMAIN Head(queue), NEW name, NEW step \in Steps,
         wasm_app_module_install(name, Head(queue).file, step)
  PROVE  HeapInv'
  <1> DEFINE R == Ids(ToSet(recv.sections))
             Q == QueueHolds(queue)
             P == QueueHolds(queue')
             A == AppsHold(apps)
             n == Len(queue)
             file == queue[1].file
             F == Ids(ToSet(file.sections))
  <1>1. Queued(queue)
    BY DEF HeapInv
  <1>2. /\ Queued(queue') /\ n \in Nat /\ n > 0 /\ Head(queue) = queue[1] /\ Bundle(queue[1])
        /\ DOMAIN Q = 1..n /\ DOMAIN P = 1..n - 1 /\ Q[1] = Parcel(queue[1])
        /\ \A i \in 1..n - 1 : P[i] = Q[i + 1]
    BY <1>1, Dequeues
  <1>3. Q[1] = F /\ List(file.sections) /\ Apart(ToSet(file.sections))
    BY <1>2 DEF Parcel, Bundle
  <1>4. Own(R, Q, A, heap.live, heap.dropped) /\ serial \notin DOMAIN A /\ DOMAIN A = DOMAIN apps
    BY DEF HeapInv, Installed, AppsHold
  <1>5. F \subseteq heap.live
    BY <1>2, <1>3, <1>4 DEF Own
  <1>6. wasm_app_module_install(name, file, step) /\ Heaped(heap)
    BY <1>2 DEF HeapInv
  <1>7. /\ Heaped(heap') /\ heap'.dropped = heap.dropped
        /\ \/ /\ heap'.live = heap.live \ F
              /\ UNCHANGED apps
              /\ heap'.wild \/ UNCHANGED <<module_data_list, serial>>
           \/ \E list :
                /\ Ids(ToSet(list)) \subseteq F
                /\ heap'.live = heap.live \ (F \ Ids(ToSet(list)))
                /\ apps' = [x \in DOMAIN apps \cup {serial} |->
                              IF x = serial THEN [kind |-> file.kind, sections |-> list] ELSE apps[x]]
                /\ module_data_list_add(name)
    BY <1>3, <1>5, <1>6, Installs
  <1>8. Past(heap'.live, wire'.number, wire'.at)
    <2>1. heap'.live \in SUBSET heap.live
      BY <1>7
    <2> QED BY <2>1, PastFewer DEF HeapInv
  <1>9. Spread(recv'.sections)
    BY DEF HeapInv
  <1> HIDE DEF R, Q, P, n, file, F
  <1>10. CASE /\ heap'.live = heap.live \ F /\ UNCHANGED apps
              /\ heap'.wild \/ UNCHANGED <<module_data_list, serial>>
    <2> HIDE DEF A
    <2>1. Own(R, P, A, heap.live \ F, heap.dropped \cup {})
      <3>1. Remains(heap.live \ F, heap.live, Q[1], {}, A, A, serial)
        BY <1>3 DEF Remains
      <3>2. Gains(A, A, serial, Q[1])
        BY <1>4 DEF Gains
      <3> QED BY <1>2, <1>4, <3>1, <3>2, OwnLeaves
    <2>2. heap.dropped \cup {} = heap.dropped
      OBVIOUS
    <2>3. Own(Ids(ToSet(recv'.sections)), QueueHolds(queue'), AppsHold(apps'), heap'.live, heap'.dropped)
      BY <1>7, <1>10, <2>1, <2>2 DEF R, P, A
    <2>4. heap'.wild \/ Installed(apps', module_data_list', serial')
      BY <1>10 DEF HeapInv
    <2> QED BY <1>2, <1>7, <1>8, <1>9, <2>3, <2>4 DEF HeapInv
  <1>11. ASSUME NEW list,
                Ids(ToSet(list)) \subseteq F,
                heap'.live = heap.live \ (F \ Ids(ToSet(list))),
                apps' = [x \in DOMAIN apps \cup {serial} |->
                           IF x = serial THEN [kind |-> file.kind, sections |-> list] ELSE apps[x]],
                module_data_list_add(name)
         PROVE  HeapInv'
    <2> DEFINE B == AppsHold(apps')
               L == Ids(ToSet(list))
    <2>1. DOMAIN apps' = DOMAIN apps \cup {serial}
      BY <1>11
    <2>2. apps'[serial].sections = list
      <3>1. apps'[serial] = [kind |-> file.kind, sections |-> list]
        BY <1>11
      <3> QED BY <3>1
    <2>3. \A x \in DOMAIN apps : apps'[x] = apps[x]
      BY <1>4, <1>11
    <2>4. /\ DOMAIN B = DOMAIN A \cup {serial} /\ B[serial] = L
          /\ \A x \in DOMAIN A : B[x] = A[x]
      BY <2>1, <2>2, <2>3 DEF AppsHold
    <2>5. Installed(apps', module_data_list', serial')
      <3>1. Installed(apps, module_data_list, serial)
        BY DEF HeapInv
      <3> DEFINE b == apps'
      <3>2. DOMAIN b = DOMAIN apps \cup {serial}
        BY <2>1
      <3> HIDE DEF b
      <3>3. Installed(b, module_data_list', serial')
        BY <1>11, <3>1, <3>2, AddsListed
      <3> QED BY <3>3 DEF b
    <2> HIDE DEF A, B
    <2>6. B # A
      BY <1>4, <2>4
    <2>7. L \subseteq F
      BY <1>11
    <2> HIDE DEF L
    <2>8. Own(R, P, B, heap.live \ (F \ L), heap.dropped \cup {})
      <3>1. Remains(heap.live \ (F \ L), heap.live, Q[1], {}, B, A, serial)
        BY <1>3, <2>4, <2>6 DEF Remains
      <3>2. Gains(B, A, serial, Q[1])
        BY <1>3, <1>4, <2>4, <2>7 DEF Gains
      <3> QED BY <1>2, <1>4, <3>1, <3>2, OwnLeaves
    <2>9. heap.dropped \cup {} = heap.dropped /\ heap'.live = heap.live \ (F \ L)
      BY <1>11 DEF L
    <2>10. Own(Ids(ToSet(recv'.sections)), QueueHolds(queue'), AppsHold(apps'), heap'.live, heap'.dropped)
      BY <1>7, <2>8, <2>9 DEF R, P, B
    <2> QED BY <1>2, <1>7, <1>8, <1>9, <2>5, <2>10 DEF HeapInv
  <1> QED BY <1>7, <1>10, <1>11

\* The manager removes an application, and leaves what the request brings.
LEMMA OwnedUninstall ==
  ASSUME HeapInv, ~heap.wild, queue # <<>>, queue' = Tail(queue), UNCHANGED <<wire, recv>>,
         NEW name, wasm_app_module_uninstall(name, Parcel(Head(queue)))
  PROVE  HeapInv'
  <1> DEFINE m == module_data_list_lookup(name)
             F == Parcel(Head(queue))
  <1>1. CASE m = <<>>
    <2>1. UNCHANGED <<apps, registry>> /\ \E w : Released(<<>>, F, w)
      BY <1>1 DEF wasm_app_module_uninstall
    <2>2. UNCHANGED <<wire, recv, apps, module_data_list, serial>>
      BY <2>1 DEF registry
    <2>3. PICK w : Released(<<>>, F, w)
      BY <2>1
    <2> HIDE DEF F
    <2>4. Heaped(heap') /\ heap'.live = heap.live /\ heap'.dropped = heap.dropped \cup F
      <3> DEFINE g == <<>>
                 S == {}
                 n == 0
      <3>1. n \in Nat /\ DOMAIN g = 1..n /\ Len(g) = n /\ Released(g, F, w) /\ \A k : k \notin 1..n
        BY <2>3
      <3>2. /\ Heaped(heap) /\ Ids(S) \subseteq heap.live /\ heap.live \ Ids(S) = heap.live
            /\ \A s : s \notin S
        BY DEF HeapInv, Ids
      <3> HIDE DEF g, S, n
      <3>3. Heaped(heap') /\ heap'.dropped = heap.dropped \cup F /\ heap'.live = heap.live \ Ids(S)
        BY <3>1, <3>2, FreesThese
      <3> QED BY <3>2, <3>3
    <2> QED BY <2>2, <2>4, OwnedDropped DEF F
  <1>2. CASE m # <<>>
    <2>0. List(module_data_list)
      BY DEF HeapInv, Installed
    <2>1. PICK k \in DOMAIN module_data_list : m = <<module_data_list[k]>>
      BY <1>2, <2>0, LookupName
    <2> DEFINE z == m[1].serial
               a == apps[z]
               S == ToSet(a.sections)
               U == Unload(a.kind, a.sections)
    <2>2. z \in DOMAIN apps
      BY <2>1 DEF HeapInv, Installed
    <2>3. /\ \E w : Released(<<S, U>>, F, w)
          /\ apps' = [x \in DOMAIN apps \ {z} |-> apps[x]]
          /\ Cleanup(m[1])
      BY <1>2 DEF wasm_app_module_uninstall
    <2>4. serial' = serial /\ module_data_list_remove(m[1])
      BY <2>3 DEF Cleanup
    <2> DEFINE R == Ids(ToSet(recv.sections))
               Q == QueueHolds(queue)
               P == QueueHolds(queue')
               A == AppsHold(apps)
               B == AppsHold(apps')
               n == Len(queue)
    <2>5. Own(R, Q, A, heap.live, heap.dropped) /\ DOMAIN A = DOMAIN apps /\ A[z] = Ids(S)
      BY <2>2 DEF HeapInv, AppsHold
    <2>6. Ids(S) \subseteq heap.live
      BY <2>2, <2>5 DEF Own
    <2>7. U \subseteq S /\ \A s \in U : s.type = Text
      BY Unloads
    <2>8. Heaped(heap)
      BY DEF HeapInv
    <2> HIDE DEF z, S, U, F
    <2>9. Heaped(heap') /\ heap'.dropped = heap.dropped \cup F /\ heap'.live = heap.live \ Ids(S)
      <3> DEFINE g == <<S, U>>
      <3>1. g[1] = S /\ g[2] = U /\ \A j \in 1..2 : j = 1 \/ j = 2
        OBVIOUS
      <3>6. PICK w : Released(g, F, w)
        BY <2>3
      <3>2. DOMAIN g = 1..2 /\ Len(g) = 2
        OBVIOUS
      <3> HIDE DEF g
      <3>3. \A j \in 1..2 : g[j] \subseteq S
        BY <2>7, <3>1
      <3>4. \A s \in S : \E j \in 1..2 : s \in g[j]
        BY <3>1
      <3>5. \A i, j \in 1..2 : i < j => \A s \in g[j], t \in g[i] : s.at = t.at => s.type = Text
        BY <2>7, <3>1
      <3> QED BY <2>6, <2>8, <3>2, <3>3, <3>4, <3>5, <3>6, FreesThese
    <2>10. DOMAIN apps' = DOMAIN apps \ {z} /\ \A x \in DOMAIN apps' : apps'[x] = apps[x]
      BY <2>3
    <2>11. DOMAIN B = DOMAIN A \ {z} /\ \A x \in DOMAIN B : B[x] = A[x]
      BY <2>10 DEF AppsHold
    <2>12. Installed(apps', module_data_list', serial')
      <3> DEFINE b == apps'
      <3>1. DOMAIN b = DOMAIN apps \ {z} /\ Installed(apps, module_data_list, serial)
        BY <2>10 DEF HeapInv
      <3> HIDE DEF b
      <3>2. Installed(b, module_data_list', serial)
        <4>1. DOMAIN b = DOMAIN apps \ {m[1].serial}
          BY <3>1 DEF z
        <4> QED BY <2>4, <3>1, <4>1, InstalledLess
      <3> QED BY <2>4, <3>2 DEF b
    <2>13. serial \notin DOMAIN B
      BY <2>5, <2>11 DEF HeapInv, Installed
    <2>14. Past(heap'.live, wire'.number, wire'.at)
      <3>1. heap'.live \in SUBSET heap.live
        BY <2>9
      <3> QED BY <3>1, PastFewer DEF HeapInv
    <2>15. Queued(queue)
      BY DEF HeapInv
    <2>16. /\ Queued(queue') /\ n \in Nat /\ n > 0 /\ Head(queue) = queue[1]
           /\ DOMAIN Q = 1..n /\ DOMAIN P = 1..n - 1 /\ Q[1] = Parcel(queue[1])
           /\ \A i \in 1..n - 1 : P[i] = Q[i + 1]
      BY <2>15, Dequeues
    <2>17. Q[1] = F
      BY <2>16 DEF F
    <2> HIDE DEF R, Q, P, A, B, n
    <2>18. Own(R, Q, B, heap.live \ A[z], heap.dropped)
      BY <2>2, <2>5, <2>11, OwnUninstalled
    <2>19. Own(R, P, B, heap.live \ A[z], heap.dropped \cup F)
      <3> DEFINE l == heap.live \ A[z]
      <3> HIDE DEF l
      <3>3. Own(R, Q, B, l, heap.dropped)
        BY <2>18 DEF l
      <3>1. Remains(l, l, Q[1], F, B, B, serial)
        BY <2>17 DEF Remains
      <3>2. Gains(B, B, serial, Q[1])
        BY <2>13 DEF Gains
      <3>4. Own(R, P, B, l, heap.dropped \cup F)
        BY <2>16, <3>1, <3>2, <3>3, OwnLeaves
      <3> QED BY <3>4 DEF l
    <2>20. heap'.live = heap.live \ A[z]
      BY <2>5, <2>9
    <2>21. Own(Ids(ToSet(recv'.sections)), QueueHolds(queue'), AppsHold(apps'), heap'.live, heap'.dropped)
      BY <2>9, <2>19, <2>20 DEF R, P, B
    <2>22. Spread(recv'.sections)
      BY DEF HeapInv
    <2> QED BY <2>9, <2>12, <2>14, <2>16, <2>21, <2>22 DEF HeapInv
  <1> QED BY <1>1, <1>2

\* The manager's steps keep the ownership of sections.
LEMMA OwnedManager ==
  ASSUME HeapInv, ~heap.wild, NEW step \in Steps, NEW memory, app_manager_queue_callback(step, memory)
  PROVE  HeapInv'
  <1> DEFINE r == Head(queue)
             url == Urls[r.url[1]]
             brings == "file" \in DOMAIN r
             keeps == IF brings THEN Dropped(r.file.sections) ELSE UNCHANGED heap
             same == UNCHANGED <<apps, module_data_list, serial>>
             left == /\ Heaped(heap') /\ heap'.live = heap.live
                     /\ heap'.dropped = heap.dropped \cup Parcel(r)
  <1>1. /\ queue # <<>> /\ queue' = Tail(queue) /\ UNCHANGED <<wire, recv>>
        /\ \/ brings /\ wasm_app_module_install(url[2], r.file, step)
           \/ ~brings /\ heap' \in {heap, Wild} /\ UNCHANGED <<apps, registry>>
           \/ wasm_app_module_uninstall(url[2], Parcel(r))
           \/ /\ event_handle_event_request(r.action, Tail(url), memory)
              /\ keeps /\ UNCHANGED apps
           \/ keeps /\ UNCHANGED <<apps, registry>>
    BY DEF app_manager_queue_callback
  <1>2. CASE brings /\ wasm_app_module_install(url[2], r.file, step)
    BY <1>1, <1>2, OwnedInstall
  <1>3. CASE wasm_app_module_uninstall(url[2], Parcel(r))
    BY <1>1, <1>3, OwnedUninstall
  <1>4. CASE left /\ same
    BY <1>1, <1>4, OwnedDropped
  <1>5. ASSUME event_handle_event_request(r.action, Tail(url), memory), UNCHANGED apps PROVE same
    BY <1>5 DEF event_handle_event_request
  <1>6. ASSUME UNCHANGED <<apps, registry>> PROVE same
    BY <1>6 DEF registry
  <1>7. ASSUME keeps PROVE left
    BY <1>7, Leaves DEF HeapInv
  <1>8. ASSUME ~brings, heap' \in {heap, Wild} PROVE left
    <2>1. Parcel(r) = {} /\ heap.dropped \cup {} = heap.dropped
      BY <1>8 DEF Parcel
    <2> QED BY <1>8, <2>1, GoesWild DEF HeapInv
  <1> HIDE DEF keeps, same, brings, left
  <1> QED BY <1>1, <1>2, <1>3, <1>4, <1>5, <1>6, <1>7, <1>8

\* No section is allocated at first.
LEMMA HeapStart ==
  ASSUME Init
  PROVE  HeapInv
  <1>1. /\ queue = <<>> /\ apps = << >> /\ module_data_list = <<>> /\ serial = 0
        /\ heap = [live |-> {}, twice |-> {}, dropped |-> {}, wild |-> FALSE]
        /\ recv = NewReceiver
    BY DEF Init, RegistryInit
  <1>2. recv.sections = <<>> /\ heap.live = {} /\ heap.twice = {} /\ heap.dropped = {} /\ heap.wild = FALSE
    BY <1>1 DEF NewReceiver
  <1>3. List(<<>>)
    <2>1. <<>> \in Seq({})
      OBVIOUS
    <2> QED BY <2>1, SeqList
  <1>0. ToSet(<<>>) = {}
    BY SerialsShort
  <1>4. DOMAIN << >> = {} /\ ToSet(<<>>) = {} /\ Len(<<>>) = 0 /\ 1..0 = {}
    BY <1>0
  <1>5. Ids(ToSet(recv.sections)) = {} /\ Spread(recv.sections)
    BY <1>2, <1>4 DEF Ids, Spread
  <1>6. DOMAIN QueueHolds(queue) = {} /\ DOMAIN AppsHold(apps) = {}
    BY <1>1, <1>4 DEF QueueHolds, AppsHold
  <1>7. Own(Ids(ToSet(recv.sections)), QueueHolds(queue), AppsHold(apps), heap.live, heap.dropped)
    BY <1>2, <1>5, <1>6 DEF Own
  <1>8. Heaped(heap) /\ Past(heap.live, wire.number, wire.at)
    BY <1>1, <1>2 DEF Heaped, Past
  <1>9. Queued(queue) /\ Installed(apps, module_data_list, serial)
    BY <1>1, <1>3, <1>4 DEF Queued, Installed
  <1> QED BY <1>5, <1>7, <1>8, <1>9 DEF HeapInv

\* Every step keeps the ownership of sections.
LEMMA HeapKept ==
  ASSUME HeapInv, WireInv, LinkInv, ReceiverInv, [Next]_vars
  PROVE  HeapInv'
  <1>1. CASE UNCHANGED vars
    <2>1. /\ UNCHANGED <<recv, queue, apps, heap, module_data_list, serial>>
          /\ Past(heap.live, wire'.number, wire'.at)
      BY <1>1 DEF vars, registry, HeapInv
    <2> QED BY <2>1, OwnedAlike
  <1>2. ASSUME Arrival, ~heap.wild PROVE HeapInv'
    <2>1. ~Idle
      BY <1>2 DEF Arrival
    <2>2. \/ Phase_Non_Start \/ Phase_Leading \/ Phase_Type \/ Phase_Payload
          \/ \E memory : Phase_Size(memory) \/ Phase_Install(memory)
      BY <1>2 DEF Arrival
    <2>3. CASE Phase_Non_Start \/ Phase_Leading \/ Phase_Type
      BY <2>1, <2>3, OwnedByte
    <2>4. CASE Phase_Payload
      BY <1>2, <2>1, <2>4, OwnedPayload
    <2>5. ASSUME NEW memory, Phase_Size(memory) PROVE HeapInv'
      BY <2>1, <2>5, OwnedByte
    <2>6. ASSUME NEW memory, Phase_Install(memory) PROVE HeapInv'
      BY <1>2, <2>1, <2>6, OwnedPackage
    <2> QED BY <2>2, <2>3, <2>4, <2>5, <2>6
  <1>3. ASSUME NEW f \in theme.frames, Send(f) PROVE HeapInv'
    BY <1>3, OwnedSend
  <1>4. ASSUME NEW step \in Steps, NEW memory \in {"all", "event", "none"},
               app_manager_queue_callback(step, memory), ~heap.wild
        PROVE  HeapInv'
    BY <1>4, OwnedManager
  <1>5. CASE Calls
    BY <1>5, OwnedCalls
  <1> QED BY <1>1, <1>2, <1>3, <1>4, <1>5 DEF Next

\* The invariant says what the property does.
LEMMA HeapOwned ==
  ASSUME HeapInv
  PROVE  SectionsOwned
  <1> DEFINE R == Ids(ToSet(recv.sections))
             Q == QueueHolds(queue)
             A == AppsHold(apps)
             held == UNION {Held(o) : o \in Owners}
  <1>1. Own(R, Q, A, heap.live, heap.dropped)
    BY DEF HeapInv
  <1>2. /\ DOMAIN Q = DOMAIN queue /\ (\A i \in DOMAIN queue : Q[i] = Parcel(queue[i]))
        /\ DOMAIN A = DOMAIN apps /\ (\A x \in DOMAIN apps : A[x] = Ids(ToSet(apps[x].sections)))
    BY DEF QueueHolds, AppsHold
  <1>3. Held(<<"receiver", 0>>) = R
    BY DEF Held
  <1>4. \A i : Held(<<"queue", i>>) = Parcel(queue[i])
    BY DEF Held
  <1>5. \A x : Held(<<"app", x>>) = Ids(ToSet(apps[x].sections))
    BY DEF Held
  <1>6. \A o \in Owners : \/ o = <<"receiver", 0>>
                          \/ \E i \in DOMAIN Q : o = <<"queue", i>>
                          \/ \E x \in DOMAIN A : o = <<"app", x>>
    BY <1>2 DEF Owners
  <1>7. /\ <<"receiver", 0>> \in Owners
        /\ \A i \in DOMAIN Q : <<"queue", i>> \in Owners
        /\ \A x \in DOMAIN A : <<"app", x>> \in Owners
    BY <1>2 DEF Owners
  <1>8. /\ \A i \in DOMAIN Q : Held(<<"queue", i>>) = Q[i]
        /\ \A x \in DOMAIN A : Held(<<"app", x>>) = A[x]
    BY <1>2, <1>4, <1>5
  <1> HIDE DEF R, Q, A
  <1>9. ASSUME NEW o \in Owners, NEW p \in Held(o) PROVE p \in heap.live /\ p \notin heap.dropped
    <2>1. CASE o = <<"receiver", 0>>
      BY <2>1, <1>1, <1>3, <1>9 DEF Own
    <2>2. CASE \E i \in DOMAIN Q : o = <<"queue", i>>
      BY <2>2, <1>1, <1>8, <1>9 DEF Own
    <2>3. CASE \E x \in DOMAIN A : o = <<"app", x>>
      BY <2>3, <1>1, <1>8, <1>9 DEF Own
    <2> QED BY <2>1, <2>2, <2>3, <1>6
  <1>10. ASSUME NEW p \in heap.live PROVE p \in heap.dropped \/ \E o \in Owners : p \in Held(o)
    <2>1. \/ p \in R \/ p \in heap.dropped
          \/ \E i \in DOMAIN Q : p \in Q[i]
          \/ \E x \in DOMAIN A : p \in A[x]
      BY <1>1 DEF Own
    <2>2. CASE p \in R
      BY <2>2, <1>3, <1>7
    <2>3. ASSUME NEW i \in DOMAIN Q, p \in Q[i] PROVE \E o \in Owners : p \in Held(o)
      BY <2>3, <1>7, <1>8
    <2>4. ASSUME NEW x \in DOMAIN A, p \in A[x] PROVE \E o \in Owners : p \in Held(o)
      BY <2>4, <1>7, <1>8
    <2> QED BY <2>1, <2>2, <2>3, <2>4
  <1>11. ASSUME NEW o \in Owners, NEW u \in Owners, NEW p, p \in Held(o), p \in Held(u) PROVE o = u
    <2>1. CASE o = <<"receiver", 0>>
      <3>1. p \in R
        BY <2>1, <1>3, <1>11
      <3>2. ASSUME NEW i \in DOMAIN Q, u = <<"queue", i>> PROVE FALSE
        BY <3>1, <3>2, <1>1, <1>8, <1>11 DEF Own
      <3>3. ASSUME NEW x \in DOMAIN A, u = <<"app", x>> PROVE FALSE
        BY <3>1, <3>3, <1>1, <1>8, <1>11 DEF Own
      <3> QED BY <2>1, <3>2, <3>3, <1>6
    <2>2. ASSUME NEW i \in DOMAIN Q, o = <<"queue", i>> PROVE o = u
      <3>1. p \in Q[i]
        BY <2>2, <1>8, <1>11
      <3>2. u # <<"receiver", 0>>
        BY <3>1, <1>1, <1>3, <1>11 DEF Own
      <3>3. ASSUME NEW j \in DOMAIN Q, u = <<"queue", j>> PROVE i = j
        <4>1. p \in Q[j]
          BY <3>3, <1>8, <1>11
        <4> QED BY <3>1, <4>1, <1>1 DEF Own
      <3>4. ASSUME NEW x \in DOMAIN A, u = <<"app", x>> PROVE FALSE
        BY <3>1, <3>4, <1>1, <1>8, <1>11 DEF Own
      <3> QED BY <2>2, <3>2, <3>3, <3>4, <1>6
    <2>3. ASSUME NEW x \in DOMAIN A, o = <<"app", x>> PROVE o = u
      <3>1. p \in A[x]
        BY <2>3, <1>8, <1>11
      <3>2. u # <<"receiver", 0>>
        BY <3>1, <1>1, <1>3, <1>11 DEF Own
      <3>3. ASSUME NEW j \in DOMAIN Q, u = <<"queue", j>> PROVE FALSE
        <4>1. p \in Q[j]
          BY <3>3, <1>8, <1>11
        <4> QED BY <3>1, <4>1, <1>1 DEF Own
      <3>4. ASSUME NEW y \in DOMAIN A, u = <<"app", y>> PROVE x = y
        <4>1. p \in A[y]
          BY <3>4, <1>8, <1>11
        <4> QED BY <3>1, <4>1, <1>1 DEF Own
      <3> QED BY <2>3, <3>2, <3>3, <3>4, <1>6
    <2> QED BY <2>1, <2>2, <2>3, <1>6
  <1>12. \A p : p \in held <=> \E o \in Owners : p \in Held(o)
    OBVIOUS
  <1>13. heap.dropped \subseteq heap.live
    BY <1>1 DEF Own
  <1> HIDE DEF held
  <1>14. heap.live = held \cup heap.dropped /\ held \cap heap.dropped = {}
    BY <1>9, <1>10, <1>12, <1>13
  <1>15. \A o, p \in Owners : o # p => Held(o) \cap Held(p) = {}
    BY <1>11
  <1>16. \A s \in heap.twice : s.type = Text
    BY DEF HeapInv, Heaped
  <1> QED BY <1>14, <1>15, <1>16 DEF SectionsOwned, held

\* From its header to its release a section of a package has one owner, the
\* receiver, a request in the queue or an application, whatever fails on the way;
\* only the text of an AOT package is released twice, and only a request that
\* installs nothing leaves sections behind (module_wasm_app_handle_install_msg,
\* wasm_app_module_install, cleanup_app_resource).
THEOREM SectionsOwnedCorrect == Spec => []SectionsOwned
  <1>1. Spec => [](WireInv /\ LinkInv /\ ReceiverInv)
    BY LinkAlways
  <1>2. Init => HeapInv
    BY HeapStart
  <1>3. HeapInv /\ (WireInv /\ LinkInv /\ ReceiverInv) /\ [Next]_vars => HeapInv'
    BY HeapKept
  <1>4. HeapInv => SectionsOwned
    BY HeapOwned
  <1> QED BY <1>1, <1>2, <1>3, <1>4, PTL DEF Spec
=============================================================================
