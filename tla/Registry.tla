----------------------------- MODULE Registry ------------------------------
(***************************************************************************)
(* Who is where: the modules by id, the resources they serve and the       *)
(* events they subscribe to, each a list with the latest at its head, and  *)
(* the routing of a request along them.  A module has a serial of its own  *)
(* besides its id, and a registration remembers the serial of its maker:   *)
(* the code keeps the id alone.  A call is one step: the lists of          *)
(* resources and events have no lock, and calls that overlap are not       *)
(* modelled.                                                               *)
(***************************************************************************)
EXTENDS Restful

CONSTANTS
  IdLimit,        \* 0xFFFFFFF0, where module_id_max starts over
  MaxResources,   \* RESOURCE_REGISTRATION_NUM_MAX
  Paths           \* URLs the applications register and post to

ASSUME RegistryAssumption == IdLimit \in Nat \ {0, 1} /\ MaxResources \in Nat

VARIABLES
  module_data_list, module_id_max, serial,
  g_resources, g_events,
  registry_facts  \* [clash, starved, misrouted]: an id given out twice, an event
                  \* left without its subscriber, a request sent elsewhere
registry == <<module_data_list, module_id_max, serial, g_resources, g_events, registry_facts>>

ID_HOST == -3
ID_APP_MGR == -2

\* app_manager_startup
RegistryInit ==
  /\ module_data_list = <<>> /\ module_id_max = 1 /\ serial = 0 /\ g_events = <<>>
  /\ g_resources = [i \in 1..3 |-> [url |-> <<<<"event">>, <<"applet">>, <<"app">>>>[i],
                                    id |-> ID_APP_MGR, by |-> ID_APP_MGR]]
  /\ registry_facts = [clash |-> FALSE, starved |-> FALSE, misrouted |-> FALSE]

First(list, Test(_)) ==
  LET hits == {i \in DOMAIN list : Test(list[i])} IN
  IF hits = {} THEN <<>> ELSE <<list[Min(hits)]>>
module_data_list_lookup(name) == First(module_data_list, LAMBDA m : m.name = name)
module_data_list_lookup_id(id) == First(module_data_list, LAMBDA m : m.id = id)

NewId == IF module_id_max = IdLimit THEN 1 ELSE module_id_max
module_data_list_add(name) ==
  /\ module_data_list' = <<[id |-> NewId, name |-> name, serial |-> serial]>> \o module_data_list
  /\ module_id_max' = NewId + 1 /\ serial' = serial + 1
  /\ registry_facts' = [registry_facts EXCEPT
                          !.clash = @ \/ module_data_list_lookup_id(NewId) # <<>>]
\* A module that is taken off the list before anyone heard of it: its id is spent.
AddedInVain ==
  /\ module_id_max' = NewId + 1
  /\ UNCHANGED <<module_data_list, serial, g_resources, g_events, registry_facts>>
module_data_list_remove(m) ==
  module_data_list' = Keep(module_data_list, {i \in DOMAIN module_data_list :
                                                module_data_list[i].serial # m.serial})

am_register_resource(url, id, by) ==
  IF \/ \E i \in DOMAIN g_resources : g_resources[i].url = url
     \/ Cardinality({i \in DOMAIN g_resources : g_resources[i].id = id}) >= MaxResources
  THEN g_resources ELSE <<[url |-> url, id |-> id, by |-> by]>> \o g_resources
\* Mutant: the walk ends at the first resource of the module.
MutFirstOnly(id) ==
  LET mine == {i \in DOMAIN g_resources : g_resources[i].id = id} IN
  IF mine = {} THEN g_resources ELSE RemoveAt(g_resources, Min(mine))
am_cleanup_registeration(id) ==
  Keep(g_resources, {i \in DOMAIN g_resources : g_resources[i].id # id})

----------------------------------------------------------------------------
(* Events.                                                                 *)

event_is_registered(url) == \E i \in DOMAIN g_events : g_events[i].url = url
find_subscriber(e, id) == \E i \in DOMAIN e.subs : e.subs[i].id = id

\* An event that is new, and a subscriber of it, are allocated one after the other.
am_register_event(url, id, by, memory) ==
  LET known == event_is_registered(url)
      k == CHOOSE i \in DOMAIN g_events : g_events[i].url = url
      fresh == <<[url |-> url, subs |-> <<>>]>> \o g_events
      events == IF known THEN g_events ELSE fresh
      at == IF known THEN k ELSE 1
      sub == [id |-> id, by |-> by]
  IN CASE memory = "none" /\ ~known -> g_events
       [] memory # "none" \/ known ->
            IF find_subscriber(events[at], id) \/ memory # "all" THEN events
            ELSE [events EXCEPT ![at].subs = <<sub>> \o @]

\* The event was made and its first subscriber was not.
Starved(url, memory) ==
  registry_facts' = [registry_facts EXCEPT
                       !.starved = @ \/ (memory = "event" /\ ~event_is_registered(url))]

\* Every event for url "all"; one that nobody subscribes to any more is dropped.
am_unregister_event(url, id) ==
  LET meant(e) == url = "all" \/ e.url = url
      cut(e) == [e EXCEPT !.subs = Keep(@, {i \in DOMAIN @ : @[i].id # id})]
      events == [i \in DOMAIN g_events |->
                   IF meant(g_events[i]) THEN cut(g_events[i]) ELSE g_events[i]]
  IN Keep(events, {i \in DOMAIN events : ~(events[i].subs = <<>> /\ meant(events[i]))})

----------------------------------------------------------------------------
(* Routing: to whom a request goes, and to whom it should.  Requests that  *)
(* the manager handles itself go to no module.                             *)

Serials(list) == {m.serial : m \in ToSet(list)}
module_request_handler(id) == Serials(module_data_list_lookup_id(id))

\* The last segment is for the module that the ones before it name.
targeted_app_request_handler(url) ==
  LET m == IF Len(url) < 3 THEN <<>> ELSE module_data_list_lookup(url[2])
  IN UNION {module_request_handler(x.id) : x \in ToSet(m)}

am_dispatch_request(url) ==
  LET hit == First(g_resources, LAMBDA r : check_url_start(url, r.url)) IN
  CASE hit = <<>> -> [by |-> {}, to |-> {}]
    [] hit # <<>> /\ hit[1].id # ID_APP_MGR ->
         [by |-> {hit[1].by}, to |-> module_request_handler(hit[1].id)]
    [] OTHER -> [by |-> IF hit[1].url # <<"app">> \/ Len(url) < 3 THEN {}
                        ELSE Serials(module_data_list_lookup(url[2])),
                 to |-> IF hit[1].url = <<"app">> THEN targeted_app_request_handler(url) ELSE {}]

am_publish_event(url) ==
  LET e == First(g_events, LAMBDA x : x.url = url)
      subs == IF e = <<>> THEN {} ELSE {s \in ToSet(e[1].subs) : s.id # ID_HOST}
  IN [by |-> {s.by : s \in subs}, to |-> UNION {module_request_handler(s.id) : s \in subs}]

Route(r) ==
  registry_facts' = [registry_facts EXCEPT !.misrouted = @ \/ r.to # r.by]

----------------------------------------------------------------------------
(* Calls of an application m.                                              *)

wasm_register_resource(m, url) ==
  /\ g_resources' = am_register_resource(url, m.id, m.serial)
  /\ UNCHANGED <<module_data_list, module_id_max, serial, g_events, registry_facts>>
wasm_sub_event(m, url, memory) ==
  /\ g_events' = am_register_event(url, m.id, m.serial, memory)
  /\ Starved(url, memory)
  /\ UNCHANGED <<module_data_list, module_id_max, serial, g_resources>>
wasm_post_request(url, event) ==
  /\ Route(IF event THEN am_publish_event(url) ELSE am_dispatch_request(url))
  /\ UNCHANGED <<module_data_list, module_id_max, serial, g_resources, g_events>>

Call(m, memory) ==
  \E url \in Paths :
    \/ wasm_register_resource(m, url)
    \/ wasm_sub_event(m, url, memory)
    \/ \E event \in BOOLEAN : wasm_post_request(url, event)

\* The part of cleanup_app_resource that is about registrations.
Cleanup(m) ==
  /\ g_resources' = am_cleanup_registeration(m.id)
  /\ g_events' = am_unregister_event("all", m.id)
  /\ module_data_list_remove(m)
  /\ UNCHANGED <<module_id_max, serial, registry_facts>>

----------------------------------------------------------------------------
\* Registrations never outlive their module and lead to it, so that a request or
\* an event reaches whoever asked for it and nobody else; an event has subscribers,
\* each once.  An id given out while it is in use, and the failed allocation of a
\* subscriber, are what the code does not guard against.
RoutedHome ==
  ~registry_facts.clash =>
    /\ ~registry_facts.misrouted
    /\ \A r \in ToSet(g_resources) :
         r.id # ID_APP_MGR => Serials(module_data_list_lookup_id(r.id)) = {r.by}
    /\ \A e \in ToSet(g_events) :
         /\ \A s \in ToSet(e.subs) :
              s.id # ID_HOST => Serials(module_data_list_lookup_id(s.id)) = {s.by}
         /\ \A i, j \in DOMAIN e.subs : e.subs[i].id = e.subs[j].id => i = j
         /\ e.subs = <<>> => registry_facts.starved
=============================================================================
