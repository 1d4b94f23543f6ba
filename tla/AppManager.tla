------------------------------ MODULE AppManager ------------------------------
(***************************************************************************)
(* The life of an installed application: install and uninstall in          *)
(* app-mgr/app-manager/module_wasm_app.c, the list of modules in           *)
(* module_utils.c, and the threads that post to applications.              *)
(*                                                                         *)
(* The manager thread serves one request at a time.  Each part of a        *)
(* function that runs under a lock, and each call that other threads can   *)
(* tell apart, is one step.  A poster (the timer thread, or the host       *)
(* thread in am_dispatch_request) looks a module up under the list's lock  *)
(* and uses it after the unlock.                                           *)
(*                                                                         *)
(* Using freed memory is undefined: the model records it in ub and stops,  *)
(* for nothing can be said of what follows.  A request that is refused,    *)
(* and an install that fails before the module is listed, leave no trace.  *)
(***************************************************************************)
EXTENDS Integers, Sequences, FiniteSets

CONSTANTS Names,        \* application names
          MaxInstalls,  \* bound on the modules ever listed; ids do not wrap below it
          MaxApps       \* MAX_APP_INSTALLATIONS

ASSUME ManagerAssumption == MaxInstalls \in Nat /\ MaxApps \in Nat \ {0} /\ Names # {}

Ids == 1..MaxInstalls

NoModule == 0

\* What a module may hold when its thread ends: resources, event
\* subscriptions, and what the registered cleanup callbacks free (sensors,
\* connections, widgets).
Kinds == {"resource", "event", "callback"}

Posters == {"timer", "host"}

VARIABLES
    list,           \* module_data_list, the newest first
    module_id_max,  \* the last id given out
    name, mem, queue, thread, exit,  \* per module: its name, its memory, its queue,
                                     \* its thread and its queue's exit_loop_run
    deaf,           \* modules whose loop missed the signal of the exit and waits on
    ctxs,           \* modules with a node in g_timer_ctx_list
    held,           \* per kind: the modules that hold something
    pc, cur,        \* manager thread: program point, module at hand
    at, hand,       \* posters: program point, module found
    failed,         \* history: modules whose timer context could not be created
    ub              \* "none", or what used freed memory

module == <<name, mem, queue, thread, exit, deaf>>
manager == <<pc, cur>>
posters == <<at, hand>>
vars == <<list, module_id_max, module, ctxs, held, manager, posters, failed, ub>>

Listed(m) == \E i \in 1..Len(list) : list[i] = m

\* Where a lookup of one of the modules S stops, if it stops.
Found(S) == {i \in 1..Len(list) : list[i] \in S /\ \A j \in 1..i - 1 : list[j] \notin S}

Named(n) == {m \in Ids : name[m] = n}

\* A walk that goes as far as the n-th module reads only living ones.
WalkLives(n) == \A i \in 1..n : mem[list[i]] = "live"

Init ==
    /\ list = <<>> /\ module_id_max = 0
    /\ name = [m \in Ids |-> CHOOSE n \in Names : TRUE]
    /\ mem = [m \in Ids |-> "none"] /\ queue = [m \in Ids |-> "none"]
    /\ thread = [m \in Ids |-> "none"] /\ exit = {} /\ deaf = {}
    /\ ctxs = {} /\ held = [k \in Kinds |-> {}]
    /\ pc = "idle" /\ cur = NoModule
    /\ at = [p \in Posters |-> "idle"] /\ hand = [p \in Posters |-> NoModule]
    /\ failed = {} /\ ub = "none"

-----------------------------------------------------------------------------
(* Install.                                                                *)

\* get_applets_count and the lookup of the name walk the whole list.
MayInstall(n) ==
    /\ Len(list) < MaxApps
    /\ WalkLives(Len(list))
    /\ \A i \in 1..Len(list) : name[list[i]] # n

\* wasm_app_module_install up to app_manager_add_module_data: the package is
\* loaded, the module data has a queue, and it becomes the head of the list.
Install(n) ==
    LET m == module_id_max + 1 IN
    /\ pc = "idle" /\ m \in Ids /\ MayInstall(n)
    /\ module_id_max' = m
    /\ name' = [name EXCEPT ![m] = n]
    /\ mem' = [mem EXCEPT ![m] = "live"]
    /\ queue' = [queue EXCEPT ![m] = "live"]
    /\ list' = <<m>> \o list
    /\ pc' = "timer ctx" /\ cur' = m
    /\ UNCHANGED <<thread, exit, deaf, ctxs, held, posters, failed, ub>>

CreateTimerCtx ==
    /\ pc = "timer ctx"
    /\ ctxs' = ctxs \cup {cur}
    /\ pc' = "thread"
    /\ UNCHANGED <<list, module_id_max, module, held, cur, posters, failed, ub>>

\* The failure goes to the release of the module, which stays in the list.
CreateTimerCtxFails ==
    /\ pc = "timer ctx"
    /\ failed' = failed \cup {cur}
    /\ pc' = "release queue"
    /\ UNCHANGED <<list, module_id_max, module, ctxs, held, cur, posters, ub>>

\* The application's thread is created; the applets event is posted and the
\* request answered.
StartThread ==
    /\ pc = "thread"
    /\ thread' = [thread EXCEPT ![cur] = "running"]
    /\ pc' = "idle" /\ cur' = NoModule
    /\ UNCHANGED <<list, module_id_max, name, mem, queue, exit, deaf, ctxs, held, posters, failed, ub>>

RemoveAt(s, i) == SubSeq(s, 1, i - 1) \o SubSeq(s, i + 1, Len(s))

\* module_data_list_remove unlinks the module at hand where the walk meets it.
ListRemove ==
    list' = IF Found({cur}) = {} THEN list ELSE RemoveAt(list, CHOOSE i \in Found({cur}) : TRUE)

StartThreadFails ==
    /\ pc = "thread"
    /\ ListRemove
    /\ pc' = "release queue"
    /\ UNCHANGED <<module_id_max, module, ctxs, held, cur, posters, failed, ub>>

-----------------------------------------------------------------------------
(* Uninstall.                                                              *)

MutNoExit(m) == UNCHANGED <<exit, deaf>>

\* bh_queue_exit_loop_run sets the flag and signals without the queue's lock.  A
\* loop that has tested the flag and does not wait yet misses the signal, and waits
\* for the next message (BhQueue has the steps of this race).
ExitLoop(m) ==
    /\ exit' = exit \cup {m}
    /\ \/ UNCHANGED deaf
       \/ thread[m] = "running" /\ deaf' = deaf \cup {m}

\* wasm_app_module_uninstall finds the module by name and ends its loop.
Uninstall(n) ==
    /\ pc = "idle"
    /\ \E i \in Found(Named(n)) :
        /\ WalkLives(i)
        /\ ExitLoop(list[i])
        /\ cur' = list[i]
    /\ pc' = "join"
    /\ UNCHANGED <<list, module_id_max, name, mem, queue, thread, ctxs, held, posters, failed, ub>>

MutJoinNotAwaited ==
    /\ pc = "join"
    /\ pc' = "cleanup resource"
    /\ UNCHANGED <<list, module_id_max, module, ctxs, held, cur, posters, failed, ub>>

\* os_thread_join.
Join ==
    /\ pc = "join" /\ thread[cur] = "ended"
    /\ pc' = "cleanup resource"
    /\ UNCHANGED <<list, module_id_max, module, ctxs, held, cur, posters, failed, ub>>

\* cleanup_app_resource: am_cleanup_registeration, am_unregister_event and the
\* cleanup callbacks, one after the other,
Cleanup(kind, from, to) ==
    /\ pc = from
    /\ held' = [held EXCEPT ![kind] = @ \ {cur}]
    /\ pc' = to
    /\ UNCHANGED <<list, module_id_max, module, ctxs, cur, posters, failed, ub>>

CleanupResources ==
    \/ Cleanup("resource", "cleanup resource", "cleanup event")
    \/ Cleanup("event", "cleanup event", "cleanup callback")
    \/ Cleanup("callback", "cleanup callback", "unlist")

\* then the instance is destroyed and app_manager_del_module_data takes the
\* module off the list.
Unlist ==
    /\ pc = "unlist"
    /\ ListRemove
    /\ pc' = "release queue"
    /\ UNCHANGED <<module_id_max, module, ctxs, held, cur, posters, failed, ub>>

-----------------------------------------------------------------------------
(* release_module.                                                         *)

ReleaseQueue ==
    /\ pc = "release queue"
    /\ queue' = [queue EXCEPT ![cur] = "destroyed"]
    /\ pc' = "release ctx"
    /\ UNCHANGED <<list, module_id_max, name, mem, thread, exit, deaf, ctxs, held, cur, posters, failed, ub>>

\* The timer thread holds g_timer_ctx_list_mutex while it looks a module up and
\* posts to it.
TimerListFree == at["timer"] = "idle"

MutCtxUnlocked ==
    /\ pc = "release ctx"
    /\ ctxs' = ctxs \ {cur}
    /\ pc' = "free"
    /\ UNCHANGED <<list, module_id_max, module, held, cur, posters, failed, ub>>

\* destroy_module_timer_ctx.
ReleaseCtx ==
    /\ pc = "release ctx" /\ TimerListFree
    /\ ctxs' = ctxs \ {cur}
    /\ pc' = "free"
    /\ UNCHANGED <<list, module_id_max, module, held, cur, posters, failed, ub>>

Free ==
    /\ pc = "free"
    /\ mem' = [mem EXCEPT ![cur] = "freed"]
    /\ pc' = "idle" /\ cur' = NoModule
    /\ UNCHANGED <<list, module_id_max, name, queue, thread, exit, deaf, ctxs, held, posters, failed, ub>>

-----------------------------------------------------------------------------
(* The application's thread, wasm_app_routine.                             *)

\* A callback of the application registers a resource, an event or a sensor.
Hold(m, k) ==
    /\ thread[m] = "running" /\ m \notin held[k]
    /\ held' = [held EXCEPT ![k] = @ \cup {m}]
    /\ UNCHANGED <<list, module_id_max, module, ctxs, manager, posters, failed, ub>>

\* on_init fails, and the thread ends although nobody asked for it.
InitFails(m) ==
    /\ thread[m] = "running" /\ m \notin exit
    /\ thread' = [thread EXCEPT ![m] = "ended"]
    /\ UNCHANGED <<list, module_id_max, name, mem, queue, exit, deaf, ctxs, held, manager, posters, failed, ub>>

\* The loop ends, on_destroy is called and the thread returns.
LoopEnds(m) ==
    /\ thread[m] = "running" /\ m \in exit \ deaf
    /\ thread' = [thread EXCEPT ![m] = "ended"]
    /\ UNCHANGED <<list, module_id_max, name, mem, queue, exit, deaf, ctxs, held, manager, posters, failed, ub>>

-----------------------------------------------------------------------------
(* The posters.                                                            *)

\* Whom a poster looks up by id: the timer thread the owner of a context, the
\* host thread a module that registered the resource or the event.
Targets(p) == IF p = "timer" THEN ctxs ELSE held["resource"] \cup held["event"]

\* module_data_list_lookup_id.  Not found, nothing is posted.
LookupId(p, id) ==
    /\ at[p] = "idle" /\ id \in Targets(p)
    /\ \E i \in Found({id}) :
        /\ WalkLives(i)
        /\ at' = [at EXCEPT ![p] = "found"] /\ hand' = [hand EXCEPT ![p] = list[i]]
    /\ UNCHANGED <<list, module_id_max, module, ctxs, held, manager, failed, ub>>

\* targeted_app_request_handler looks the module up by name and reads its id.
LookupName(n) ==
    /\ at["host"] = "idle"
    /\ \E i \in Found(Named(n)) :
        /\ WalkLives(i)
        /\ at' = [at EXCEPT !["host"] = "named"] /\ hand' = [hand EXCEPT !["host"] = list[i]]
    /\ UNCHANGED <<list, module_id_max, module, ctxs, held, manager, failed, ub>>

\* It then calls module_request_handler, which looks the id up once more.
LookupAgain ==
    LET m == hand["host"] IN
    /\ at["host"] = "named"
    /\ \/ /\ mem[m] = "freed"
          /\ ub' = "poster"
          /\ UNCHANGED posters
       \/ /\ mem[m] = "live" /\ Listed(m)
          /\ at' = [at EXCEPT !["host"] = "found"]
          /\ UNCHANGED <<hand, ub>>
       \/ /\ mem[m] = "live" /\ ~Listed(m)
          /\ at' = [at EXCEPT !["host"] = "idle"] /\ hand' = [hand EXCEPT !["host"] = NoModule]
          /\ UNCHANGED ub
    /\ UNCHANGED <<list, module_id_max, module, ctxs, held, manager, failed>>

\* bh_post_msg to the queue of the module found.  The message wakes the loop.
Post(p) ==
    /\ at[p] = "found"
    /\ IF mem[hand[p]] = "live" /\ queue[hand[p]] = "live"
       THEN /\ at' = [at EXCEPT ![p] = "idle"] /\ hand' = [hand EXCEPT ![p] = NoModule]
            /\ deaf' = deaf \ {hand[p]}
            /\ UNCHANGED ub
       ELSE ub' = "poster" /\ UNCHANGED <<posters, deaf>>
    /\ UNCHANGED <<list, module_id_max, name, mem, queue, thread, exit, ctxs, held, manager, failed>>

\* A walk over the list meets a freed module: a request to the manager, the
\* query of the applets, or a lookup of a poster.
WalkFreed ==
    /\ pc = "idle" \/ \E p \in Posters : at[p] = "idle"
    /\ ~WalkLives(Len(list))
    /\ ub' = "list"
    /\ UNCHANGED <<list, module_id_max, module, ctxs, held, manager, posters, failed>>

-----------------------------------------------------------------------------
ManagerStep ==
    \/ CreateTimerCtx \/ CreateTimerCtxFails \/ StartThread \/ StartThreadFails
    \/ Join \/ CleanupResources \/ Unlist \/ ReleaseQueue \/ ReleaseCtx \/ Free

PosterStep(p) == Post(p) \/ (p = "host" /\ LookupAgain)

Step ==
    \/ \E n \in Names : Install(n) \/ Uninstall(n) \/ LookupName(n)
    \/ ManagerStep
    \/ \E m \in Ids : InitFails(m) \/ LoopEnds(m) \/ \E k \in Kinds : Hold(m, k)
    \/ \E p \in Posters : PosterStep(p) \/ \E m \in Ids : LookupId(p, m)
    \/ WalkFreed

Next == ub = "none" /\ Step

\* A request under way goes on, a poster posts what it has found, and a loop
\* that was told to end, and does not wait, ends: the application's callbacks
\* return.  The timer thread gives its mutex up for every wait, so that the
\* manager gets it in the end.
Fairness ==
    /\ WF_vars(ub = "none" /\ ManagerStep)
    /\ SF_vars(ub = "none" /\ ReleaseCtx)
    /\ \A p \in Posters : WF_vars(ub = "none" /\ PosterStep(p))
    /\ \A m \in Ids : WF_vars(ub = "none" /\ LoopEnds(m))

Spec == Init /\ [][Next]_vars
FairSpec == Spec /\ Fairness

-----------------------------------------------------------------------------
(* Properties.                                                             *)

\* The type invariant.
TypeOK ==
    /\ list \in Seq(Ids) /\ module_id_max \in 0..MaxInstalls
    /\ name \in [Ids -> Names] /\ mem \in [Ids -> {"none", "live", "freed"}]
    /\ queue \in [Ids -> {"none", "live", "destroyed"}]
    /\ thread \in [Ids -> {"none", "running", "ended"}] /\ exit \in SUBSET Ids /\ deaf \in SUBSET Ids
    /\ ctxs \in SUBSET Ids /\ held \in [Kinds -> SUBSET Ids] /\ failed \in SUBSET Ids
    /\ pc \in {"idle", "timer ctx", "thread", "join", "cleanup resource", "cleanup event",
               "cleanup callback", "unlist", "release queue", "release ctx", "free"}
    /\ cur \in Ids \cup {NoModule}
    /\ at \in [Posters -> {"idle", "named", "found"}]
    /\ hand \in [Posters -> Ids \cup {NoModule}]
    /\ ub \in {"none", "list", "poster"}

\* Two modules of the list never have one name, whatever was installed and
\* uninstalled: uninstall and /app/ requests find a module by name alone.
UniqueNames == \A i, j \in 1..Len(list) : name[list[i]] = name[list[j]] => i = j

\* Between two requests nothing is left of a module that is not in the list: no
\* resource, subscription, sensor or timer context.  Uninstall cleans up only
\* after the thread that could register more has ended.
NothingLeft ==
    pc = "idle" => \A m \in ctxs \cup UNION {held[k] : k \in Kinds} : Listed(m)

\* The thread of an application runs only while its module data, queue and
\* timer context are there.
ThreadHasModule ==
    \A m \in Ids : thread[m] = "running" => mem[m] = "live" /\ queue[m] = "live" /\ m \in ctxs

\* A module of the list is alive, except one whose timer context could not be
\* created: only that failure leaves a freed module behind.
ListedLives == \A i \in 1..Len(list) : mem[list[i]] = "live" \/ list[i] \in failed

\* While the timer thread works on a module, its module data is not freed: the
\* context is destroyed before it, and waits for the timer thread.
TimerHoldsModule == at["timer"] = "found" => hand["timer"] \in ctxs /\ mem[hand["timer"]] = "live"

\* Nothing is used after it is freed by a thread that counts on it: the list, the
\* threads of the applications and the timer thread hold living modules.
Lifetimes == UniqueNames /\ ThreadHasModule /\ ListedLives /\ TimerHoldsModule

\* Every request is finished, unless freed memory was used or the loop of the module
\* to uninstall missed the signal to end: nothing else keeps the manager waiting for
\* ever, for a thread or for the timer thread's lock, and a message that is posted to
\* the deaf loop sets the manager free.
RequestEnds == pc # "idle" ~> (pc = "idle" \/ ub # "none" \/ (pc = "join" /\ cur \in deaf))
=============================================================================
