----------------------------- MODULE RuntimeTimer -----------------------------
(***************************************************************************)
(* The soft timers of one application: core/shared/utils/runtime_timer.c   *)
(* (the timer context and its lists), the timer thread of                  *)
(* app-framework/base/native/timer_wrapper.c, and the application's own    *)
(* table of timers in app-framework/base/app/timer.c.                      *)
(*                                                                         *)
(* Two threads work on the lists.  Each part of a function that runs under *)
(* the context's mutex is one step; between two such parts the other       *)
(* thread may run.  The timer thread holds the mutex of the context list   *)
(* (g_timer_ctx_list_mutex) through its scan, so that the refresh_checker  *)
(* of the application thread waits for the scan to end.                    *)
(*                                                                         *)
(* Time is relative: rem[id] is what is left until the expiry of timer id, *)
(* 0 once it has passed.  The code compares expiry times only with the     *)
(* present and with the expiry of a timer that is being started, and both  *)
(* comparisons come out the same on what is left.                          *)
(***************************************************************************)
EXTENDS Integers, Sequences, FiniteSets

CONSTANTS MaxIds,     \* bound on the number of sys_create_timer calls that succeed
          PreAlloc,   \* timers allocated with the context, DEFAULT_TIMERS_PER_APP in the code
          Intervals,  \* intervals the application asks for
          MaxMs,      \* longest wait whose microseconds fit an int
          OneWeek,    \* get_expiry_ms of a context without active timers
          NoCtxWait,  \* wait of the timer thread when there is no context
          QueueMax    \* messages the application's queue takes

ASSUME TimerAssumption ==
    /\ MaxIds \in Nat /\ PreAlloc \in Nat \ {0} /\ QueueMax \in Nat \ {0}
    /\ MaxMs \in Nat /\ OneWeek \in Nat /\ NoCtxWait \in Nat
    /\ Intervals \subseteq 1..MaxMs

Ids == 1..MaxIds

NoTimer == 0  \* no timer in hand

VARIABLES
    active,             \* g_app_timers: the running timers, first to expire first
    idle,               \* idle_timers
    nfree,              \* length of free_timers
    g_max_id, interval, periodic, rem,  \* ids given out and the fields of each timer
    released,           \* timers given back to free_timers
    ctx,                \* "live" until destroy_module_timer_ctx
    pc, op, hand,       \* application thread: program point, call under way, timer it holds
    users, evq,         \* g_timers of timer.c, TIMER_EVENTs in the application's queue
    tpc, expired, ms    \* timer thread: program point, its local list, wait in ms

lists == <<active, idle, nfree, g_max_id, interval, periodic, rem, released>>
app == <<pc, op, hand, users>>
thread == <<tpc, expired, ms>>
vars == <<lists, ctx, app, evq, thread>>

NoOp == [kind |-> "none", id |-> NoTimer, iv |-> 0]

\* The timer thread holds g_timer_ctx_list_mutex.
Scanning == tpc \in {"handle", "resched"}

Positions(s, id) == {i \in 1..Len(s) : s[i] = id}

In(s, id) == Positions(s, id) # {}

Init ==
    /\ active = <<>> /\ idle = {} /\ nfree = PreAlloc
    /\ g_max_id = 0 /\ released = {}
    /\ interval = [i \in Ids |-> 0] /\ periodic = {} /\ rem = [i \in Ids |-> 0]
    /\ ctx = "live"
    /\ pc = "ready" /\ op = NoOp /\ hand = NoTimer
    /\ users = {} /\ evq = <<>>
    /\ tpc = "top" /\ expired = <<>> /\ ms = 0

-----------------------------------------------------------------------------
(* The sorted list.                                                        *)

\* Where reschedule_timer inserts a timer with iv left to go: before the first
\* timer that expires strictly later, else at the end.
Place(iv) ==
    CHOOSE k \in 1..Len(active) + 1 :
        /\ k <= Len(active) => iv < rem[active[k]]
        /\ \A j \in 1..k - 1 : iv >= rem[active[j]]

InsertAt(s, k, id) == SubSeq(s, 1, k - 1) \o <<id>> \o SubSeq(s, k, Len(s))

RemoveAt(s, k) == SubSeq(s, 1, k - 1) \o SubSeq(s, k + 1, Len(s))

\* reschedule_timer under the mutex; it is followed by refresh_checker when the
\* timer became the first.
Reschedule(id, iv) ==
    /\ active' = InsertAt(active, Place(iv), id)
    /\ rem' = [rem EXCEPT ![id] = iv]

BecomesFirst(iv) == Place(iv) = 1

-----------------------------------------------------------------------------
(* The application thread.                                                 *)

\* api_timer_create and sys_create_timer: the first free timer gets the next id
\* and is started, or put on the idle list.
Create(iv, period, auto_start) ==
    LET id == g_max_id + 1 IN
    /\ pc = "ready" /\ nfree > 0 /\ id \in Ids
    /\ nfree' = nfree - 1
    /\ g_max_id' = id
    /\ interval' = [interval EXCEPT ![id] = iv]
    /\ periodic' = IF period THEN periodic \cup {id} ELSE periodic
    /\ users' = users \cup {id}
    /\ IF auto_start
       THEN /\ Reschedule(id, iv)
            /\ pc' = IF BecomesFirst(iv) THEN "refresh" ELSE "ready"
            /\ UNCHANGED idle
       ELSE /\ idle' = idle \cup {id}
            /\ UNCHANGED <<active, rem, pc>>
    /\ UNCHANGED <<released, ctx, op, hand, evq, thread>>

\* sys_timer_cancel, sys_timer_destroy and sys_timer_restart begin with
\* remove_timer, which looks for the id on the active list first.
Remove(kind, id, iv) ==
    /\ pc = "ready" /\ id \in users
    /\ op' = [kind |-> kind, id |-> id, iv |-> iv]
    /\ IF In(active, id)
       THEN \E k \in Positions(active, id) :
              /\ active' = RemoveAt(active, k)
              /\ hand' = id
              /\ pc' = IF k = 1 THEN "refresh" ELSE "put"
       ELSE pc' = "rm_idle" /\ UNCHANGED <<active, hand>>
    /\ UNCHANGED <<idle, nfree, g_max_id, interval, periodic, rem, released, ctx, users, evq, thread>>

\* api_timer_cancel drops the application's entry whatever sys_timer_cancel did.
UsersAfter == IF op.kind = "restart" THEN users ELSE users \ {op.id}

\* Then, with the mutex taken anew, on the idle list; found on neither, the call
\* returns false.
RemoveIdle ==
    /\ pc = "rm_idle"
    /\ IF op.id \in idle
       THEN /\ idle' = idle \ {op.id}
            /\ hand' = op.id
            /\ pc' = "put"
            /\ UNCHANGED <<op, users>>
       ELSE /\ pc' = "ready" /\ op' = NoOp /\ users' = UsersAfter
            /\ UNCHANGED <<idle, hand>>
    /\ UNCHANGED <<active, nfree, g_max_id, interval, periodic, rem, released, ctx, evq, thread>>

MutCancelForgets ==
    /\ pc' = "ready"
    /\ UNCHANGED <<active, idle, interval, rem, nfree, released>>

PutIdle ==
    /\ idle' = idle \cup {hand}
    /\ pc' = "ready"
    /\ UNCHANGED <<active, interval, rem, nfree, released>>

\* release_timer.
Release ==
    /\ nfree' = nfree + 1
    /\ released' = released \cup {hand}
    /\ pc' = "ready"
    /\ UNCHANGED <<active, idle, interval, rem>>

\* sys_timer_restart keeps the old interval when the new one is not positive.
Restart ==
    LET iv == IF op.iv > 0 THEN op.iv ELSE interval[hand] IN
    /\ interval' = [interval EXCEPT ![hand] = iv]
    /\ Reschedule(hand, iv)
    /\ pc' = IF BecomesFirst(iv) THEN "refresh" ELSE "ready"
    /\ UNCHANGED <<idle, nfree, released>>

\* The end of the call: what it does with the timer it took off a list.
Put ==
    /\ pc = "put"
    /\ \/ op.kind = "cancel" /\ PutIdle
       \/ op.kind = "destroy" /\ Release
       \/ op.kind = "restart" /\ Restart
    /\ hand' = NoTimer /\ op' = NoOp /\ users' = UsersAfter
    /\ UNCHANGED <<g_max_id, periodic, ctx, evq, thread>>

\* refresh_checker is wakeup_modules_timer_thread: with the list mutex, it
\* signals the timer thread if that waits; then the call goes on.
Refresh ==
    /\ pc = "refresh" /\ ~Scanning
    /\ tpc' = IF tpc = "wait" THEN "top" ELSE tpc
    /\ pc' = IF hand = NoTimer THEN "ready" ELSE "put"
    /\ UNCHANGED <<lists, ctx, op, hand, users, evq, expired, ms>>

\* on_timer_callback: the application takes a TIMER_EVENT from its queue and
\* calls the handler of that timer if it still has an entry for it.
OnTimerCallback ==
    /\ pc = "ready" /\ evq # <<>>
    /\ evq' = Tail(evq)
    /\ UNCHANGED <<lists, ctx, app, thread>>

\* The application's thread ends, and destroy_module_timer_ctx, under the list
\* mutex, takes the context off the list and frees the timers of every list.
EndApp ==
    /\ pc = "ready"
    /\ pc' = "ended"
    /\ UNCHANGED <<lists, ctx, op, hand, users, evq, thread>>

DestroyCtx ==
    /\ pc = "ended" /\ ctx = "live" /\ ~Scanning
    /\ ctx' = "destroyed"
    /\ active' = <<>> /\ idle' = {} /\ nfree' = 0
    /\ UNCHANGED <<g_max_id, interval, periodic, rem, released, app, evq, thread>>

-----------------------------------------------------------------------------
(* The timer thread.                                                       *)

\* check_app_timers takes the timers that are due off the front of the list.
DueCount == CHOOSE n \in 0..Len(active) :
    /\ \A i \in 1..n : rem[active[i]] = 0
    /\ n < Len(active) => rem[active[n + 1]] # 0

\* Each is pushed on the local list, which therefore has the last one first.
Collect ==
    /\ tpc = "top"
    /\ IF ctx = "live"
       THEN /\ expired' = [i \in 1..DueCount |-> active[DueCount + 1 - i]]
            /\ active' = SubSeq(active, DueCount + 1, Len(active))
            /\ tpc' = "handle"
            /\ UNCHANGED ms
       ELSE /\ ms' = NoCtxWait
            /\ tpc' = "prewait"
            /\ UNCHANGED <<expired, active>>
    /\ UNCHANGED <<idle, nfree, g_max_id, interval, periodic, rem, released, ctx, app, evq>>

\* handle_expired_timers: wasm_timer_callback posts the event, or the queue is
\* full and the event is dropped;
Callback ==
    /\ tpc = "handle" /\ expired # <<>>
    /\ evq' = IF Len(evq) < QueueMax THEN Append(evq, Head(expired)) ELSE evq
    /\ tpc' = "resched"
    /\ UNCHANGED <<lists, ctx, app, expired, ms>>

\* a periodic timer is started again, any other one goes idle.
AfterCallback ==
    LET id == Head(expired) IN
    /\ tpc = "resched"
    /\ IF id \in periodic
       THEN Reschedule(id, interval[id]) /\ UNCHANGED idle
       ELSE idle' = idle \cup {id} /\ UNCHANGED <<active, rem>>
    /\ expired' = Tail(expired)
    /\ tpc' = "handle"
    /\ UNCHANGED <<nfree, g_max_id, interval, periodic, released, ctx, app, evq, ms>>

\* get_expiry_ms, then the list mutex is released.
GetExpiryMs ==
    /\ tpc = "handle" /\ expired = <<>>
    /\ ms' = IF active = <<>> THEN OneWeek ELSE rem[active[1]]
    /\ tpc' = "prewait"
    /\ UNCHANGED <<lists, ctx, app, evq, expired>>

\* os_cond_reltimedwait(.., ms * 1000): the product of a long wait overflows the
\* int, and the wait is then any other, or none.
RealWait(t) == IF t <= MaxMs THEN {t} ELSE 0..MaxMs

Wait ==
    /\ tpc = "prewait"
    /\ ms' \in RealWait(ms)
    /\ tpc' = "wait"
    /\ UNCHANGED <<lists, ctx, app, evq, expired>>

MutNoTimeout ==
    /\ tpc = "wait" /\ ms < 0
    /\ tpc' = "top"
    /\ UNCHANGED <<lists, ctx, app, evq, expired, ms>>

TimedOut ==
    /\ tpc = "wait" /\ ms = 0
    /\ tpc' = "top"
    /\ UNCHANGED <<lists, ctx, app, evq, expired, ms>>

\* Time passes: for every timer, and for the thread that waits.
Tick ==
    /\ rem' = [i \in Ids |-> IF rem[i] > 0 THEN rem[i] - 1 ELSE 0]
    /\ ms' = IF tpc = "wait" /\ ms > 0 THEN ms - 1 ELSE ms
    /\ UNCHANGED <<active, idle, nfree, g_max_id, interval, periodic, released, ctx, app, evq,
                   tpc, expired>>

-----------------------------------------------------------------------------
TimerThread == Collect \/ Callback \/ AfterCallback \/ GetExpiryMs \/ Wait \/ TimedOut

AppCall ==
    \/ \E iv \in Intervals, period \in BOOLEAN, auto_start \in BOOLEAN : Create(iv, period, auto_start)
    \/ \E kind \in {"cancel", "destroy"}, id \in Ids : Remove(kind, id, 0)
    \/ \E id \in Ids, iv \in Intervals \cup {0} : Remove("restart", id, iv)
    \/ EndApp

AppContinue == RemoveIdle \/ Put \/ Refresh \/ OnTimerCallback \/ DestroyCtx

Next == TimerThread \/ AppCall \/ AppContinue \/ Tick

\* The clock advances, the timer thread runs, and a call that was begun goes on.
Fairness == WF_vars(TimerThread) /\ WF_vars(Tick) /\ WF_vars(AppContinue)

Spec == Init /\ [][Next]_vars
FairSpec == Spec /\ Fairness

-----------------------------------------------------------------------------
(* Properties.                                                             *)

\* The type invariant.
TypeOK ==
    /\ active \in Seq(Ids) /\ idle \in SUBSET Ids /\ expired \in Seq(Ids)
    /\ nfree \in 0..PreAlloc /\ g_max_id \in 0..MaxIds
    /\ interval \in [Ids -> Nat] /\ rem \in [Ids -> Nat]
    /\ periodic \in SUBSET Ids /\ released \in SUBSET Ids /\ users \in SUBSET Ids
    /\ ctx \in {"live", "destroyed"}
    /\ pc \in {"ready", "rm_idle", "put", "refresh", "ended"}
    /\ op \in [kind : {"none", "cancel", "destroy", "restart"}, id : Ids \cup {NoTimer}, iv : Nat]
    /\ hand \in Ids \cup {NoTimer}
    /\ evq \in Seq(Ids)
    /\ tpc \in {"top", "handle", "resched", "prewait", "wait"} /\ ms \in Nat

\* g_app_timers is sorted by expiry, whatever the application and the timer
\* thread insert and remove: check_app_timers stops at the first that is not due.
Sorted == \A i, j \in 1..Len(active) : i < j => rem[active[i]] <= rem[active[j]]

InHand(id) == hand = id /\ id # NoTimer

\* The number of places a timer is in.
Places(id) ==
    Cardinality(Positions(active, id)) + Cardinality(Positions(expired, id))
    + Cardinality({s \in {"idle", "hand", "free"} :
                      \/ s = "idle" /\ id \in idle
                      \/ s = "hand" /\ InHand(id)
                      \/ s = "free" /\ id \in released})

\* While the context lives, every timer created is in exactly one place: one of
\* the lists, the timer thread's local list, a call's hand or the free list.
\* So no timer is lost or linked twice when a call meets the timer thread.
OnePlace == ctx = "live" => \A id \in Ids : Places(id) = IF id <= g_max_id THEN 1 ELSE 0

\* The free list holds exactly what the living timers leave of PreAlloc.
FreeCount == ctx = "live" => nfree + Cardinality((1..g_max_id) \ released) = PreAlloc

\* destroy_timer_ctx never runs while the timer thread works on timers of the
\* context: after it the thread holds none of them.
DestroyedUnused == ctx = "destroyed" => expired = <<>> /\ ~Scanning

\* A callback is made only for a timer whose interval has passed in full: those
\* that check_app_timers has collected are due, and stay so until they are handled.
FiresWhenDue == \A i \in 1..Len(expired) : rem[expired[i]] = 0

\* The lists of the application, the timer thread and the free timers stay sound
\* while both threads insert, remove, collect and destroy, and only due timers are
\* called back.
ListsSound == Sorted /\ OnePlace /\ FreeCount /\ DestroyedUnused /\ FiresWhenDue

\* A running timer is called back, or stopped by the application, in the end.
RunningExpires == \A id \in Ids : In(active, id) ~> ~In(active, id)

\* api_timer_cancel cancels: between two calls of the application only timers
\* that it has not cancelled run.
CancelStops == pc = "ready" => \A id \in Ids : In(active, id) => id \in users
=============================================================================
