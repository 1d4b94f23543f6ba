----------------------------- MODULE Transactions -----------------------------
(***************************************************************************)
(* Requests of an application that wait for their response:                *)
(* app-framework/base/app/request.c, on top of timer.c and of the native   *)
(* timers and queue.  An application is one thread, so that its functions  *)
(* do not interleave with each other; but a response handler is a callback *)
(* in the middle of on_response and transaction_timeout_handler and may    *)
(* send the next request from there, and the clock, the timer thread and   *)
(* the peers run all the time.                                             *)
(*                                                                         *)
(* age[m] is the time since request m was sent, up to TIMEOUT; the code    *)
(* computes it modulo 2^32 and uses only how much of TIMEOUT is left.      *)
(***************************************************************************)
EXTENDS Integers, Sequences, FiniteSets

CONSTANTS Mids,         \* message ids of requests
          NoMid,        \* no request
          TIMEOUT,      \* TRANSACTION_TIMEOUT_MS
          Slots,        \* native timers of the application
          QueueMax      \* messages the application's queue takes

ASSUME TransAssumption ==
    /\ TIMEOUT \in Nat \ {0} /\ Slots \in Nat /\ QueueMax \in Nat \ {0}
    /\ NoMid \notin Mids

VARIABLES
    trans, age,           \* g_transactions, oldest first, and the age of each
    g_trans_timer,        \* number of the native timer, NULL or Dead
    timer, rem, interval, \* the native timers: state, time left, interval
    slots,                \* native timers never used so far
    pc, cur, ret, expired,\* the thread: program point, request at hand, return point, local list
    q, wire,              \* the application's queue, requests not answered yet
    spoilt                \* history: what first kept a waiting request without a timer

clock == <<g_trans_timer, timer, rem, interval, slots>>
vars == <<trans, age, clock, pc, cur, ret, expired, q, wire, spoilt>>

Timers == 1..Slots

NULL == 0          \* no timer
Dead == Slots + 1  \* a user_timer whose timer_id is -1: wasm_create_timer had none left
Home == [pc |-> "ready", cur |-> NoMid]

Waiting(m) == \E i \in 1..Len(trans) : trans[i] = m

Init ==
    /\ trans = <<>> /\ age = [m \in Mids |-> 0]
    /\ g_trans_timer = NULL /\ timer = [t \in Timers |-> "idle"]
    /\ rem = [t \in Timers |-> 0] /\ interval = [t \in Timers |-> TIMEOUT]
    /\ slots = Slots
    /\ pc = "ready" /\ cur = NoMid /\ ret = Home /\ expired = <<>>
    /\ q = <<>> /\ wire = {} /\ spoilt = "no"

-----------------------------------------------------------------------------
(* The timer of the transactions (timer.c and runtime_timer.c).            *)

Spoil(happens, cause) == IF happens /\ spoilt = "no" THEN cause ELSE spoilt

InState(t, states) == t \in Timers /\ timer[t] \in states

\* api_timer_create: a native timer that runs, or an entry without one.
StartTimer ==
    LET t == Slots - slots + 1 IN
    IF slots > 0
    THEN /\ g_trans_timer' = t
         /\ slots' = slots - 1
         /\ timer' = [timer EXCEPT ![t] = "running"]
         /\ rem' = [rem EXCEPT ![t] = TIMEOUT]
         /\ UNCHANGED <<interval, spoilt>>
    ELSE /\ g_trans_timer' = Dead
         /\ spoilt' = Spoil(TRUE, "no timer left")
         /\ UNCHANGED <<timer, rem, interval, slots>>

\* sys_timer_restart keeps the interval of the timer unless the new one, here
\* what is left for a request of age a (an unsigned difference), is positive.
NewInterval(a) == IF TIMEOUT - a > 0 THEN TIMEOUT - a ELSE interval[g_trans_timer]

\* api_timer_restart for a request of age a.
\* While the timer thread has the timer on its own list, the restart finds
\* nothing and does nothing; that is a loss once the event has been posted.
RestartTimer(a) ==
    LET t == g_trans_timer IN
    /\ IF InState(t, {"idle", "running"})
       THEN /\ timer' = [timer EXCEPT ![t] = "running"]
            /\ rem' = [rem EXCEPT ![t] = NewInterval(a)]
            /\ interval' = [interval EXCEPT ![t] = NewInterval(a)]
       ELSE UNCHANGED <<timer, rem, interval>>
    /\ spoilt' = Spoil(InState(t, {"posted"}), "restart missed")
    /\ UNCHANGED <<g_trans_timer, slots>>

\* api_timer_cancel: the entry is freed and a running native timer goes idle for
\* good.  One that the timer thread has taken is not found, and its event comes.
\* Nothing reads the time left or the interval any more.
CancelTimer ==
    /\ g_trans_timer' = NULL
    /\ timer' = [t \in Timers |->
                   IF t = g_trans_timer /\ timer[t] = "running" THEN "idle" ELSE timer[t]]
    /\ rem' = [t \in Timers |-> IF t = g_trans_timer THEN 0 ELSE rem[t]]
    /\ interval' = [t \in Timers |-> IF t = g_trans_timer THEN TIMEOUT ELSE interval[t]]
    /\ UNCHANGED <<slots, spoilt>>

\* bh_post_msg to the application's queue.
Posted(msg) == IF Len(q) < QueueMax THEN Append(q, msg) ELSE q

-----------------------------------------------------------------------------
(* Sending.                                                                *)

\* Requests are sent from any callback, response handlers included.
CanSend == pc \in {"ready", "response", "timeout"}

\* api_send_request up to transaction_add, with at most one request waiting.
SendRequest(m) ==
    /\ CanSend /\ Len(trans) <= 1
    /\ ~Waiting(m) /\ m \notin wire /\ [type |-> "resp", mid |-> m] \notin {q[i] : i \in 1..Len(q)}
    /\ \A i \in 1..Len(expired) : expired[i] # m
    /\ age' = [age EXCEPT ![m] = 0]
    /\ ret' = [pc |-> pc, cur |-> cur]
    /\ pc' = "add" /\ cur' = m
    /\ UNCHANGED <<trans, clock, expired, q, wire, spoilt>>

TailAppend == trans' = Append(trans, cur)

\* With two requests waiting the loop of transaction_add never advances: the call
\* does not return, and no step of the thread follows.  The new request's id is
\* never looked at.
SendSpins ==
    /\ CanSend /\ Len(trans) > 1
    /\ pc' = "spins"
    /\ UNCHANGED <<trans, age, clock, cur, ret, expired, q, wire, spoilt>>

\* transaction_add appends; then the timer is started for the first request, and
\* the request is posted.
TransactionAdd ==
    /\ pc = "add"
    /\ TailAppend
    /\ IF trans = <<>> /\ g_trans_timer = NULL
       THEN StartTimer
       ELSE /\ spoilt' = Spoil(g_trans_timer = NULL, "not first")
            /\ UNCHANGED clock
    /\ wire' = wire \cup {cur}
    /\ pc' = ret.pc /\ cur' = ret.cur /\ ret' = Home
    /\ UNCHANGED <<age, expired, q>>

-----------------------------------------------------------------------------
(* Responses and timeouts.                                                 *)

NextMsg(type) == pc = "ready" /\ q # <<>> /\ Head(q).type = type

MutNeverCancel ==
    IF Len(trans) > 1 THEN RestartTimer(age[trans[2]]) ELSE UNCHANGED <<clock, spoilt>>

\* What on_response does to the timer when the first request is answered.
AdjustTimer == IF Len(trans) > 1 THEN RestartTimer(age[trans[2]]) ELSE CancelTimer

\* on_response up to the call of the handler.  A response that no transaction
\* waits for is ignored.
OnResponse ==
    LET m == Head(q).mid IN
    /\ NextMsg("resp")
    /\ q' = Tail(q)
    /\ IF Waiting(m)
       THEN /\ IF trans[1] = m THEN AdjustTimer ELSE UNCHANGED <<clock, spoilt>>
            /\ pc' = "response" /\ cur' = m
       ELSE UNCHANGED <<clock, spoilt, pc, cur>>
    /\ UNCHANGED <<trans, age, ret, expired, wire>>

RemoveAt(s, i) == SubSeq(s, 1, i - 1) \o SubSeq(s, i + 1, Len(s))

\* transaction_remove of the request that was answered, where the walk meets it.
TransactionRemove ==
    trans' = IF Waiting(cur) THEN RemoveAt(trans, CHOOSE i \in 1..Len(trans) : trans[i] = cur) ELSE trans

\* The handler returned.
ResponseEnd ==
    /\ pc = "response"
    /\ TransactionRemove
    /\ pc' = "ready" /\ cur' = NoMid
    /\ UNCHANGED <<age, clock, ret, expired, q, wire, spoilt>>

\* The expired requests are a prefix of the list, for it is sorted.
ExpiredCount == CHOOSE n \in 0..Len(trans) :
    /\ \A i \in 1..n : age[trans[i]] >= TIMEOUT
    /\ n < Len(trans) => age[trans[n + 1]] < TIMEOUT

\* on_timer_callback finds the entry of the timer, unless it was cancelled, and
\* transaction_timeout_handler takes the expired requests on a list of its own,
\* the last one first.
OnTimeout ==
    /\ NextMsg("timer")
    /\ q' = Tail(q)
    /\ IF Head(q).id = g_trans_timer
       THEN /\ expired' = [i \in 1..ExpiredCount |-> trans[ExpiredCount + 1 - i]]
            /\ trans' = SubSeq(trans, ExpiredCount + 1, Len(trans))
            /\ pc' = "timeout"
       ELSE UNCHANGED <<expired, trans, pc>>
    /\ UNCHANGED <<age, clock, cur, ret, wire, spoilt>>

\* One expired request: its handler is called with no response.
TimeoutHandler ==
    /\ pc = "timeout" /\ expired # <<>>
    /\ expired' = Tail(expired)
    /\ UNCHANGED <<trans, age, clock, pc, cur, ret, q, wire, spoilt>>

MutTimeoutForgets ==
    /\ pc = "timeout" /\ expired = <<>>
    /\ UNCHANGED <<clock, spoilt>>
    /\ pc' = "ready"
    /\ UNCHANGED <<trans, age, cur, ret, expired, q, wire>>

\* Then the timer is restarted for the first request left, or stopped.
TimeoutEnd ==
    /\ pc = "timeout" /\ expired = <<>>
    /\ IF trans # <<>> THEN RestartTimer(age[trans[1]]) ELSE CancelTimer
    /\ pc' = "ready"
    /\ UNCHANGED <<trans, age, cur, ret, expired, q, wire>>

-----------------------------------------------------------------------------
(* The rest of the world.                                                  *)

\* The timer thread, as in RuntimeTimer: it takes the timer that is due on its
\* own list, posts the event, and puts the one-shot timer on the idle list.
TimerDue(t) ==
    /\ InState(t, {"running"}) /\ rem[t] = 0
    /\ timer' = [timer EXCEPT ![t] = "due"]
    /\ UNCHANGED <<trans, age, g_trans_timer, rem, interval, slots, pc, cur, ret, expired, q, wire, spoilt>>

TimerEvent(t) ==
    /\ InState(t, {"due"})
    /\ timer' = [timer EXCEPT ![t] = "posted"]
    /\ q' = Posted([type |-> "timer", id |-> t])
    /\ spoilt' = Spoil(Len(q) >= QueueMax, "queue full")
    /\ UNCHANGED <<trans, age, g_trans_timer, rem, interval, slots, pc, cur, ret, expired, wire>>

TimerIdle(t) ==
    /\ InState(t, {"posted"})
    /\ timer' = [timer EXCEPT ![t] = "idle"]
    /\ UNCHANGED <<trans, age, g_trans_timer, rem, interval, slots, pc, cur, ret, expired, q, wire, spoilt>>

\* A peer answers; the response, or the request before it, may get lost.
Reply(m) ==
    /\ m \in wire
    /\ wire' = wire \ {m}
    /\ q' = Posted([type |-> "resp", mid |-> m])
    /\ UNCHANGED <<trans, age, clock, pc, cur, ret, expired, spoilt>>

NoReply(m) ==
    /\ m \in wire
    /\ wire' = wire \ {m}
    /\ UNCHANGED <<trans, age, clock, pc, cur, ret, expired, q, spoilt>>

Tick ==
    /\ age' = [m \in Mids |-> IF age[m] < TIMEOUT THEN age[m] + 1 ELSE TIMEOUT]
    /\ rem' = [t \in Timers |-> IF timer[t] = "running" /\ rem[t] > 0 THEN rem[t] - 1 ELSE 0]
    /\ UNCHANGED <<trans, g_trans_timer, timer, interval, slots, pc, cur, ret, expired, q, wire, spoilt>>

TimerThread == \E t \in Timers : TimerDue(t) \/ TimerEvent(t) \/ TimerIdle(t)

App == TransactionAdd \/ OnResponse \/ ResponseEnd \/ OnTimeout \/ TimeoutHandler \/ TimeoutEnd

Next ==
    \/ \E m \in Mids : SendRequest(m) \/ Reply(m) \/ NoReply(m)
    \/ SendSpins
    \/ App \/ TimerThread \/ Tick

\* The application's thread, the timer thread and the clock go on; no peer has
\* to answer.
Fairness == WF_vars(App) /\ WF_vars(TimerThread) /\ WF_vars(Tick)

Spec == Init /\ [][Next]_vars
FairSpec == Spec /\ Fairness

-----------------------------------------------------------------------------
(* Properties.                                                             *)

\* What may leave a waiting request without a timer: its event was dropped by
\* the full queue; the application's native timers are spent, for timer.c never
\* gives one back; a restart came between the event and the idle list; or a
\* handler sent the request while its own, answered, was still the first.
Causes == {"queue full", "no timer left", "restart missed", "not first"}

\* The type invariant.
TypeOK ==
    /\ trans \in Seq(Mids) /\ age \in [Mids -> 0..TIMEOUT] /\ expired \in Seq(Mids)
    /\ g_trans_timer \in 0..Slots + 1 /\ timer \in [Timers -> {"idle", "running", "due", "posted"}]
    /\ rem \in [Timers -> 0..TIMEOUT] /\ interval \in [Timers -> 1..TIMEOUT] /\ slots \in 0..Slots
    /\ pc \in {"ready", "add", "spins", "response", "timeout"} /\ cur \in Mids \cup {NoMid}
    /\ Len(q) <= QueueMax /\ wire \in SUBSET Mids
    /\ spoilt \in Causes \cup {"no"}

\* The comment on transaction_add: the list is sorted by expiry time.
SortedByAge == \A i, j \in 1..Len(trans) : i < j => age[trans[i]] >= age[trans[j]]

\* Between two callbacks, while a request waits, its timer runs or has an event
\* to come or in the queue; only the four causes can spoil it.
TimerGuards ==
    pc = "ready" /\ trans # <<>> /\ spoilt = "no" =>
        /\ g_trans_timer \in Timers
        /\ \/ timer[g_trans_timer] \in {"running", "due"}
           \/ \E i \in 1..Len(q) : q[i] = [type |-> "timer", id |-> g_trans_timer]

\* Between two callbacks no timer is kept when no request waits.
TimerStopped == pc = "ready" /\ trans = <<>> => g_trans_timer = NULL

\* A handler is told of a timeout only after the full time.
NoEarlyTimeout == \A i \in 1..Len(expired) : age[expired[i]] = TIMEOUT

\* The list and its one timer fit each other between two callbacks, and no handler
\* hears of a timeout that is not one.
Guarded == SortedByAge /\ TimerGuards /\ TimerStopped /\ NoEarlyTimeout

\* Every request is answered or times out, whatever the peers do, unless one of
\* the four causes occurred, or a third request has caught the thread in the loop
\* of transaction_add.
Concludes == \A m \in Mids : Waiting(m) ~> (~Waiting(m) \/ spoilt # "no" \/ pc = "spins")

\* The comment on transaction_add: a new transaction is added to the tail of the
\* list, so that the call that sends it returns, however many wait already.
AddedToTail == pc \in {"add", "spins"} ~> pc \in {"ready", "response", "timeout"}
=============================================================================
