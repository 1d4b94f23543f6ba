------------------------- MODULE TransactionsProofs -------------------------
(***************************************************************************)
(* Proofs about Transactions for any requests, any timeout, any number of  *)
(* native timers and any length of the queue.                              *)
(***************************************************************************)
EXTENDS Transactions, ListLemmas

Messages == [type : {"resp"}, mid : Mids] \cup [type : {"timer"}, id : Timers]

\* The callback that a request is sent from, or that is under way: none, that of a
\* response or that of a timeout; and the request that a response answered.
Base == IF pc = "add" THEN ret.pc ELSE pc

Answered == IF pc = "add" THEN ret.cur ELSE cur

TypeInv ==
  /\ TypeOK /\ q \in Seq(Messages)
  /\ ret \in [pc : {"ready", "response", "timeout"}, cur : Mids \cup {NoMid}]

\* A request that is being added is not on the list, and the youngest.
Adding ==
  pc = "add" =>
    /\ cur \in Mids /\ ~Occurs(trans, cur)
    /\ \A i \in 1..Len(trans) : age[trans[i]] >= age[cur]

\* A request waits once, and the answered one until its handler has returned.
Listed == Distinct(trans) /\ (Base = "response" => Occurs(trans, Answered))

\* No timer is kept for a list that is empty, or empty but for the answered request;
\* the timeout handler has the timer whose event it handles.
Stopped ==
  /\ Base = "ready" /\ trans = <<>> => g_trans_timer = NULL
  /\ Base = "response" /\ trans = <<Answered>> => g_trans_timer = NULL
  /\ Base = "timeout" => g_trans_timer \in Timers

\* The timer runs, or its event is to come or in the queue.
Armed ==
  /\ g_trans_timer \in Timers
  /\ \/ timer[g_trans_timer] \in {"running", "due"}
     \/ \E i \in 1..Len(q) : q[i] = [type |-> "timer", id |-> g_trans_timer]

\* Unless one of the causes has spoilt it, the timer is armed for the requests that
\* wait besides the answered one; the timeout handler arms it when it ends.
Watched ==
  spoilt = "no" =>
    /\ Base = "ready" /\ trans # <<>> => Armed
    /\ Base = "response" /\ trans # <<Answered>> => Armed

IInv == TypeInv /\ Adding /\ Listed /\ Stopped /\ Watched /\ SortedByAge /\ NoEarlyTimeout

-----------------------------------------------------------------------------
(* What the operators do.                                                  *)

ClockOK ==
  /\ g_trans_timer \in 0..Slots + 1 /\ timer \in [Timers -> {"idle", "running", "due", "posted"}]
  /\ rem \in [Timers -> 0..TIMEOUT] /\ interval \in [Timers -> 1..TIMEOUT] /\ slots \in 0..Slots
  /\ spoilt \in Causes \cup {"no"}

\* The constants are numbers, and no timer has the number NULL.
LEMMA Numbers ==
  /\ TIMEOUT \in Nat /\ TIMEOUT > 0 /\ Slots \in Nat /\ QueueMax \in Nat /\ QueueMax > 0
  /\ NoMid \notin Mids /\ NULL \notin Timers /\ Timers \subseteq 0..Slots + 1 /\ NULL \in 0..Slots + 1
  BY TransAssumption DEF Timers, NULL

\* api_timer_create arms the timer, or the native timers are spent.
LEMMA StartClock ==
  ASSUME ClockOK, StartTimer
  PROVE  ClockOK' /\ (spoilt' = "no" => spoilt = "no" /\ g_trans_timer' \in Timers /\ timer'[g_trans_timer'] = "running")
  <1>1. CASE slots > 0
    <2>1. PICK t \in Timers : t = Slots - slots + 1
      BY <1>1, Numbers DEF ClockOK, Timers
    <2>2. /\ g_trans_timer' = t /\ slots' = slots - 1 /\ timer' = [timer EXCEPT ![t] = "running"]
          /\ rem' = [rem EXCEPT ![t] = TIMEOUT] /\ UNCHANGED <<interval, spoilt>>
      BY <1>1, <2>1 DEF StartTimer
    <2>3. slots' \in 0..Slots /\ TIMEOUT \in 0..TIMEOUT
      BY <1>1, <2>2, Numbers DEF ClockOK
    <2> QED BY <2>2, <2>3, Numbers DEF ClockOK
  <1>2. CASE ~(slots > 0)
    <2>1. /\ g_trans_timer' = Dead /\ spoilt' = Spoil(TRUE, "no timer left")
          /\ UNCHANGED <<timer, rem, interval, slots>>
      BY <1>2 DEF StartTimer
    <2>2. spoilt' # "no" /\ spoilt' \in Causes \cup {"no"}
      BY <2>1 DEF Spoil, ClockOK, Causes
    <2>3. Dead \in 0..Slots + 1
      BY Numbers DEF Dead
    <2> QED BY <2>1, <2>2, <2>3 DEF ClockOK
  <1> QED BY <1>1, <1>2

\* api_timer_restart leaves a timer armed that it found, or that is due; one whose
\* event was posted is missed.
LEMMA RestartClock ==
  ASSUME ClockOK, NEW a \in 0..TIMEOUT, RestartTimer(a)
  PROVE  /\ ClockOK' /\ g_trans_timer' = g_trans_timer
         /\ spoilt' = "no" =>
              spoilt = "no" /\ (g_trans_timer \in Timers => timer'[g_trans_timer] \in {"running", "due"})
  <1>0. g_trans_timer' = g_trans_timer /\ slots' = slots
    BY DEF RestartTimer
  <1>s. spoilt' = Spoil(InState(g_trans_timer, {"posted"}), "restart missed")
    BY DEF RestartTimer
  <1>t. spoilt' \in Causes \cup {"no"} /\ (spoilt' = "no" => spoilt = "no" /\ ~InState(g_trans_timer, {"posted"}))
    BY <1>s DEF Spoil, ClockOK, Causes
  <1>1. CASE InState(g_trans_timer, {"idle", "running"})
    <2>1. PICK t \in Timers : t = g_trans_timer
      BY <1>1 DEF InState
    <2>2. PICK v \in 1..TIMEOUT : v = NewInterval(a)
      <3>1. interval[t] \in 1..TIMEOUT
        BY DEF ClockOK
      <3>2. TIMEOUT - a > 0 => TIMEOUT - a \in 1..TIMEOUT
        BY Numbers
      <3> QED BY <2>1, <3>1, <3>2 DEF NewInterval
    <2>3. /\ timer' = [timer EXCEPT ![t] = "running"] /\ rem' = [rem EXCEPT ![t] = v]
          /\ interval' = [interval EXCEPT ![t] = v]
      BY <1>1, <2>1, <2>2 DEF RestartTimer
    <2>4. v \in 0..TIMEOUT
      BY <2>2, Numbers
    <2> QED BY <2>1, <2>3, <2>4, <1>0, <1>t DEF ClockOK
  <1>2. CASE ~InState(g_trans_timer, {"idle", "running"})
    <2>1. UNCHANGED <<timer, rem, interval>>
      BY <1>2 DEF RestartTimer
    <2>2. g_trans_timer \in Timers /\ spoilt' = "no" => timer[g_trans_timer] = "due"
      BY <1>2, <1>t DEF InState, ClockOK
    <2> QED BY <2>1, <2>2, <1>0, <1>t DEF ClockOK
  <1> QED BY <1>1, <1>2

\* api_timer_cancel.
LEMMA CancelClock ==
  ASSUME ClockOK, CancelTimer
  PROVE  ClockOK' /\ g_trans_timer' = NULL /\ spoilt' = spoilt
  <1>1. g_trans_timer' = NULL /\ UNCHANGED <<slots, spoilt>>
    BY DEF CancelTimer
  <1>2. TIMEOUT \in 1..TIMEOUT /\ 0 \in 0..TIMEOUT
    BY Numbers
  <1>3. timer' \in [Timers -> {"idle", "running", "due", "posted"}]
    BY DEF CancelTimer, ClockOK
  <1>4. rem' \in [Timers -> 0..TIMEOUT]
    BY <1>2 DEF CancelTimer, ClockOK
  <1>5. interval' \in [Timers -> 1..TIMEOUT]
    BY <1>2 DEF CancelTimer, ClockOK
  <1> QED BY <1>1, <1>3, <1>4, <1>5, Numbers DEF ClockOK

\* bh_post_msg keeps what is in the queue, and loses a message only when it is full.
LEMMA PostedKeeps ==
  ASSUME q \in Seq(Messages), Len(q) <= QueueMax, NEW msg \in Messages
  PROVE  /\ Posted(msg) \in Seq(Messages) /\ Len(Posted(msg)) <= QueueMax
         /\ \A x : Occurs(q, x) => Occurs(Posted(msg), x)
         /\ Len(q) < QueueMax => Occurs(Posted(msg), msg)
  <1>0. QueueMax \in Nat
    BY Numbers
  <1>1. CASE Len(q) < QueueMax
    <2>1. Posted(msg) = Append(q, msg)
      BY <1>1 DEF Posted
    <2>2. /\ Append(q, msg) \in Seq(Messages) /\ Len(Append(q, msg)) = Len(q) + 1 /\ Len(q) \in Nat
          /\ Append(q, msg)[Len(q) + 1] = msg /\ \A i \in 1..Len(q) : Append(q, msg)[i] = q[i]
      BY AppendProperties
    <2>3. Len(q) + 1 \in 1..Len(q) + 1 /\ Len(q) + 1 <= QueueMax /\ 1..Len(q) \subseteq 1..Len(q) + 1
      BY <1>0, <1>1, <2>2
    <2> QED BY <2>1, <2>2, <2>3 DEF Occurs
  <1>2. CASE ~(Len(q) < QueueMax)
    <2>1. Posted(msg) = q
      BY <1>2 DEF Posted
    <2> QED BY <1>2, <2>1
  <1> QED BY <1>1, <1>2

\* A message that is not the first stays in the queue.
LEMMA TailKeeps ==
  ASSUME q \in Seq(Messages), q # <<>>
  PROVE  /\ Head(q) \in Messages /\ Tail(q) \in Seq(Messages) /\ Len(Tail(q)) <= Len(q)
         /\ \A x : Occurs(q, x) /\ x # Head(q) => Occurs(Tail(q), x)
  <1>1. /\ Head(q) \in Messages /\ Tail(q) \in Seq(Messages) /\ Head(q) = q[1] /\ Len(q) \in Nat
        /\ Len(Tail(q)) = Len(q) - 1 /\ \A i \in 1..Len(q) - 1 : Tail(q)[i] = q[i + 1]
    OBVIOUS
  <1>2. ASSUME NEW x, Occurs(q, x), x # Head(q) PROVE Occurs(Tail(q), x)
    <2>1. PICK i \in 1..Len(q) : q[i] = x /\ i # 1
      BY <1>1, <1>2 DEF Occurs
    <2>2. i - 1 \in 1..Len(Tail(q)) /\ i - 1 \in 1..Len(q) - 1 /\ (i - 1) + 1 = i
      BY <1>1, <2>1
    <2>3. Tail(q)[i - 1] = x
      BY <1>1, <2>1, <2>2
    <2> QED BY <2>2, <2>3 DEF Occurs
  <1> QED BY <1>1, <1>2

\* The walk of transaction_timeout_handler stops at the first request that is in time.
LEMMA ExpiredExists ==
  ASSUME trans \in Seq(Mids), age \in [Mids -> 0..TIMEOUT]
  PROVE  ExpiredCount \in 0..Len(trans) /\ \A i \in 1..ExpiredCount : age[trans[i]] = TIMEOUT
  <1> DEFINE T == {j \in 1..Len(trans) : age[trans[j]] < TIMEOUT}
             P(n) == /\ \A i \in 1..n : age[trans[i]] >= TIMEOUT
                     /\ n < Len(trans) => age[trans[n + 1]] < TIMEOUT
  <1>0. Len(trans) \in Nat /\ \A j \in 1..Len(trans) : age[trans[j]] \in 0..TIMEOUT
    OBVIOUS
  <1>1. PICK k \in 1..Len(trans) + 1 : (k <= Len(trans) => k \in T) /\ \A j \in 1..k - 1 : j \notin T
    <2> HIDE DEF T
    <2> QED BY <1>0, WalkStops
  <1>2. k - 1 \in 0..Len(trans) /\ P(k - 1)
    <2>1. k - 1 \in 0..Len(trans) /\ (k - 1 < Len(trans) => k <= Len(trans)) /\ (k - 1) + 1 = k
      BY <1>0
    <2>2. ASSUME NEW i \in 1..k - 1 PROVE age[trans[i]] >= TIMEOUT
      <3>1. i \in 1..Len(trans) /\ i \notin T
        BY <1>0, <1>1
      <3> QED BY <3>1, <1>0, Numbers
    <2>3. k <= Len(trans) => age[trans[k]] < TIMEOUT
      BY <1>1
    <2> QED BY <2>1, <2>2, <2>3
  <1>3. ExpiredCount = CHOOSE n \in 0..Len(trans) : P(n)
    BY DEF ExpiredCount
  <1> HIDE DEF P
  <1>4. ExpiredCount \in 0..Len(trans) /\ P(ExpiredCount)
    BY <1>2, <1>3
  <1>5. ASSUME NEW i \in 1..ExpiredCount PROVE age[trans[i]] = TIMEOUT
    <2>1. i \in 1..Len(trans) /\ age[trans[i]] >= TIMEOUT
      BY <1>0, <1>4 DEF P
    <2> QED BY <2>1, <1>0, Numbers
  <1> QED BY <1>4, <1>5

-----------------------------------------------------------------------------
(* The invariant: one lemma per action.                                    *)

\* Nothing is pending at the start.
LEMMA InitIInv == Init => IInv
  <1> SUFFICES ASSUME Init PROVE IInv
    OBVIOUS
  <1>1. /\ trans = <<>> /\ pc = "ready" /\ cur = NoMid /\ ret = Home /\ expired = <<>> /\ q = <<>>
        /\ g_trans_timer = NULL /\ spoilt = "no" /\ Len(trans) = 0 /\ Len(expired) = 0 /\ Len(q) = 0
        /\ 1..0 = {}
    BY DEF Init
  <1>2. TypeOK
    <2>1. 0 \in 0..TIMEOUT /\ TIMEOUT \in 1..TIMEOUT /\ Slots \in 0..Slots /\ NULL \in 0..Slots + 1
      BY Numbers
    <2> QED BY <1>1, <2>1, Numbers DEF Init, TypeOK
  <1>3. TypeInv
    BY <1>1, <1>2 DEF TypeInv, Home
  <1> QED BY <1>1, <1>3 DEF IInv, Adding, Listed, Stopped, Watched, SortedByAge, NoEarlyTimeout, Base, Distinct

\* What the thread does not do: the list, the ages and the thread stay, and an armed
\* timer stays armed or is spoilt.
LEMMA Quiet ==
  ASSUME IInv, UNCHANGED <<trans, age, g_trans_timer, pc, cur, ret, expired>>,
         ClockOK', q' \in Seq(Messages), Len(q') <= QueueMax, wire' \in SUBSET Mids,
         spoilt' = "no" => spoilt = "no" /\ (Armed => Armed')
  PROVE  IInv'
  <1>1. TypeInv'
    BY DEF IInv, TypeInv, TypeOK, ClockOK
  <1>2. Base' = Base /\ Answered' = Answered
    BY DEF Base, Answered
  <1>3. Adding' /\ Listed' /\ Stopped'
    BY <1>2 DEF IInv, Adding, Listed, Stopped, Occurs, Distinct
  <1>4. Watched'
    BY <1>2 DEF IInv, Watched
  <1>5. SortedByAge' /\ NoEarlyTimeout'
    BY DEF IInv, SortedByAge, NoEarlyTimeout
  <1> QED BY <1>1, <1>3, <1>4, <1>5 DEF IInv

\* In a type-correct state.
LEMMA Typed ==
  ASSUME IInv
  PROVE  /\ ClockOK /\ q \in Seq(Messages) /\ Len(q) <= QueueMax /\ Len(q) \in Nat /\ wire \in SUBSET Mids
         /\ trans \in Seq(Mids) /\ Len(trans) \in Nat /\ age \in [Mids -> 0..TIMEOUT]
         /\ \A i \in 1..Len(trans) : trans[i] \in Mids /\ age[trans[i]] \in 0..TIMEOUT
         /\ expired \in Seq(Mids) /\ Len(expired) \in Nat
         /\ \A i \in 1..Len(expired) : expired[i] \in Mids
         /\ pc \in {"ready", "add", "spins", "response", "timeout"} /\ cur \in Mids \cup {NoMid}
         /\ ret \in [pc : {"ready", "response", "timeout"}, cur : Mids \cup {NoMid}]
  <1>1. /\ ClockOK /\ q \in Seq(Messages) /\ Len(q) <= QueueMax /\ wire \in SUBSET Mids
        /\ trans \in Seq(Mids) /\ age \in [Mids -> 0..TIMEOUT] /\ expired \in Seq(Mids)
        /\ pc \in {"ready", "add", "spins", "response", "timeout"} /\ cur \in Mids \cup {NoMid}
        /\ ret \in [pc : {"ready", "response", "timeout"}, cur : Mids \cup {NoMid}]
    BY DEF IInv, TypeInv, TypeOK, ClockOK
  <1> QED BY <1>1

\* A step of something else keeps the invariant.
LEMMA UnchangedKeeps == IInv /\ UNCHANGED vars => IInv'
  <1> SUFFICES ASSUME IInv, UNCHANGED vars PROVE IInv'
    OBVIOUS
  <1>1. ClockOK' /\ (Armed => Armed')
    BY Typed DEF vars, clock, ClockOK, Armed
  <1> QED BY <1>1, Typed, Quiet DEF vars, clock

\* The timer thread.
LEMMA TimerThreadKeeps == IInv /\ TimerThread => IInv'
  <1> SUFFICES ASSUME IInv, NEW t \in Timers, TimerDue(t) \/ TimerEvent(t) \/ TimerIdle(t) PROVE IInv'
    BY DEF TimerThread
  <1>0. UNCHANGED <<trans, age, g_trans_timer, pc, cur, ret, expired, rem, interval, slots, wire>>
    BY DEF TimerDue, TimerEvent, TimerIdle
  <1>1. CASE TimerDue(t)
    <2>1. timer' = [timer EXCEPT ![t] = "due"] /\ UNCHANGED <<q, spoilt>>
      BY <1>1 DEF TimerDue
    <2>2. ClockOK'
      BY <1>0, <2>1, Typed DEF ClockOK
    <2>3. Armed => Armed'
      BY <1>0, <2>1, Typed DEF ClockOK, Armed
    <2> QED BY <1>0, <2>1, <2>2, <2>3, Typed, Quiet
  <1>2. CASE TimerEvent(t)
    <2> PICK e \in Messages : e = [type |-> "timer", id |-> t]
      BY DEF Messages
    <2>1. /\ timer' = [timer EXCEPT ![t] = "posted"] /\ q' = Posted(e)
          /\ spoilt' = Spoil(Len(q) >= QueueMax, "queue full")
      BY <1>2 DEF TimerEvent
    <2>2. /\ q' \in Seq(Messages) /\ Len(q') <= QueueMax /\ \A x : Occurs(q, x) => Occurs(q', x)
          /\ Len(q) < QueueMax => Occurs(q', e)
      BY <2>1, Typed, PostedKeeps
    <2>3. spoilt' \in Causes \cup {"no"} /\ (spoilt' = "no" => spoilt = "no" /\ ~(Len(q) >= QueueMax))
      BY <2>1, Typed DEF Spoil, ClockOK, Causes
    <2>4. ClockOK'
      BY <1>0, <2>1, <2>3, Typed DEF ClockOK
    <2>5. ASSUME spoilt' = "no", Armed PROVE Armed'
      <3>1. Len(q) < QueueMax
        BY <2>3, <2>5, Typed, Numbers
      <3>2. CASE g_trans_timer = t
        BY <2>2, <3>1, <3>2, <1>0 DEF Armed, Occurs
      <3>3. CASE g_trans_timer # t
        <4>1. timer'[g_trans_timer] = timer[g_trans_timer]
          BY <2>1, <2>5, <3>3, Typed DEF ClockOK, Armed
        <4> QED BY <4>1, <2>2, <2>5, <1>0 DEF Armed, Occurs
      <3> QED BY <3>2, <3>3
    <2> QED BY <1>0, <2>2, <2>3, <2>4, <2>5, Typed, Quiet
  <1>3. CASE TimerIdle(t)
    <2>1. timer' = [timer EXCEPT ![t] = "idle"] /\ timer[t] = "posted" /\ UNCHANGED <<q, spoilt>>
      BY <1>3 DEF TimerIdle, InState
    <2>2. ClockOK'
      BY <1>0, <2>1, Typed DEF ClockOK
    <2>3. Armed => Armed'
      BY <1>0, <2>1, Typed DEF ClockOK, Armed
    <2> QED BY <1>0, <2>1, <2>2, <2>3, Typed, Quiet
  <1> QED BY <1>1, <1>2, <1>3

\* The peers.
LEMMA PeersKeep == ASSUME NEW m \in Mids PROVE IInv /\ (Reply(m) \/ NoReply(m)) => IInv'
  <1> SUFFICES ASSUME IInv, Reply(m) \/ NoReply(m) PROVE IInv'
    OBVIOUS
  <1>0. /\ UNCHANGED <<trans, age, clock, pc, cur, ret, expired, spoilt>> /\ wire' \in SUBSET Mids
    BY Typed DEF Reply, NoReply
  <1>1. UNCHANGED <<g_trans_timer, timer, rem, interval, slots>>
    BY <1>0 DEF clock
  <1>2. ClockOK'
    BY <1>0, <1>1, Typed DEF ClockOK
  <1>3. q' \in Seq(Messages) /\ Len(q') <= QueueMax /\ \A x : Occurs(q, x) => Occurs(q', x)
    <2>1. CASE Reply(m)
      <3> PICK e \in Messages : e = [type |-> "resp", mid |-> m]
        BY DEF Messages
      <3>1. q' = Posted(e)
        BY <2>1 DEF Reply
      <3> QED BY <3>1, Typed, PostedKeeps
    <2>2. CASE NoReply(m)
      BY <2>2, Typed DEF NoReply
    <2> QED BY <2>1, <2>2
  <1>4. Armed => Armed'
    BY <1>1, <1>3 DEF Armed, Occurs
  <1> QED BY <1>0, <1>1, <1>2, <1>3, <1>4, Typed, Quiet

\* Time passes: a timer that is armed comes closer, and nothing else moves.
LEMMA TickKeeps == IInv /\ Tick => IInv'
  <1> SUFFICES ASSUME IInv, Tick PROVE IInv'
    OBVIOUS
  <1>0. UNCHANGED <<trans, g_trans_timer, timer, interval, slots, pc, cur, ret, expired, q, wire, spoilt>>
    BY DEF Tick
  <1>1. rem' \in [Timers -> 0..TIMEOUT]
    <2>1. ASSUME NEW t \in Timers PROVE (IF timer[t] = "running" /\ rem[t] > 0 THEN rem[t] - 1 ELSE 0) \in 0..TIMEOUT
      <3>1. rem[t] \in 0..TIMEOUT
        BY Typed DEF ClockOK
      <3> QED BY <3>1, Numbers
    <2> QED BY <2>1 DEF Tick
  <1>2. /\ age' \in [Mids -> 0..TIMEOUT]
        /\ \A m \in Mids : age[m] \in 0..TIMEOUT /\ age'[m] = IF age[m] < TIMEOUT THEN age[m] + 1 ELSE TIMEOUT
    <2>1. age' = [m \in Mids |-> IF age[m] < TIMEOUT THEN age[m] + 1 ELSE TIMEOUT]
      BY DEF Tick
    <2>2. \A m \in Mids : age[m] \in 0..TIMEOUT
      BY Typed
    <2>3. ASSUME NEW m \in Mids PROVE (IF age[m] < TIMEOUT THEN age[m] + 1 ELSE TIMEOUT) \in 0..TIMEOUT
      BY <2>2, Numbers
    <2> QED BY <2>1, <2>2, <2>3
  <1>3. TypeInv'
    BY <1>0, <1>1, <1>2 DEF IInv, TypeInv, TypeOK
  <1>4. Base' = Base /\ Answered' = Answered
    BY <1>0 DEF Base, Answered
  <1>5. ASSUME NEW m \in Mids, NEW n \in Mids, age[m] >= age[n] PROVE age'[m] >= age'[n]
    <2>1. age[m] \in 0..TIMEOUT /\ age[n] \in 0..TIMEOUT
      BY <1>2
    <2>2. age'[m] = IF age[m] < TIMEOUT THEN age[m] + 1 ELSE TIMEOUT
      BY <1>2
    <2>3. age'[n] = IF age[n] < TIMEOUT THEN age[n] + 1 ELSE TIMEOUT
      BY <1>2
    <2> QED BY <1>5, <2>1, <2>2, <2>3, Numbers
  <1>6. Listed' /\ Stopped' /\ Watched'
    BY <1>0, <1>4 DEF IInv, Listed, Stopped, Watched, Armed, Occurs, Distinct
  <1>7. Adding'
    <2> SUFFICES ASSUME pc = "add"
                 PROVE  /\ cur \in Mids /\ ~Occurs(trans, cur)
                        /\ \A i \in 1..Len(trans) : age'[trans[i]] >= age'[cur]
      BY <1>0 DEF Adding, Occurs
    <2>1. /\ cur \in Mids /\ ~Occurs(trans, cur)
          /\ \A i \in 1..Len(trans) : age[trans[i]] >= age[cur]
      BY DEF IInv, Adding
    <2> QED BY <2>1, <1>5, Typed
  <1>8. SortedByAge'
    <2> SUFFICES ASSUME NEW i \in 1..Len(trans), NEW j \in 1..Len(trans), i < j
                 PROVE  age'[trans[i]] >= age'[trans[j]]
      BY <1>0 DEF SortedByAge
    <2>1. age[trans[i]] >= age[trans[j]] /\ trans[i] \in Mids /\ trans[j] \in Mids
      BY Typed DEF IInv, SortedByAge
    <2> QED BY <2>1, <1>5
  <1>9. NoEarlyTimeout'
    <2> SUFFICES ASSUME NEW i \in 1..Len(expired) PROVE age'[expired[i]] = TIMEOUT
      BY <1>0 DEF NoEarlyTimeout
    <2>1. age[expired[i]] = TIMEOUT /\ expired[i] \in Mids
      BY Typed DEF IInv, NoEarlyTimeout
    <2> QED BY <2>1, <1>2, Numbers
  <1> QED BY <1>3, <1>6, <1>7, <1>8, <1>9 DEF IInv

\* A request is sent: it is on no list and the youngest.
LEMMA SendRequestKeeps == ASSUME NEW m \in Mids PROVE IInv /\ SendRequest(m) => IInv'
  <1> SUFFICES ASSUME IInv, SendRequest(m) PROVE IInv'
    OBVIOUS
  <1>0. /\ pc \in {"ready", "response", "timeout"} /\ age' = [age EXCEPT ![m] = 0]
        /\ ret' = [pc |-> pc, cur |-> cur] /\ pc' = "add" /\ cur' = m
        /\ UNCHANGED <<trans, clock, expired, q, wire, spoilt>>
        /\ \A i \in 1..Len(trans) : trans[i] # m
        /\ \A i \in 1..Len(expired) : expired[i] # m
    BY DEF SendRequest, CanSend, Waiting
  <1>1. UNCHANGED <<g_trans_timer, timer, rem, interval, slots>>
    BY <1>0 DEF clock
  <1>2. Base' = Base /\ Answered' = Answered
    BY <1>0 DEF Base, Answered
  <1>3. /\ age' \in [Mids -> 0..TIMEOUT] /\ age'[m] = 0
        /\ \A i \in 1..Len(trans) : age'[trans[i]] = age[trans[i]] /\ age[trans[i]] \in 0..TIMEOUT
        /\ \A i \in 1..Len(expired) : age'[expired[i]] = age[expired[i]]
    <2>1. 0 \in 0..TIMEOUT
      BY Numbers
    <2> QED BY <1>0, <2>1, Typed
  <1>4. ret' \in [pc : {"ready", "response", "timeout"}, cur : Mids \cup {NoMid}]
    BY <1>0, Typed
  <1>5. TypeInv'
    BY <1>0, <1>1, <1>3, <1>4 DEF IInv, TypeInv, TypeOK
  <1>6. Listed' /\ Stopped' /\ Watched'
    BY <1>0, <1>1, <1>2 DEF IInv, Listed, Stopped, Watched, Armed, Occurs, Distinct
  <1>7. Adding'
    <2>1. \A i \in 1..Len(trans) : age'[trans[i]] >= age'[m]
      BY <1>3, Numbers
    <2> QED BY <1>0, <2>1 DEF Adding, Occurs
  <1>8. SortedByAge' /\ NoEarlyTimeout'
    BY <1>0, <1>3 DEF IInv, SortedByAge, NoEarlyTimeout
  <1> QED BY <1>5, <1>6, <1>7, <1>8 DEF IInv

\* A thread that is caught in the loop of transaction_add changes nothing any more.
LEMMA SendSpinsKeeps == IInv /\ SendSpins => IInv'
  <1> SUFFICES ASSUME IInv, SendSpins PROVE IInv'
    OBVIOUS
  <1>0. pc' = "spins" /\ UNCHANGED <<trans, age, g_trans_timer, timer, rem, interval, slots, cur, ret, expired, q, wire, spoilt>>
    BY DEF SendSpins, clock
  <1>1. TypeInv'
    BY <1>0 DEF IInv, TypeInv, TypeOK
  <1>2. Base' = "spins"
    BY <1>0 DEF Base
  <1>3. Adding' /\ SortedByAge' /\ NoEarlyTimeout'
    BY <1>0 DEF IInv, Adding, SortedByAge, NoEarlyTimeout
  <1>4. Listed'
    BY <1>0, <1>2 DEF IInv, Listed, Distinct
  <1>5. Stopped' /\ Watched'
    BY <1>2 DEF Stopped, Watched
  <1> QED BY <1>1, <1>3, <1>4, <1>5 DEF IInv

\* transaction_add: the youngest request comes last.
LEMMA TransactionAddKeeps == IInv /\ TransactionAdd => IInv'
  <1> SUFFICES ASSUME IInv, TransactionAdd PROVE IInv'
    OBVIOUS
  <1>0. /\ pc = "add" /\ trans' = Append(trans, cur) /\ wire' = wire \cup {cur}
        /\ pc' = ret.pc /\ cur' = ret.cur /\ ret' = Home /\ UNCHANGED <<age, expired, q>>
    BY DEF TransactionAdd, TailAppend
  <1>1. /\ cur \in Mids /\ \A i \in 1..Len(trans) : trans[i] # cur
        /\ \A i \in 1..Len(trans) : age[trans[i]] >= age[cur]
    BY <1>0 DEF IInv, Adding, Occurs
  <1>2. ret.pc \in {"ready", "response", "timeout"} /\ ret.cur \in Mids \cup {NoMid} /\ Home \in [pc : {"ready", "response", "timeout"}, cur : Mids \cup {NoMid}]
    BY Typed DEF Home
  <1>3. Base = ret.pc /\ Base' = ret.pc /\ Answered = ret.cur /\ Answered' = ret.cur
    BY <1>0, <1>2 DEF Base, Answered
  <1>4. /\ trans' \in Seq(Mids) /\ Len(trans') = Len(trans) + 1 /\ trans'[Len(trans) + 1] = cur
        /\ \A i \in 1..Len(trans) : trans'[i] = trans[i]
    BY <1>0, <1>1, Typed, AppendProperties
  <1>5. /\ ClockOK' /\ (spoilt' = "no" => spoilt = "no")
        /\ g_trans_timer # NULL => UNCHANGED clock
        /\ trans # <<>> => UNCHANGED clock /\ (spoilt' = "no" => g_trans_timer # NULL)
        /\ trans = <<>> /\ g_trans_timer = NULL /\ spoilt' = "no" => g_trans_timer' \in Timers /\ timer'[g_trans_timer'] = "running"
    <2>1. CASE trans = <<>> /\ g_trans_timer = NULL
      <3>1. StartTimer
        BY <2>1 DEF TransactionAdd
      <3> QED BY <2>1, <3>1, Typed, StartClock
    <2>2. CASE ~(trans = <<>> /\ g_trans_timer = NULL)
      <3>1. spoilt' = Spoil(g_trans_timer = NULL, "not first") /\ UNCHANGED clock
        BY <2>2 DEF TransactionAdd
      <3>2. spoilt' \in Causes \cup {"no"} /\ (spoilt' = "no" => spoilt = "no" /\ g_trans_timer # NULL)
        BY <3>1, Typed DEF Spoil, ClockOK, Causes
      <3>3. ClockOK'
        BY <3>1, <3>2, Typed DEF clock, ClockOK
      <3> QED BY <2>2, <3>1, <3>2, <3>3
    <2> QED BY <2>1, <2>2
  <1>6. TypeInv'
    BY <1>0, <1>1, <1>2, <1>4, <1>5, Typed DEF TypeInv, TypeOK, ClockOK
  <1>7. Adding'
    BY <1>0, <1>2 DEF Adding
  <1>8. ASSUME NEW i \in 1..Len(trans') PROVE i \in 1..Len(trans) \/ (i = Len(trans) + 1 /\ trans'[i] = cur)
    BY <1>4, Typed
  <1>9. Listed'
    <2>1. Distinct(trans)' 
      BY <1>1, <1>4, <1>8, Typed, ZenonT(60), SMTT(30) DEF IInv, Listed, Distinct
    <2>2. ASSUME Occurs(trans, Answered) PROVE Occurs(trans, Answered)'
      <3>1. PICK i \in 1..Len(trans) : trans[i] = Answered
        BY <2>2 DEF Occurs
      <3>2. i \in 1..Len(trans') /\ trans'[i] = Answered'
        BY <3>1, <1>3, <1>4, Typed
      <3> QED BY <3>2 DEF Occurs
    <2> QED BY <2>1, <2>2, <1>3 DEF IInv, Listed
  <1>10. trans' # <<>> /\ (Base = "response" => trans # <<>> /\ trans' # <<Answered>>)
    <2>1. Base = "response" => Len(trans) > 0
      BY Typed DEF IInv, Listed, Occurs
    <2>2. Len(trans') > 0 /\ (Base = "response" => Len(trans') > 1)
      BY <2>1, <1>4, Typed
    <2>3. \A x : Len(<<x>>) = 1 /\ Len(<<>>) = 0
      OBVIOUS
    <2>4. ~(0 > 0) /\ ~(1 > 1)
      OBVIOUS
    <2> QED BY <2>1, <2>2, <2>3, <2>4, Zenon
  <1>11. Stopped'
    <2>1. Base = "timeout" => g_trans_timer' \in Timers
      BY <1>5, Numbers DEF IInv, Stopped, clock
    <2> QED BY <2>1, <1>3, <1>10 DEF Stopped
  <1>12. Watched'
    <2> SUFFICES ASSUME spoilt' = "no", Base \in {"ready", "response"} PROVE Armed'
      BY <1>3 DEF Watched
    <2>1. CASE trans = <<>>
      <3>1. Base = "ready" /\ g_trans_timer = NULL
        BY <2>1, <1>10 DEF IInv, Stopped
      <3> QED BY <2>1, <3>1, <1>5 DEF Armed
    <2>2. CASE trans # <<>>
      <3>1. UNCHANGED clock /\ g_trans_timer # NULL /\ spoilt = "no"
        BY <2>2, <1>5
      <3>2. Armed
        BY <2>2, <3>1 DEF IInv, Stopped, Watched
      <3> QED BY <3>1, <3>2, <1>0 DEF Armed, clock
    <2> QED BY <2>1, <2>2
  <1>13. SortedByAge'
    <2> SUFFICES ASSUME NEW i \in 1..Len(trans'), NEW j \in 1..Len(trans'), i < j
                 PROVE  age[trans'[i]] >= age[trans'[j]]
      BY <1>0 DEF SortedByAge
    <2>1. i \in 1..Len(trans)
      BY <1>4, Typed
    <2> QED BY <2>1, <1>1, <1>4, <1>8 DEF IInv, SortedByAge
  <1>14. NoEarlyTimeout'
    BY <1>0 DEF IInv, NoEarlyTimeout
  <1> QED BY <1>6, <1>7, <1>9, <1>11, <1>12, <1>13, <1>14 DEF IInv

\* on_response: the timer is adjusted when the first request is answered.
LEMMA OnResponseKeeps == IInv /\ OnResponse => IInv'
  <1> SUFFICES ASSUME IInv, OnResponse PROVE IInv'
    OBVIOUS
  <1> PICK m : m = Head(q).mid
    OBVIOUS
  <1>0. pc = "ready" /\ q # <<>> /\ Head(q).type = "resp" /\ q' = Tail(q) /\ UNCHANGED <<trans, age, ret, expired, wire>>
    BY DEF OnResponse, NextMsg
  <1>1. q' \in Seq(Messages) /\ Len(q') <= QueueMax /\ \A x : Occurs(q, x) /\ x # Head(q) => Occurs(q', x)
    <2>1. Len(Tail(q)) <= Len(q) /\ Len(Tail(q)) \in Nat
      BY <1>0, Typed, TailKeeps
    <2> QED BY <1>0, <2>1, Typed, TailKeeps, Numbers
  <1>2. \A t : Occurs(q, [type |-> "timer", id |-> t]) => Occurs(q', [type |-> "timer", id |-> t])
    BY <1>0, <1>1
  <1>3. UNCHANGED clock /\ Armed => Armed'
    BY <1>2 DEF Armed, Occurs, clock
  <1>4. CASE ~Waiting(m)
    <2>1. UNCHANGED <<clock, spoilt, pc, cur>>
      BY <1>4 DEF OnResponse
    <2>2. ClockOK'
      BY <2>1, Typed DEF ClockOK, clock
    <2>3. g_trans_timer' = g_trans_timer
      BY <2>1 DEF clock
    <2> QED BY <2>1, <2>2, <2>3, <1>0, <1>1, <1>3, Typed, Quiet
  <1>5. CASE Waiting(m)
    <2>0. pc' = "response" /\ cur' = m /\ IF trans[1] = m THEN AdjustTimer ELSE UNCHANGED <<clock, spoilt>>
      BY <1>5 DEF OnResponse
    <2>1. Occurs(trans, m) /\ m \in Mids /\ trans # <<>> /\ Len(trans) > 0
      BY <1>5, Typed DEF Waiting, Occurs
    <2>2. Base = "ready" /\ Base' = "response" /\ Answered' = m
      BY <1>0, <2>0 DEF Base, Answered
    <2>3. /\ ClockOK' /\ (trans = <<m>> => g_trans_timer' = NULL)
          /\ spoilt' = "no" /\ trans # <<m>> => Armed'
      <3>1. CASE trans[1] = m /\ Len(trans) > 1
        <4>1. PICK a \in 0..TIMEOUT : a = age[trans[2]]
          BY <3>1, Typed
        <4>2. RestartTimer(a)
          BY <2>0, <3>1, <4>1 DEF AdjustTimer
        <4>3. /\ ClockOK' /\ g_trans_timer' = g_trans_timer
              /\ spoilt' = "no" => spoilt = "no" /\ (g_trans_timer \in Timers => timer'[g_trans_timer] \in {"running", "due"})
          BY <4>2, Typed, RestartClock
        <4>4. spoilt = "no" => g_trans_timer \in Timers
          BY <2>1, <2>2 DEF IInv, Watched, Armed
        <4>5. trans # <<m>>
          BY <3>1, Typed, Short
        <4> QED BY <4>3, <4>4, <4>5 DEF Armed
      <3>2. CASE trans[1] = m /\ ~(Len(trans) > 1)
        <4>1. trans = <<m>>
          <5>1. Len(trans) \in Nat /\ trans \in Seq(Mids)
            BY Typed
          <5>2. \A n \in Nat : n > 0 /\ ~(n > 1) => n = 1
            OBVIOUS
          <5>3. Len(trans) = 1
            BY <2>1, <3>2, <5>1, <5>2
          <5> QED BY <3>2, <5>1, <5>3, Short
        <4>2. CancelTimer
          BY <2>0, <3>2 DEF AdjustTimer
        <4> QED BY <4>1, <4>2, Typed, CancelClock
      <3>3. CASE trans[1] # m
        <4>1. UNCHANGED <<clock, spoilt>>
          BY <2>0, <3>3
        <4>2. ClockOK'
          BY <4>1, Typed DEF ClockOK, clock
        <4>3. spoilt = "no" => Armed
          BY <2>1, <2>2 DEF IInv, Watched
        <4>4. trans # <<m>>
          BY <3>3
        <4> QED BY <4>1, <4>2, <4>3, <4>4, <1>3
      <3> QED BY <3>1, <3>2, <3>3
    <2>4. TypeInv'
      BY <1>0, <1>1, <2>0, <2>1, <2>3, Typed DEF TypeInv, TypeOK, ClockOK
    <2>5. Adding' /\ SortedByAge' /\ NoEarlyTimeout'
      BY <1>0, <2>0 DEF IInv, Adding, SortedByAge, NoEarlyTimeout
    <2>6. Listed'
      BY <1>0, <2>1, <2>2 DEF IInv, Listed, Distinct, Occurs
    <2>7. Stopped' /\ Watched'
      BY <1>0, <2>2, <2>3 DEF Stopped, Watched
    <2> QED BY <2>4, <2>5, <2>6, <2>7 DEF IInv
  <1> QED BY <1>4, <1>5

\* transaction_remove of the answered request; the timer was adjusted before its
\* handler was called.
LEMMA ResponseEndKeeps == IInv /\ ResponseEnd => IInv'
  <1> SUFFICES ASSUME IInv, ResponseEnd PROVE IInv'
    OBVIOUS
  <1>0. /\ pc = "response" /\ pc' = "ready" /\ cur' = NoMid
        /\ UNCHANGED <<age, clock, ret, expired, q, wire, spoilt>>
    BY DEF ResponseEnd
  <1>1. UNCHANGED <<g_trans_timer, timer, rem, interval, slots>>
    BY <1>0 DEF clock
  <1>2. Base = "response" /\ Answered = cur /\ Base' = "ready"
    BY <1>0 DEF Base, Answered
  <1>3. Distinct(trans) /\ Occurs(trans, cur)
    BY <1>2 DEF IInv, Listed
  <1>4. PICK k \in 1..Len(trans) : trans[k] = cur /\ trans' = Without(trans, k)
    <2>1. Waiting(cur)
      BY <1>3 DEF Occurs, Waiting
    <2>2. PICK k \in 1..Len(trans) : k = CHOOSE i \in 1..Len(trans) : trans[i] = cur
      BY <2>1 DEF Waiting
    <2>3. trans[k] = cur
      BY <2>1, <2>2 DEF Waiting
    <2>4. trans' = Without(trans, k)
      BY <2>1, <2>2 DEF ResponseEnd, TransactionRemove, RemoveAt, Without
    <2> QED BY <2>3, <2>4
  <1>5. /\ trans' \in Seq(Mids) /\ Len(trans') = Len(trans) - 1
        /\ \A i \in 1..Len(trans) - 1 : trans'[i] = IF i < k THEN trans[i] ELSE trans[i + 1]
    <2>1. trans \in Seq(Mids)
      BY Typed
    <2>2. trans' \in Seq(Mids) /\ TakenOut(trans', trans, k)
      BY <1>4, <2>1, RemoveElements, Zenon
    <2> QED BY <2>2 DEF TakenOut
  <1>6. Distinct(trans')
    BY <1>3, <1>4, Typed, RemoveDistinct
  <1>7. TypeInv'
    BY <1>0, <1>1, <1>5 DEF IInv, TypeInv, TypeOK
  <1>8. Adding' /\ Listed'
    BY <1>0, <1>2, <1>6 DEF Adding, Listed, Distinct
  <1>9. trans' = <<>> <=> trans = <<cur>>
    <2>0. Len(trans) \in Nat
      BY Typed
    <2>3. trans' = <<>> <=> Len(trans') = 0
      BY <1>5, Short
    <2>1. trans' = <<>> <=> Len(trans) = 1
      BY <1>5, <2>0, <2>3
    <2>2. Len(trans) = 1 => trans[1] = cur
      BY <1>4
    <2> QED BY <2>1, <2>2, Typed, Short
  <1>10. Stopped'
    BY <1>1, <1>2, <1>9 DEF IInv, Stopped
  <1>11. Watched'
    BY <1>0, <1>1, <1>2, <1>9 DEF IInv, Watched, Armed
  <1>12. SortedByAge'
    <2> SUFFICES ASSUME NEW i \in 1..Len(trans'), NEW j \in 1..Len(trans'), i < j
                 PROVE  age[trans'[i]] >= age[trans'[j]]
      BY <1>0 DEF SortedByAge
    <2>0. Len(trans) \in Nat /\ i \in 1..Len(trans) - 1 /\ j \in 1..Len(trans) - 1
      BY <1>5, Typed
    <2>1. PICK a \in 1..Len(trans) : trans'[i] = trans[a] /\ a = IF i < k THEN i ELSE i + 1
      BY <1>5, <2>0
    <2>2. PICK b \in 1..Len(trans) : trans'[j] = trans[b] /\ b = IF j < k THEN j ELSE j + 1
      BY <1>5, <2>0
    <2>3. a < b
      BY <2>1, <2>2
    <2> QED BY <2>1, <2>2, <2>3 DEF IInv, SortedByAge
  <1>13. NoEarlyTimeout'
    BY <1>0 DEF IInv, NoEarlyTimeout
  <1> QED BY <1>7, <1>8, <1>10, <1>11, <1>12, <1>13 DEF IInv

\* on_timer_callback: the expired requests are a prefix of the list.
LEMMA OnTimeoutKeeps == IInv /\ OnTimeout => IInv'
  <1> SUFFICES ASSUME IInv, OnTimeout PROVE IInv'
    OBVIOUS
  <1>0. /\ pc = "ready" /\ q # <<>> /\ Head(q).type = "timer" /\ q' = Tail(q)
        /\ UNCHANGED <<age, clock, cur, ret, wire, spoilt>>
    BY DEF OnTimeout, NextMsg
  <1>1. UNCHANGED <<g_trans_timer, timer, rem, interval, slots>>
    BY <1>0 DEF clock
  <1>2. /\ q' \in Seq(Messages) /\ Len(q') <= QueueMax /\ Head(q) \in Messages
        /\ \A x : Occurs(q, x) /\ x # Head(q) => Occurs(q', x)
    <2>1. Len(Tail(q)) <= Len(q) /\ Len(Tail(q)) \in Nat
      BY <1>0, Typed, TailKeeps
    <2> QED BY <1>0, <2>1, Typed, TailKeeps, Numbers
  <1>3. Head(q).id \in Timers
    BY <1>0, <1>2 DEF Messages
  <1>4. ClockOK'
    BY <1>0, <1>1, Typed DEF ClockOK
  <1>5. CASE Head(q).id # g_trans_timer
    <2>1. UNCHANGED <<expired, trans, pc>>
      BY <1>5 DEF OnTimeout
    <2>2. \A x : x = [type |-> "timer", id |-> g_trans_timer] /\ Occurs(q, x) => Occurs(q', x)
      BY <1>2, <1>5
    <2>3. Armed => Armed'
      BY <1>1, <2>2 DEF Armed, Occurs
    <2> QED BY <1>0, <1>1, <1>2, <1>4, <2>1, <2>3, Typed, Quiet
  <1>6. CASE Head(q).id = g_trans_timer
    <2> PICK n \in 0..Len(trans) : n = ExpiredCount
      BY Typed, ExpiredExists
    <2>1. expired' = Taken(trans, n) /\ trans' = Behind(trans, n) /\ pc' = "timeout"
      BY <1>6 DEF OnTimeout, Taken, Behind
    <2>2. \A i \in 1..n : age[trans[i]] = TIMEOUT
      BY Typed, ExpiredExists
    <2>3. /\ trans' \in Seq(Mids) /\ Distinct(trans') /\ Len(trans') = Len(trans) - n
          /\ expired' \in Seq(Mids) /\ Len(expired') = n
          /\ \A i \in 1..Len(trans) - n : trans'[i] = trans[n + i]
      <3>1. trans \in Seq(Mids) /\ Distinct(trans)
        BY Typed DEF IInv, Listed
      <3>2. /\ Behind(trans, n) \in Seq(Mids) /\ Distinct(Behind(trans, n))
            /\ Len(Behind(trans, n)) = Len(trans) - n
            /\ Taken(trans, n) \in Seq(Mids) /\ Len(Taken(trans, n)) = n
            /\ \A i \in 1..Len(trans) - n : Behind(trans, n)[i] = trans[n + i]
        BY <3>1, CutDistinct
      <3> QED BY <2>1, <3>2
    <2>4. Base' = "timeout"
      BY <2>1 DEF Base
    <2>5. TypeInv'
      BY <1>0, <1>1, <1>2, <2>1, <2>3 DEF IInv, TypeInv, TypeOK
    <2>6. Adding' /\ Listed'
      BY <2>1, <2>3, <2>4 DEF Adding, Listed, Distinct
    <2>7. Stopped' /\ Watched'
      BY <1>1, <1>3, <1>6, <2>4 DEF Stopped, Watched
    <2>8. SortedByAge'
      <3> SUFFICES ASSUME NEW i \in 1..Len(trans'), NEW j \in 1..Len(trans'), i < j
                   PROVE  age[trans'[i]] >= age[trans'[j]]
        BY <1>0 DEF SortedByAge
      <3>1. n + i \in 1..Len(trans) /\ n + j \in 1..Len(trans) /\ n + i < n + j
        <4>1. Len(trans) \in Nat /\ Len(trans') = Len(trans) - n
          BY <2>3, Typed
        <4>2. PICK k \in Nat : k = Len(trans)
          BY <4>1
        <4>3. i \in 1..k - n /\ j \in 1..k - n
          BY <4>1, <4>2
        <4> QED BY <4>2, <4>3
      <3>2. trans'[i] = trans[n + i] /\ trans'[j] = trans[n + j]
        BY <2>3
      <3> QED BY <3>1, <3>2 DEF IInv, SortedByAge
    <2>9. NoEarlyTimeout'
      <3> SUFFICES ASSUME NEW i \in 1..n PROVE age[expired'[i]] = TIMEOUT
        BY <1>0, <2>3 DEF NoEarlyTimeout
      <3>1. n + 1 - i \in 1..n
        OBVIOUS
      <3>2. expired'[i] = trans[n + 1 - i]
        BY <2>1 DEF Taken
      <3> QED BY <3>1, <3>2, <2>2
    <2> QED BY <2>5, <2>6, <2>7, <2>8, <2>9 DEF IInv
  <1> QED BY <1>5, <1>6

\* The handler of one expired request.
LEMMA TimeoutHandlerKeeps == IInv /\ TimeoutHandler => IInv'
  <1> SUFFICES ASSUME IInv, TimeoutHandler PROVE IInv'
    OBVIOUS
  <1>0. /\ expired # <<>> /\ expired' = Tail(expired)
        /\ UNCHANGED <<trans, age, clock, pc, cur, ret, q, wire, spoilt>>
    BY DEF TimeoutHandler
  <1>1. UNCHANGED <<g_trans_timer, timer, rem, interval, slots>>
    BY <1>0 DEF clock
  <1>2. /\ expired' \in Seq(Mids) /\ Len(expired') = Len(expired) - 1
        /\ \A i \in 1..Len(expired) - 1 : expired'[i] = expired[i + 1]
    BY <1>0, Typed
  <1>3. Base' = Base /\ Answered' = Answered
    BY <1>0 DEF Base, Answered
  <1>4. TypeInv'
    BY <1>0, <1>1, <1>2 DEF IInv, TypeInv, TypeOK
  <1>5. Adding' /\ SortedByAge'
    BY <1>0 DEF IInv, Adding, SortedByAge, Occurs
  <1>6. Listed' /\ Stopped' /\ Watched'
    BY <1>0, <1>1, <1>3 DEF IInv, Listed, Stopped, Watched, Armed, Occurs, Distinct
  <1>7. NoEarlyTimeout'
    <2> SUFFICES ASSUME NEW i \in 1..Len(expired) - 1 PROVE age[expired'[i]] = TIMEOUT
      BY <1>0, <1>2 DEF NoEarlyTimeout
    <2>1. i + 1 \in 1..Len(expired)
      BY Typed
    <2> QED BY <2>1, <1>2 DEF IInv, NoEarlyTimeout
  <1> QED BY <1>4, <1>5, <1>6, <1>7 DEF IInv

\* The end of transaction_timeout_handler.
LEMMA TimeoutEndKeeps == IInv /\ TimeoutEnd => IInv'
  <1> SUFFICES ASSUME IInv, TimeoutEnd PROVE IInv'
    OBVIOUS
  <1>0. pc = "timeout" /\ pc' = "ready" /\ UNCHANGED <<trans, age, cur, ret, expired, q, wire>>
    BY DEF TimeoutEnd
  <1>1. Base = "timeout" /\ Base' = "ready" /\ g_trans_timer \in Timers
    BY <1>0 DEF Base, IInv, Stopped
  <1>2. /\ ClockOK' /\ (trans = <<>> => g_trans_timer' = NULL)
        /\ trans # <<>> /\ spoilt' = "no" => Armed'
    <2>1. CASE trans # <<>>
      <3>1. PICK a \in 0..TIMEOUT : a = age[trans[1]]
        <4>1. 1 \in 1..Len(trans)
          BY <2>1, Typed, Short
        <4> QED BY <4>1, Typed
      <3>2. RestartTimer(a)
        BY <2>1, <3>1 DEF TimeoutEnd
      <3>3. /\ ClockOK' /\ g_trans_timer' = g_trans_timer
            /\ spoilt' = "no" => (g_trans_timer \in Timers => timer'[g_trans_timer] \in {"running", "due"})
        BY <3>2, Typed, RestartClock
      <3> QED BY <2>1, <3>3, <1>1 DEF Armed
    <2>2. CASE trans = <<>>
      <3>1. CancelTimer
        BY <2>2 DEF TimeoutEnd
      <3> QED BY <2>2, <3>1, Typed, CancelClock
    <2> QED BY <2>1, <2>2
  <1>3. TypeInv'
    BY <1>0, <1>2, Typed DEF TypeInv, TypeOK, ClockOK
  <1>4. Adding' /\ SortedByAge' /\ NoEarlyTimeout'
    BY <1>0 DEF IInv, Adding, SortedByAge, NoEarlyTimeout
  <1>5. Listed'
    BY <1>0, <1>1 DEF IInv, Listed, Distinct
  <1>6. Stopped' /\ Watched'
    BY <1>0, <1>1, <1>2 DEF Stopped, Watched
  <1> QED BY <1>3, <1>4, <1>5, <1>6 DEF IInv

-----------------------------------------------------------------------------
(* The theorems.                                                           *)

\* Every step keeps the invariant.
LEMMA NextIInv == IInv /\ [Next]_vars => IInv'
  <1> SUFFICES ASSUME IInv, [Next]_vars PROVE IInv'
    OBVIOUS
  <1>1. CASE \E m \in Mids : SendRequest(m) \/ Reply(m) \/ NoReply(m)
    BY <1>1, SendRequestKeeps, PeersKeep
  <1>2. CASE App
    BY <1>2, TransactionAddKeeps, OnResponseKeeps, ResponseEndKeeps, OnTimeoutKeeps, TimeoutHandlerKeeps,
       TimeoutEndKeeps DEF App
  <1>3. CASE TimerThread
    BY <1>3, TimerThreadKeeps
  <1>4. CASE Tick
    BY <1>4, TickKeeps
  <1>5. CASE SendSpins
    BY <1>5, SendSpinsKeeps
  <1>6. CASE UNCHANGED vars
    BY <1>6, UnchangedKeeps
  <1> QED BY <1>1, <1>2, <1>3, <1>4, <1>5, <1>6 DEF Next

\* The list of the waiting requests and the one timer of transaction_add, on_response
\* and transaction_timeout_handler fit each other, whatever number of requests is
\* sent from the handlers, however the timer thread and the clock come in between:
\* between two callbacks the requests that wait have a timer that runs or an event
\* that comes, unless one of the four causes occurred, none is kept without one, the
\* list is sorted by expiry, and no handler hears of a timeout too early.
THEOREM GuardedCorrect == Spec => []Guarded
  <1>1. Init => IInv
    BY InitIInv
  <1>2. IInv /\ [Next]_vars => IInv'
    BY NextIInv
  <1>3. IInv => Guarded
    BY DEF IInv, Guarded, TimerGuards, TimerStopped, Stopped, Watched, Armed, Base
  <1> QED BY <1>1, <1>2, <1>3, PTL DEF Spec
=============================================================================
