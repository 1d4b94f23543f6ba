------------------------- MODULE RuntimeTimerProofs -------------------------
(***************************************************************************)
(* Proofs about RuntimeTimer for any number of timers, any intervals and   *)
(* any length of the application's queue.                                  *)
(***************************************************************************)
EXTENDS RuntimeTimer, FiniteSetTheorems, ListLemmas

\* The types; that nfree stays within PreAlloc follows from the count of timers.
TypeInv ==
  /\ active \in Seq(Ids) /\ idle \in SUBSET Ids /\ expired \in Seq(Ids)
  /\ nfree \in Nat /\ g_max_id \in 0..MaxIds
  /\ interval \in [Ids -> Nat] /\ rem \in [Ids -> Nat]
  /\ periodic \in SUBSET Ids /\ released \in SUBSET Ids /\ users \in SUBSET Ids
  /\ ctx \in {"live", "destroyed"}
  /\ pc \in {"ready", "rm_idle", "put", "refresh", "ended"}
  /\ op \in [kind : {"none", "cancel", "destroy", "restart"}, id : Ids \cup {NoTimer}, iv : Nat]
  /\ hand \in Ids \cup {NoTimer}
  /\ tpc \in {"top", "handle", "resched", "prewait", "wait"}

\* A call has a timer in its hand only between taking it off a list and putting
\* it away; the timer thread has timers only during its scan; and once the
\* context is destroyed nothing is left on the lists and nobody works on them.
Holders ==
  /\ pc \in {"ready", "rm_idle", "ended"} => hand = NoTimer
  /\ pc = "put" => hand # NoTimer
  /\ ~Scanning => expired = <<>>
  /\ tpc = "resched" => expired # <<>>
  /\ ctx = "destroyed" => pc = "ended" /\ ~Scanning /\ active = <<>>

\* No timer is linked twice.
LinkedOnce == Distinct(active) /\ Distinct(expired)

\* No timer is in two places,
Apart(id) ==
  /\ Occurs(active, id) => ~Occurs(expired, id) /\ id \notin idle /\ hand # id /\ id \notin released
  /\ Occurs(expired, id) => id \notin idle /\ hand # id /\ id \notin released
  /\ id \in idle => hand # id /\ id \notin released
  /\ hand = id => id \notin released

\* and every one that was created is in some place.
Somewhere(id) ==
  Occurs(active, id) \/ Occurs(expired, id) \/ id \in idle \/ hand = id \/ id \in released

Placed == ctx = "live" => \A id \in Ids : Apart(id) /\ (Somewhere(id) <=> id <= g_max_id)

IInv == TypeInv /\ Holders /\ LinkedOnce /\ Placed /\ Sorted /\ FiresWhenDue /\ FreeCount

-----------------------------------------------------------------------------
(* The sorted list.                                                        *)

\* reschedule_timer finds a place.
LEMMA PlaceExists ==
  ASSUME active \in Seq(Ids), rem \in [Ids -> Nat], NEW iv \in Nat
  PROVE  /\ Place(iv) \in 1..Len(active) + 1
         /\ Place(iv) <= Len(active) => iv < rem[active[Place(iv)]]
         /\ \A j \in 1..Place(iv) - 1 : iv >= rem[active[j]]
  <1> DEFINE T == {j \in 1..Len(active) : iv < rem[active[j]]}
             P(k) == /\ k <= Len(active) => iv < rem[active[k]]
                     /\ \A j \in 1..k - 1 : iv >= rem[active[j]]
  <1>0. Len(active) \in Nat /\ \A j \in 1..Len(active) : rem[active[j]] \in Nat
    OBVIOUS
  <1>1. PICK k \in 1..Len(active) + 1 : (k <= Len(active) => k \in T) /\ \A j \in 1..k - 1 : j \notin T
    <2> HIDE DEF T
    <2> QED BY <1>0, WalkStops
  <1>2. P(k)
    <2>1. k <= Len(active) => iv < rem[active[k]]
      BY <1>1
    <2>2. ASSUME NEW j \in 1..k - 1 PROVE iv >= rem[active[j]]
      <3>1. j \in 1..Len(active) /\ j \notin T
        BY <1>0, <1>1
      <3> QED BY <3>1, <1>0
    <2> QED BY <2>1, <2>2
  <1>3. Place(iv) = CHOOSE m \in 1..Len(active) + 1 : P(m)
    BY DEF Place
  <1> HIDE DEF P
  <1>4. Place(iv) \in 1..Len(active) + 1 /\ P(Place(iv))
    BY <1>2, <1>3
  <1> QED BY <1>4 DEF P

\* reschedule_timer of a timer that is not on the list keeps it sorted and links
\* the timer once.
LEMMA Rescheduled ==
  ASSUME active \in Seq(Ids), rem \in [Ids -> Nat], Sorted, Distinct(active),
         NEW id \in Ids, ~Occurs(active, id), NEW iv \in Nat, Reschedule(id, iv)
  PROVE  /\ active' \in Seq(Ids) /\ rem' \in [Ids -> Nat] /\ Sorted' /\ Distinct(active')
         /\ \A x : Occurs(active', x) <=> Occurs(active, x) \/ x = id
         /\ \A x \in Ids : rem'[x] = IF x = id THEN iv ELSE rem[x]
  <1>1. PICK k \in 1..Len(active) + 1 :
          /\ active' = With(active, k, id)
          /\ k <= Len(active) => iv < rem[active[k]]
          /\ \A j \in 1..k - 1 : iv >= rem[active[j]]
    BY PlaceExists DEF Reschedule, InsertAt, With
  <1>2. rem' \in [Ids -> Nat] /\ \A x \in Ids : rem'[x] = IF x = id THEN iv ELSE rem[x]
    BY DEF Reschedule
  <1>3. /\ active' \in Seq(Ids) /\ Distinct(active')
        /\ \A x : Occurs(active', x) <=> Occurs(active, x) \/ x = id
    BY <1>1, InsertDistinct
  <1>4. /\ Len(active') = Len(active) + 1 /\ Len(active) \in Nat
        /\ \A i \in 1..Len(active) + 1 :
             active'[i] = IF i < k THEN active[i] ELSE IF i = k THEN id ELSE active[i - 1]
    <2>1. active' = With(active, k, id)
      BY <1>1
    <2>2. PutIn(active', active, k, id)
      BY <2>1, InsertElements, Zenon
    <2> QED BY <2>2 DEF PutIn
  <1>5. \A i \in 1..Len(active) :
          active[i] \in Ids /\ rem'[active[i]] = rem[active[i]] /\ rem[active[i]] \in Nat
    BY <1>2 DEF Occurs
  <1>6. Sorted'
    <2> SUFFICES ASSUME NEW i \in 1..Len(active) + 1, NEW j \in 1..Len(active) + 1, i < j
                 PROVE  rem'[active'[i]] <= rem'[active'[j]]
      BY <1>4 DEF Sorted
    <2>0. rem'[id] = iv
      BY <1>2
    <2>1. CASE j < k
      <3>1. active'[i] = active[i] /\ active'[j] = active[j] /\ i \in 1..Len(active) /\ j \in 1..Len(active)
        BY <2>1, <1>4
      <3> QED BY <3>1, <1>5 DEF Sorted
    <2>2. CASE j = k
      <3>0. i < k /\ i \in 1..Len(active) /\ i \in 1..k - 1
        BY <2>2, <1>4
      <3>1. active'[i] = active[i] /\ active'[j] = id
        BY <2>2, <3>0, <1>4
      <3>2. iv >= rem[active[i]]
        BY <3>0, <1>1
      <3>3. rem'[active'[i]] = rem[active[i]] /\ rem[active[i]] \in Nat
        BY <3>0, <3>1, <1>5
      <3>4. rem'[active'[j]] = iv
        BY <3>1, <2>0, Zenon
      <3> QED BY <3>2, <3>3, <3>4
    <2>3. CASE j > k /\ i = k
      <3>1. active'[i] = id /\ active'[j] = active[j - 1] /\ j - 1 \in 1..Len(active) /\ j - 1 >= k
        BY <2>3, <1>4
      <3>2. iv < rem[active[k]] /\ k \in 1..Len(active)
        BY <3>1, <1>4, <1>1
      <3>3. rem[active[k]] <= rem[active[j - 1]]
        <4>1. CASE k = j - 1
          BY <4>1, <1>5, <3>2
        <4>2. CASE k < j - 1
          BY <4>2, <3>1, <3>2 DEF Sorted
        <4> QED BY <4>1, <4>2, <3>1
      <3>4. rem'[active'[i]] = iv
        BY <3>1, <2>0, Zenon
      <3>5. rem'[active[j - 1]] = rem[active[j - 1]] /\ rem[active[j - 1]] \in Nat
        BY <3>1, <1>5
      <3>6. rem[active[k]] \in Nat
        BY <3>2, <1>5
      <3>7. iv <= rem[active[j - 1]]
        BY <3>2, <3>3, <3>5, <3>6
      <3> QED BY <3>1, <3>4, <3>5, <3>7
    <2>4. CASE j > k /\ i < k
      <3>1. i < j - 1 /\ i \in 1..Len(active) /\ j - 1 \in 1..Len(active) /\ ~(j < k) /\ j # k
        BY <2>4, <1>4
      <3>2. active'[i] = active[i] /\ active'[j] = active[j - 1]
        BY <2>4, <3>1, <1>4
      <3>3. rem[active[i]] <= rem[active[j - 1]]
        BY <3>1 DEF Sorted
      <3>4. rem'[active[i]] = rem[active[i]] /\ rem'[active[j - 1]] = rem[active[j - 1]]
        BY <3>1, <1>5
      <3> QED BY <3>2, <3>3, <3>4
    <2>5. CASE j > k /\ i > k
      <3>1. /\ i - 1 < j - 1 /\ i - 1 \in 1..Len(active) /\ j - 1 \in 1..Len(active)
            /\ ~(j < k) /\ j # k /\ ~(i < k) /\ i # k
        BY <2>5, <1>4, SMTT(30), ZenonT(30)
      <3>2. active'[i] = active[i - 1] /\ active'[j] = active[j - 1]
        BY <3>1, <1>4
      <3>3. rem[active[i - 1]] <= rem[active[j - 1]]
        BY <3>1 DEF Sorted
      <3>4. rem'[active[i - 1]] = rem[active[i - 1]] /\ rem'[active[j - 1]] = rem[active[j - 1]]
        BY <3>1, <1>5
      <3> QED BY <3>2, <3>3, <3>4
    <2>6. j < k \/ j = k \/ (j > k /\ i = k) \/ (j > k /\ i < k) \/ (j > k /\ i > k)
      OBVIOUS
    <2> QED BY <2>1, <2>2, <2>3, <2>4, <2>5, <2>6
  <1> QED BY <1>2, <1>3, <1>6

\* check_app_timers stops at the first timer that is not due.
LEMMA DueExists ==
  ASSUME active \in Seq(Ids), rem \in [Ids -> Nat]
  PROVE  DueCount \in 0..Len(active) /\ \A i \in 1..DueCount : rem[active[i]] = 0
  <1> DEFINE T == {j \in 1..Len(active) : rem[active[j]] # 0}
             P(n) == /\ \A i \in 1..n : rem[active[i]] = 0
                     /\ n < Len(active) => rem[active[n + 1]] # 0
  <1>0. Len(active) \in Nat
    OBVIOUS
  <1>1. PICK k \in 1..Len(active) + 1 : (k <= Len(active) => k \in T) /\ \A j \in 1..k - 1 : j \notin T
    <2> HIDE DEF T
    <2> QED BY <1>0, WalkStops
  <1>2. k - 1 \in 0..Len(active) /\ P(k - 1)
    <2>1. k - 1 \in 0..Len(active) /\ (k - 1 < Len(active) => k <= Len(active)) /\ (k - 1) + 1 = k
      BY <1>0
    <2>2. ASSUME NEW i \in 1..k - 1 PROVE rem[active[i]] = 0
      <3>1. i \in 1..Len(active) /\ i \notin T
        BY <1>0, <1>1
      <3> QED BY <3>1
    <2>3. k <= Len(active) => rem[active[k]] # 0
      BY <1>1
    <2> QED BY <2>1, <2>2, <2>3
  <1>3. DueCount = CHOOSE n \in 0..Len(active) : P(n)
    BY DEF DueCount
  <1> HIDE DEF P
  <1>4. DueCount \in 0..Len(active) /\ P(DueCount)
    BY <1>2, <1>3
  <1> QED BY <1>4 DEF P

-----------------------------------------------------------------------------
(* The inductive invariant.                                                *)

\* No timer exists yet.
LEMMA InitIInv == ASSUME Init PROVE IInv
  <1>1. TypeInv
    BY TimerAssumption DEF Init, TypeInv, Ids, NoOp, NoTimer
  <1>2. Holders /\ LinkedOnce /\ Sorted /\ FiresWhenDue
    BY DEF Init, Holders, LinkedOnce, Distinct, Sorted, FiresWhenDue, Scanning
  <1>3. Placed
    BY DEF Init, Placed, Apart, Somewhere, Occurs, Ids, NoTimer
  <1>4. FreeCount
    <2>1. (1..g_max_id) \ released = {} /\ nfree = PreAlloc
      BY DEF Init
    <2>2. PreAlloc \in Nat
      BY TimerAssumption
    <2> QED BY <2>1, <2>2, FS_EmptySet DEF FreeCount
  <1> QED BY <1>1, <1>2, <1>3, <1>4 DEF IInv

\* A step that leaves the lists, the hand and the context alone keeps what is said of them.
LEMMA Quiet ==
  ASSUME IInv, TypeInv', Holders',
         UNCHANGED <<active, idle, nfree, g_max_id, released, rem, ctx, hand, expired>>
  PROVE  IInv'
  <1>1. LinkedOnce'
    BY DEF IInv, LinkedOnce
  <1>2. Placed'
    BY DEF IInv, Placed, Apart, Somewhere
  <1>3. Sorted' /\ FiresWhenDue'
    BY DEF IInv, Sorted, FiresWhenDue
  <1>4. FreeCount'
    BY DEF IInv, FreeCount
  <1> QED BY <1>1, <1>2, <1>3, <1>4 DEF IInv

\* The timers that are not on the free list can be counted.
LEMMA CountFinite ==
  ASSUME TypeInv
  PROVE  IsFiniteSet((1..g_max_id) \ released) /\ Cardinality((1..g_max_id) \ released) \in Nat
  <1>1. g_max_id \in Nat
    BY TimerAssumption DEF TypeInv
  <1>2. IsFiniteSet(1..g_max_id)
    BY <1>1, FS_Interval
  <1> QED BY <1>2, FS_Difference, FS_CardinalityType

\* sys_create_timer.
LEMMA CreateStep ==
  ASSUME IInv, NEW iv \in Intervals, NEW period \in BOOLEAN, NEW auto_start \in BOOLEAN,
         Create(iv, period, auto_start)
  PROVE  IInv'
  <1>0. PICK id \in Ids : id = g_max_id + 1
    BY DEF Create
  <1>a. TypeInv /\ Holders /\ LinkedOnce /\ Placed /\ Sorted /\ FiresWhenDue /\ FreeCount
    BY DEF IInv
  <1>b. /\ pc = "ready" /\ nfree > 0 /\ nfree' = nfree - 1 /\ g_max_id' = id
        /\ interval' = [interval EXCEPT ![id] = iv] /\ users' = users \cup {id}
        /\ periodic' = (IF period THEN periodic \cup {id} ELSE periodic)
        /\ UNCHANGED <<released, ctx, op, hand, tpc, expired>>
    BY <1>0 DEF Create, thread
  <1>c. /\ g_max_id \in Nat /\ id \in 0..MaxIds /\ \A x \in Ids : x \in Nat /\ x # NoTimer
    <2>1. MaxIds \in Nat
      BY TimerAssumption
    <2> QED BY <2>1, <1>0, <1>a DEF TypeInv, Ids, NoTimer
  <1>d. ctx = "live" /\ hand = NoTimer
    BY <1>a, <1>b DEF Holders, TypeInv
  <1>e. ~Somewhere(id)
    BY <1>a, <1>c, <1>d, <1>0 DEF Placed
  <1>f. iv \in Nat
    BY TimerAssumption
  <1>g. /\ active' \in Seq(Ids) /\ idle' \in SUBSET Ids /\ rem' \in [Ids -> Nat]
        /\ Sorted' /\ Distinct(active') /\ pc' \in {"ready", "refresh"}
        /\ \A x \in Ids : x # id => rem'[x] = rem[x]
        /\ \/ /\ idle' = idle /\ \A x : Occurs(active', x) <=> Occurs(active, x) \/ x = id
           \/ idle' = idle \cup {id} /\ active' = active
    <2>1. CASE auto_start
      <3>1. Reschedule(id, iv) /\ idle' = idle /\ pc' \in {"ready", "refresh"}
        BY <2>1, <1>0 DEF Create
      <3>2. ~Occurs(active, id)
        BY <1>e DEF Somewhere
      <3>3. /\ active' \in Seq(Ids) /\ rem' \in [Ids -> Nat] /\ Sorted' /\ Distinct(active')
            /\ \A x : Occurs(active', x) <=> Occurs(active, x) \/ x = id
            /\ \A x \in Ids : rem'[x] = IF x = id THEN iv ELSE rem[x]
        BY <1>a, <1>f, <3>1, <3>2, Rescheduled DEF TypeInv, LinkedOnce
      <3> QED BY <3>1, <3>3, <1>a DEF TypeInv
    <2>2. CASE ~auto_start
      <3>1. idle' = idle \cup {id} /\ UNCHANGED <<active, rem, pc>>
        BY <2>2, <1>0 DEF Create
      <3> QED BY <3>1, <1>a, <1>b DEF TypeInv, LinkedOnce, Sorted
    <2> QED BY <2>1, <2>2
  <1>1. TypeInv'
    <2>1. nfree' \in Nat
      BY <1>a, <1>b DEF TypeInv
    <2>2. interval' \in [Ids -> Nat] /\ users' \in SUBSET Ids /\ periodic' \in SUBSET Ids
      BY <1>a, <1>b, <1>f DEF TypeInv
    <2> QED BY <2>1, <2>2, <1>a, <1>b, <1>c, <1>g DEF TypeInv
  <1>2. Holders'
    BY <1>a, <1>b, <1>d, <1>g DEF Holders, Scanning
  <1>3. LinkedOnce'
    BY <1>a, <1>b, <1>g DEF LinkedOnce
  <1>4. Placed'
    <2> SUFFICES ASSUME NEW x \in Ids PROVE Apart(x)' /\ (Somewhere(x)' <=> x <= id)
      BY <1>b DEF Placed
    <2>1. Apart(x) /\ (Somewhere(x) <=> x <= g_max_id)
      BY <1>a, <1>d DEF Placed
    <2>2. x <= id <=> x <= g_max_id \/ x = id
      BY <1>0, <1>c
    <2>3. CASE x = id
      BY <2>3, <1>b, <1>c, <1>d, <1>e, <1>g DEF Apart, Somewhere
    <2>4. CASE x # id
      BY <2>1, <2>2, <2>4, <1>b, <1>g DEF Apart, Somewhere
    <2> QED BY <2>3, <2>4
  <1>5. FiresWhenDue'
    <2>1. expired \in Seq(Ids)
      BY <1>a DEF TypeInv
    <2>2. \A i \in 1..Len(expired) : expired[i] \in Ids
      BY <2>1
    <2>3. \A i \in 1..Len(expired) : expired[i] # id
      BY <1>e, Zenon DEF Somewhere, Occurs
    <2> QED BY <2>2, <2>3, <1>a, <1>b, <1>g DEF FiresWhenDue
  <1>6. FreeCount'
    <2> DEFINE A == (1..g_max_id) \ released
    <2>1. IsFiniteSet(A) /\ Cardinality(A) \in Nat
      BY <1>a, CountFinite
    <2>2. (1..g_max_id') \ released' = A \cup {id} /\ id \notin A
      <3>1. id \notin released
        BY <1>e DEF Somewhere
      <3> QED BY <3>1, <1>0, <1>b, <1>c
    <2>3. Cardinality(A \cup {id}) = Cardinality(A) + 1
      BY <2>1, <2>2, FS_AddElement
    <2>4. nfree + Cardinality(A) = PreAlloc
      BY <1>a, <1>d DEF FreeCount
    <2> HIDE DEF A
    <2>5. nfree \in Nat /\ nfree' = nfree - 1
      BY <1>a, <1>b DEF TypeInv
    <2>6. Cardinality((1..g_max_id') \ released') = Cardinality(A) + 1
      BY <2>2, <2>3
    <2>7. nfree' + (Cardinality(A) + 1) = PreAlloc
      BY <2>1, <2>4, <2>5
    <2> QED BY <2>6, <2>7 DEF FreeCount
  <1> QED BY <1>1, <1>2, <1>3, <1>4, <1>5, <1>6, <1>g DEF IInv

\* remove_timer on the active list.
LEMMA RemoveStep ==
  ASSUME IInv, NEW kind \in {"cancel", "destroy", "restart"}, NEW id \in Ids, NEW iv \in Nat,
         Remove(kind, id, iv)
  PROVE  IInv'
  <1>a. TypeInv /\ Holders /\ LinkedOnce /\ Placed /\ Sorted /\ FiresWhenDue /\ FreeCount
    BY DEF IInv
  <1>b. /\ pc = "ready" /\ op' = [kind |-> kind, id |-> id, iv |-> iv]
        /\ UNCHANGED <<idle, nfree, g_max_id, interval, periodic, rem, released, ctx, users, tpc, expired>>
    BY DEF Remove, thread
  <1>c. ctx = "live" /\ hand = NoTimer /\ NoTimer \notin Ids
    BY <1>a, <1>b DEF Holders, TypeInv, Ids, NoTimer
  <1>1. CASE In(active, id)
    <2>1. PICK k \in Positions(active, id) : active' = Without(active, k) /\ hand' = id /\ pc' \in {"refresh", "put"}
      BY <1>1 DEF Remove, RemoveAt, Without
    <2>2. k \in 1..Len(active) /\ active[k] = id /\ active \in Seq(Ids) /\ Distinct(active)
      BY <1>a DEF Positions, TypeInv, LinkedOnce
    <2>3. active' \in Seq(Ids) /\ Distinct(active') /\ \A x : Occurs(active', x) <=> Occurs(active, x) /\ x # id
      BY <2>1, <2>2, RemoveDistinct
    <2>4. TypeInv'
      BY <1>a, <1>b, <2>1, <2>3 DEF TypeInv
    <2>5. Holders'
      BY <1>a, <1>b, <1>c, <2>1 DEF Holders, Scanning
    <2>6. LinkedOnce'
      BY <1>a, <1>b, <2>3 DEF LinkedOnce
    <2>7. Occurs(active, id)
      BY <2>2 DEF Occurs
    <2>8. Placed'
      <3> SUFFICES ASSUME NEW x \in Ids PROVE Apart(x)' /\ (Somewhere(x)' <=> x <= g_max_id)
        BY <1>b DEF Placed
      <3>1. Apart(x) /\ (Somewhere(x) <=> x <= g_max_id)
        BY <1>a, <1>c DEF Placed
      <3>2. CASE x = id
        BY <3>1, <3>2, <1>b, <2>1, <2>3, <2>7 DEF Apart, Somewhere
      <3>3. CASE x # id
        BY <3>1, <3>3, <1>b, <1>c, <2>1, <2>3 DEF Apart, Somewhere
      <3> QED BY <3>2, <3>3
    <2>9. Sorted'
      <3>1. /\ Len(active') = Len(active) - 1 /\ Len(active) \in Nat
            /\ \A i \in 1..Len(active) - 1 : active'[i] = IF i < k THEN active[i] ELSE active[i + 1]
        <4>1. TakenOut(active', active, k)
          BY <2>1, <2>2, RemoveElements, Zenon
        <4> QED BY <4>1 DEF TakenOut
      <3>2. ASSUME NEW i \in 1..Len(active) - 1, NEW j \in 1..Len(active) - 1, i < j
            PROVE  \E u, v \in 1..Len(active) : u < v /\ active'[i] = active[u] /\ active'[j] = active[v]
        <4>1. i + 1 \in 1..Len(active) /\ j + 1 \in 1..Len(active) /\ i \in 1..Len(active) /\ j \in 1..Len(active)
          BY <3>1
        <4>2. CASE j < k
          BY <4>1, <4>2, <3>1, <3>2, <2>2
        <4>3. CASE i < k /\ j >= k
          <5>1. active'[i] = active[i] /\ active'[j] = active[j + 1] /\ i < j + 1
            BY <4>3, <3>1, <3>2, <2>2
          <5> QED BY <5>1, <4>1
        <4>4. CASE i >= k
          <5>1. active'[i] = active[i + 1] /\ active'[j] = active[j + 1] /\ i + 1 < j + 1
            BY <4>4, <3>1, <3>2, <2>2
          <5> QED BY <5>1, <4>1
        <4>5. j < k \/ (i < k /\ j >= k) \/ i >= k
          BY <2>2
        <4> QED BY <4>2, <4>3, <4>4, <4>5
      <3>3. ASSUME NEW i \in 1..Len(active'), NEW j \in 1..Len(active'), i < j
            PROVE  rem'[active'[i]] <= rem'[active'[j]]
        <4>1. PICK u \in 1..Len(active), v \in 1..Len(active) :
                 u < v /\ active'[i] = active[u] /\ active'[j] = active[v]
          <5>1. i \in 1..Len(active) - 1 /\ j \in 1..Len(active) - 1
            BY <3>1, Zenon
          <5> QED BY <5>1, <3>2, <3>3, Zenon
        <4> QED BY <4>1, <1>a, <1>b DEF Sorted
      <3> QED BY <3>3 DEF Sorted
    <2>10. FiresWhenDue' /\ FreeCount'
      BY <1>a, <1>b DEF FiresWhenDue, FreeCount
    <2> QED BY <2>4, <2>5, <2>6, <2>8, <2>9, <2>10 DEF IInv
  <1>2. CASE ~In(active, id)
    <2>1. pc' = "rm_idle" /\ UNCHANGED <<active, hand>>
      BY <1>2 DEF Remove
    <2>2. TypeInv'
      BY <1>a, <1>b, <2>1 DEF TypeInv
    <2>3. Holders'
      BY <1>a, <1>b, <1>c, <2>1 DEF Holders, Scanning
    <2> QED BY <2>1, <2>2, <2>3, <1>b, Quiet
  <1> QED BY <1>1, <1>2

\* remove_timer on the idle list.
LEMMA RemoveIdleStep == ASSUME IInv, RemoveIdle PROVE IInv'
  <1>a. TypeInv /\ Holders /\ LinkedOnce /\ Placed /\ Sorted /\ FiresWhenDue /\ FreeCount
    BY DEF IInv
  <1>b. /\ pc = "rm_idle"
        /\ UNCHANGED <<active, nfree, g_max_id, interval, periodic, rem, released, ctx, tpc, expired>>
    BY DEF RemoveIdle, thread
  <1>c. ctx = "live" /\ hand = NoTimer /\ NoTimer \notin Ids
    BY <1>a, <1>b DEF Holders, TypeInv, Ids, NoTimer
  <1>1. CASE op.id \in idle
    <2>1. PICK id \in Ids : id = op.id /\ id \in idle
      BY <1>1, <1>a DEF TypeInv
    <2>2. idle' = idle \ {id} /\ hand' = id /\ pc' = "put" /\ UNCHANGED <<op, users>>
      BY <1>1, <2>1 DEF RemoveIdle
    <2>3. TypeInv'
      BY <1>a, <1>b, <2>2 DEF TypeInv
    <2>4. Holders'
      BY <1>a, <1>b, <1>c, <2>1, <2>2 DEF Holders, Scanning
    <2>5. LinkedOnce' /\ Sorted' /\ FiresWhenDue' /\ FreeCount'
      BY <1>a, <1>b DEF LinkedOnce, Sorted, FiresWhenDue, FreeCount
    <2>6. Placed'
      <3> SUFFICES ASSUME NEW x \in Ids PROVE Apart(x)' /\ (Somewhere(x)' <=> x <= g_max_id)
        BY <1>b DEF Placed
      <3>1. Apart(x) /\ (Somewhere(x) <=> x <= g_max_id)
        BY <1>a, <1>c DEF Placed
      <3>2. CASE x = id
        BY <3>1, <3>2, <1>b, <2>1, <2>2 DEF Apart, Somewhere
      <3>3. CASE x # id
        BY <3>1, <3>3, <1>b, <1>c, <2>2 DEF Apart, Somewhere
      <3> QED BY <3>2, <3>3
    <2> QED BY <2>3, <2>4, <2>5, <2>6 DEF IInv
  <1>2. CASE op.id \notin idle
    <2>1. pc' = "ready" /\ op' = NoOp /\ users' = UsersAfter /\ UNCHANGED <<idle, hand>>
      BY <1>2 DEF RemoveIdle
    <2>2. TypeInv'
      BY <1>a, <1>b, <2>1 DEF TypeInv, NoOp, UsersAfter
    <2>3. Holders'
      BY <1>a, <1>b, <1>c, <2>1 DEF Holders, Scanning
    <2> QED BY <2>1, <2>2, <2>3, <1>b, Quiet
  <1> QED BY <1>1, <1>2

\* The end of sys_timer_cancel, sys_timer_destroy and sys_timer_restart.
LEMMA PutStep == ASSUME IInv, Put PROVE IInv'
  <1>a. TypeInv /\ Holders /\ LinkedOnce /\ Placed /\ Sorted /\ FiresWhenDue /\ FreeCount
    BY DEF IInv
  <1>b. /\ pc = "put" /\ hand' = NoTimer /\ op' = NoOp /\ users' = UsersAfter
        /\ UNCHANGED <<g_max_id, periodic, ctx, tpc, expired>>
    BY DEF Put, thread
  <1>c. ctx = "live" /\ NoTimer \notin Ids
    BY <1>a, <1>b DEF Holders, TypeInv, Ids, NoTimer
  <1>h. PICK id \in Ids : hand = id
    BY <1>a, <1>b DEF Holders, TypeInv
  <1>o. op' \in [kind : {"none", "cancel", "destroy", "restart"}, id : Ids \cup {NoTimer}, iv : Nat]
        /\ users' \in SUBSET Ids
    BY <1>a, <1>b DEF TypeInv, NoOp, UsersAfter
  <1>p. /\ ~Occurs(active, id) /\ ~Occurs(expired, id) /\ id \notin idle /\ id \notin released /\ id <= g_max_id
        /\ \A x \in Ids : Apart(x) /\ (Somewhere(x) <=> x <= g_max_id)
    BY <1>a, <1>c, <1>h DEF Placed, Apart, Somewhere
  <1>1. CASE PutIdle
    <2>1. idle' = idle \cup {id} /\ pc' = "ready" /\ UNCHANGED <<active, interval, rem, nfree, released>>
      BY <1>1, <1>h DEF PutIdle
    <2>2. TypeInv'
      BY <1>a, <1>b, <1>o, <2>1 DEF TypeInv
    <2>3. Holders'
      BY <1>a, <1>b, <1>c, <2>1 DEF Holders, Scanning
    <2>4. LinkedOnce' /\ Sorted' /\ FiresWhenDue' /\ FreeCount'
      BY <1>a, <1>b, <2>1 DEF LinkedOnce, Sorted, FiresWhenDue, FreeCount
    <2>5. Placed'
      <3> SUFFICES ASSUME NEW x \in Ids PROVE Apart(x)' /\ (Somewhere(x)' <=> x <= g_max_id)
        BY <1>b DEF Placed
      <3> QED BY <1>b, <1>c, <1>h, <1>p, <2>1 DEF Apart, Somewhere
    <2> QED BY <2>2, <2>3, <2>4, <2>5 DEF IInv
  <1>2. CASE Release
    <2>1. nfree' = nfree + 1 /\ released' = released \cup {id} /\ pc' = "ready" /\ UNCHANGED <<active, idle, interval, rem>>
      BY <1>2, <1>h DEF Release
    <2>2. TypeInv'
      BY <1>a, <1>b, <1>o, <2>1, SMTT(30), ZenonT(30) DEF TypeInv
    <2>3. Holders'
      BY <1>a, <1>b, <1>c, <2>1 DEF Holders, Scanning
    <2>4. LinkedOnce' /\ Sorted' /\ FiresWhenDue'
      BY <1>a, <1>b, <2>1 DEF LinkedOnce, Sorted, FiresWhenDue
    <2>5. Placed'
      <3> SUFFICES ASSUME NEW x \in Ids PROVE Apart(x)' /\ (Somewhere(x)' <=> x <= g_max_id)
        BY <1>b DEF Placed
      <3> QED BY <1>b, <1>c, <1>h, <1>p, <2>1 DEF Apart, Somewhere
    <2>6. FreeCount'
      <3> DEFINE A == (1..g_max_id) \ released
      <3>1. IsFiniteSet(A) /\ Cardinality(A) \in Nat
        BY <1>a, CountFinite
      <3>2. (1..g_max_id') \ released' = A \ {id} /\ id \in A
        <4>1. id \in 1..g_max_id
          BY <1>p, <1>a, TimerAssumption DEF Ids, TypeInv
        <4> QED BY <4>1, <1>b, <1>p, <2>1
      <3>3. Cardinality(A \ {id}) = Cardinality(A) - 1
        BY <3>1, <3>2, FS_RemoveElement
      <3>4. nfree + Cardinality(A) = PreAlloc
        BY <1>a, <1>c DEF FreeCount
      <3> HIDE DEF A
      <3>5. nfree \in Nat /\ nfree' = nfree + 1
        BY <1>a, <2>1 DEF TypeInv
      <3>6. Cardinality((1..g_max_id') \ released') = Cardinality(A) - 1
        BY <3>2, <3>3
      <3>7. nfree' + (Cardinality(A) - 1) = PreAlloc
        BY <3>1, <3>4, <3>5
      <3> QED BY <3>6, <3>7 DEF FreeCount
    <2> QED BY <2>2, <2>3, <2>4, <2>5, <2>6 DEF IInv
  <1>3. CASE Restart
    <2>1. PICK iv \in Nat : /\ interval' = [interval EXCEPT ![id] = iv] /\ Reschedule(id, iv)
                            /\ pc' \in {"refresh", "ready"} /\ UNCHANGED <<idle, nfree, released>>
      <3>1. op.iv \in Nat /\ interval[id] \in Nat
        BY <1>a DEF TypeInv
      <3> QED BY <3>1, <1>3, <1>h DEF Restart
    <2>2. /\ active' \in Seq(Ids) /\ rem' \in [Ids -> Nat] /\ Sorted' /\ Distinct(active')
          /\ \A x : Occurs(active', x) <=> Occurs(active, x) \/ x = id
          /\ \A x \in Ids : rem'[x] = IF x = id THEN iv ELSE rem[x]
      BY <1>a, <1>p, <2>1, Rescheduled DEF TypeInv, LinkedOnce
    <2>3. TypeInv'
      BY <1>a, <1>b, <1>o, <2>1, <2>2 DEF TypeInv
    <2>4. Holders'
      BY <1>a, <1>b, <1>c, <2>1 DEF Holders, Scanning
    <2>5. LinkedOnce' /\ FreeCount'
      BY <1>a, <1>b, <2>1, <2>2 DEF LinkedOnce, FreeCount
    <2>6. Placed'
      <3> SUFFICES ASSUME NEW x \in Ids PROVE Apart(x)' /\ (Somewhere(x)' <=> x <= g_max_id)
        BY <1>b DEF Placed
      <3> QED BY <1>b, <1>c, <1>h, <1>p, <2>1, <2>2 DEF Apart, Somewhere
    <2>7. FiresWhenDue'
      <3>0. expired \in Seq(Ids)
        BY <1>a DEF TypeInv
      <3>1. \A i \in 1..Len(expired) : expired[i] \in Ids
        BY <3>0
      <3>2. \A i \in 1..Len(expired) : expired[i] # id
        BY <1>p, Zenon DEF Occurs
      <3> QED BY <3>1, <3>2, <1>a, <1>b, <2>2 DEF FiresWhenDue
    <2> QED BY <2>2, <2>3, <2>4, <2>5, <2>6, <2>7 DEF IInv
  <1> QED BY <1>1, <1>2, <1>3 DEF Put

\* destroy_module_timer_ctx.
LEMMA DestroyStep == ASSUME IInv, DestroyCtx PROVE IInv'
  <1>a. TypeInv /\ Holders /\ LinkedOnce /\ Placed /\ Sorted /\ FiresWhenDue /\ FreeCount
    BY DEF IInv
  <1>b. /\ pc = "ended" /\ ~Scanning /\ ctx' = "destroyed" /\ active' = <<>> /\ idle' = {} /\ nfree' = 0
        /\ UNCHANGED <<g_max_id, interval, periodic, rem, released, pc, op, hand, users, tpc, expired>>
    BY DEF DestroyCtx, app, thread
  <1>1. TypeInv'
    BY <1>a, <1>b DEF TypeInv
  <1>2. Holders'
    BY <1>a, <1>b DEF Holders, Scanning
  <1>3. LinkedOnce' /\ Sorted' /\ FiresWhenDue'
    BY <1>a, <1>b DEF LinkedOnce, Distinct, Sorted, FiresWhenDue
  <1>4. Placed' /\ FreeCount'
    BY <1>b DEF Placed, FreeCount
  <1> QED BY <1>1, <1>2, <1>3, <1>4 DEF IInv

\* check_app_timers up to the callbacks.
LEMMA CollectStep == ASSUME IInv, Collect PROVE IInv'
  <1>a. TypeInv /\ Holders /\ LinkedOnce /\ Placed /\ Sorted /\ FiresWhenDue /\ FreeCount
    BY DEF IInv
  <1>b. /\ tpc = "top"
        /\ UNCHANGED <<idle, nfree, g_max_id, interval, periodic, rem, released, ctx, pc, op, hand, users>>
    BY DEF Collect, app
  <1>c. expired = <<>>
    BY <1>a, <1>b DEF Holders, Scanning
  <1>1. CASE ctx = "live"
    <2>0. active \in Seq(Ids) /\ rem \in [Ids -> Nat] /\ Distinct(active)
      BY <1>a DEF TypeInv, LinkedOnce
    <2>1. PICK n \in 0..Len(active) :
            /\ expired' = Taken(active, n) /\ active' = Behind(active, n)
            /\ tpc' = "handle" /\ \A i \in 1..n : rem[active[i]] = 0
      BY <1>1, <2>0, DueExists DEF Collect, Taken, Behind
    <2>2. /\ active' \in Seq(Ids) /\ Distinct(active') /\ expired' \in Seq(Ids) /\ Distinct(expired')
          /\ Len(expired') = n /\ Len(active') = Len(active) - n
          /\ \A i \in 1..Len(active) - n : active'[i] = active[n + i]
          /\ \A x : Occurs(active, x) <=> Occurs(active', x) \/ Occurs(expired', x)
          /\ \A x : ~(Occurs(active', x) /\ Occurs(expired', x))
      <3> DEFINE t == Behind(active, n)
                 u == Taken(active, n)
      <3>1. /\ t \in Seq(Ids) /\ Distinct(t) /\ u \in Seq(Ids) /\ Distinct(u)
            /\ Len(u) = n /\ Len(t) = Len(active) - n
            /\ \A i \in 1..Len(active) - n : t[i] = active[n + i]
            /\ \A x : Occurs(active, x) <=> Occurs(t, x) \/ Occurs(u, x)
            /\ \A x : ~(Occurs(t, x) /\ Occurs(u, x))
        BY <2>0, CutDistinct
      <3>2. active' = t /\ expired' = u
        BY <2>1
      <3> QED BY <3>1, <3>2
    <2>3. TypeInv'
      BY <1>a, <1>b, <2>1, <2>2 DEF TypeInv
    <2>4. Holders'
      BY <1>a, <1>b, <1>1, <2>1 DEF Holders, Scanning
    <2>5. LinkedOnce' /\ FreeCount'
      BY <1>a, <1>b, <2>2 DEF LinkedOnce, FreeCount
    <2>6. Placed'
      <3> SUFFICES ASSUME NEW x \in Ids PROVE Apart(x)' /\ (Somewhere(x)' <=> x <= g_max_id)
        BY <1>b DEF Placed
      <3>1. Apart(x) /\ (Somewhere(x) <=> x <= g_max_id) /\ ~Occurs(expired, x)
        BY <1>a, <1>1, <1>c DEF Placed, Occurs
      <3> QED BY <3>1, <1>b, <2>2 DEF Apart, Somewhere
    <2>7. Sorted'
      <3>1. Len(active) \in Nat /\ n \in Nat
        BY <2>0
      <3>2. ASSUME NEW i \in 1..Len(active) - n, NEW j \in 1..Len(active) - n, i < j
            PROVE  rem[active[n + i]] <= rem[active[n + j]]
        <4>1. n + i \in 1..Len(active) /\ n + j \in 1..Len(active) /\ n + i < n + j
          BY <3>1, <3>2
        <4> QED BY <4>1, <1>a DEF Sorted
      <3>3. Len(active') = Len(active) - n /\ rem' = rem
        BY <2>2, <1>b
      <3>4. ASSUME NEW i \in 1..Len(active'), NEW j \in 1..Len(active'), i < j
            PROVE  rem'[active'[i]] <= rem'[active'[j]]
        <4>1. i \in 1..Len(active) - n /\ j \in 1..Len(active) - n
          BY <3>3, Zenon
        <4>2. active'[i] = active[n + i] /\ active'[j] = active[n + j]
          BY <4>1, <2>2, Zenon
        <4>3. rem[active[n + i]] <= rem[active[n + j]]
          BY <4>1, <3>2, <3>4, Zenon
        <4> QED BY <4>2, <4>3, <3>3, Zenon
      <3> QED BY <3>4 DEF Sorted
    <2>8. FiresWhenDue'
      <3>1. ASSUME NEW i \in 1..n PROVE rem[expired'[i]] = 0
        <4>1. n + 1 - i \in 1..n /\ expired'[i] = active[n + 1 - i]
          BY <2>1 DEF Taken
        <4> QED BY <4>1, <2>1
      <3> QED BY <3>1, <2>2, <1>b DEF FiresWhenDue
    <2> QED BY <2>3, <2>4, <2>5, <2>6, <2>7, <2>8 DEF IInv
  <1>2. CASE ctx # "live"
    <2>1. tpc' = "prewait" /\ UNCHANGED <<expired, active>>
      BY <1>2 DEF Collect
    <2>2. TypeInv'
      BY <1>a, <1>b, <2>1 DEF TypeInv
    <2>3. Holders'
      BY <1>a, <1>b, <1>c, <2>1 DEF Holders, Scanning
    <2> QED BY <2>1, <2>2, <2>3, <1>b, Quiet
  <1> QED BY <1>1, <1>2

\* handle_expired_timers, after a callback.
LEMMA AfterCallbackStep == ASSUME IInv, AfterCallback PROVE IInv'
  <1>a. TypeInv /\ Holders /\ LinkedOnce /\ Placed /\ Sorted /\ FiresWhenDue /\ FreeCount
    BY DEF IInv
  <1>b. /\ tpc = "resched" /\ expired' = Tail(expired) /\ tpc' = "handle"
        /\ UNCHANGED <<nfree, g_max_id, interval, periodic, released, ctx, pc, op, hand, users>>
    BY DEF AfterCallback, app
  <1>c. ctx = "live" /\ expired # <<>> /\ expired \in Seq(Ids) /\ Distinct(expired)
    BY <1>a, <1>b DEF Holders, TypeInv, LinkedOnce, Scanning
  <1>d. /\ expired' \in Seq(Ids) /\ Head(expired) \in Ids /\ Distinct(expired') /\ Occurs(expired, Head(expired))
        /\ \A x : Occurs(expired', x) <=> Occurs(expired, x) /\ x # Head(expired)
        /\ Len(expired') = Len(expired) - 1 /\ \A i \in 1..Len(expired) - 1 : expired'[i] = expired[i + 1]
    BY <1>b, <1>c, TailDistinct
  <1>e. PICK id \in Ids : id = Head(expired)
    BY <1>d
  <1>p. /\ ~Occurs(active, id) /\ Occurs(expired, id) /\ id \notin idle /\ hand # id /\ id \notin released /\ id <= g_max_id
        /\ \A x \in Ids : Apart(x) /\ (Somewhere(x) <=> x <= g_max_id)
    BY <1>a, <1>c, <1>d, <1>e DEF Placed, Apart, Somewhere
  <1>g. /\ active' \in Seq(Ids) /\ idle' \in SUBSET Ids /\ rem' \in [Ids -> Nat] /\ Sorted' /\ Distinct(active')
        /\ \A x \in Ids : x # id => rem'[x] = rem[x]
        /\ \/ /\ idle' = idle /\ \A x : Occurs(active', x) <=> Occurs(active, x) \/ x = id
           \/ idle' = idle \cup {id} /\ active' = active
    <2>1. CASE id \in periodic
      <3>1. Reschedule(id, interval[id]) /\ idle' = idle
        BY <2>1, <1>e DEF AfterCallback
      <3>2. PICK iv \in Nat : iv = interval[id]
        BY <1>a DEF TypeInv
      <3>3. /\ active' \in Seq(Ids) /\ rem' \in [Ids -> Nat] /\ Sorted' /\ Distinct(active')
            /\ \A x : Occurs(active', x) <=> Occurs(active, x) \/ x = id
            /\ \A x \in Ids : rem'[x] = IF x = id THEN iv ELSE rem[x]
        BY <1>a, <1>p, <3>1, <3>2, Rescheduled DEF TypeInv, LinkedOnce
      <3> QED BY <3>1, <3>3, <1>a DEF TypeInv
    <2>2. CASE id \notin periodic
      <3>1. idle' = idle \cup {id} /\ UNCHANGED <<active, rem>>
        BY <2>2, <1>e DEF AfterCallback
      <3> QED BY <3>1, <1>a DEF TypeInv, LinkedOnce, Sorted
    <2> QED BY <2>1, <2>2
  <1>1. TypeInv'
    BY <1>a, <1>b, <1>d, <1>g DEF TypeInv
  <1>2. Holders'
    BY <1>a, <1>b, <1>c DEF Holders, Scanning
  <1>3. LinkedOnce' /\ FreeCount'
    BY <1>a, <1>b, <1>d, <1>g DEF LinkedOnce, FreeCount
  <1>4. Placed'
    <2> SUFFICES ASSUME NEW x \in Ids PROVE Apart(x)' /\ (Somewhere(x)' <=> x <= g_max_id)
      BY <1>b DEF Placed
    <2>1. CASE x = id
      BY <2>1, <1>b, <1>d, <1>e, <1>g, <1>p DEF Apart, Somewhere
    <2>2. CASE x # id
      BY <2>2, <1>b, <1>d, <1>e, <1>g, <1>p DEF Apart, Somewhere
    <2> QED BY <2>1, <2>2
  <1>5. FiresWhenDue'
    <2>1. ASSUME NEW i \in 1..Len(expired') PROVE rem'[expired'[i]] = 0
      <3>1. i \in 1..Len(expired) - 1 /\ i + 1 \in 1..Len(expired)
        BY <1>c, <1>d
      <3>2. expired'[i] = expired[i + 1] /\ rem[expired[i + 1]] = 0
        BY <3>1, <1>a, <1>d DEF FiresWhenDue
      <3>3. expired'[i] \in Ids /\ expired'[i] # id
        <4>1. Occurs(expired', expired'[i])
          BY <2>1 DEF Occurs
        <4> QED BY <4>1, <2>1, <1>d, <1>e
      <3> QED BY <3>2, <3>3, <1>g
    <2> QED BY <2>1 DEF FiresWhenDue
  <1> QED BY <1>1, <1>2, <1>3, <1>4, <1>5, <1>g DEF IInv

\* The clock.
LEMMA TickStep == ASSUME IInv, Tick PROVE IInv'
  <1>a. TypeInv /\ Holders /\ LinkedOnce /\ Placed /\ Sorted /\ FiresWhenDue /\ FreeCount
    BY DEF IInv
  <1>b. UNCHANGED <<active, idle, nfree, g_max_id, interval, periodic, released, ctx, pc, op, hand, users, tpc, expired>>
    BY DEF Tick, app
  <1>c. /\ rem' \in [Ids -> Nat] /\ active \in Seq(Ids) /\ expired \in Seq(Ids)
        /\ \A x \in Ids : rem[x] \in Nat /\ rem'[x] = IF rem[x] > 0 THEN rem[x] - 1 ELSE 0
    BY <1>a DEF Tick, TypeInv
  <1>1. TypeInv'
    BY <1>a, <1>b, <1>c DEF TypeInv
  <1>2. Holders'
    BY <1>a, <1>b DEF Holders, Scanning
  <1>3. LinkedOnce' /\ FreeCount'
    BY <1>a, <1>b DEF LinkedOnce, FreeCount
  <1>4. Placed'
    BY <1>a, <1>b DEF Placed, Apart, Somewhere
  <1>5. Sorted'
    <2> SUFFICES ASSUME NEW i \in 1..Len(active), NEW j \in 1..Len(active), i < j
                 PROVE  rem'[active[i]] <= rem'[active[j]]
      BY <1>b DEF Sorted
    <2>1. active[i] \in Ids /\ active[j] \in Ids /\ rem[active[i]] <= rem[active[j]]
      BY <1>a, <1>c DEF Sorted
    <2> QED BY <2>1, <1>c, SMTT(30), ZenonT(30)
  <1>6. FiresWhenDue'
    <2>1. ASSUME NEW i \in 1..Len(expired) PROVE rem'[expired[i]] = 0
      <3>1. expired[i] \in Ids /\ rem[expired[i]] = 0
        BY <1>a, <1>c DEF FiresWhenDue
      <3> QED BY <3>1, <1>c
    <2> QED BY <2>1, <1>b DEF FiresWhenDue
  <1> QED BY <1>1, <1>2, <1>3, <1>4, <1>5, <1>6 DEF IInv

\* Every step of the application, the timer thread and the clock keeps the
\* inductive invariant.
LEMMA NextIInv == IInv /\ [Next]_vars => IInv'
  <1>a. SUFFICES ASSUME IInv, [Next]_vars PROVE IInv'
    OBVIOUS
  <1>b. TypeInv /\ Holders
    BY <1>a DEF IInv
  <1>1. ASSUME NEW iv \in Intervals, NEW period \in BOOLEAN, NEW auto_start \in BOOLEAN,
               Create(iv, period, auto_start)
        PROVE  IInv'
    BY <1>a, <1>1, CreateStep
  <1>2. ASSUME NEW kind \in {"cancel", "destroy"}, NEW id \in Ids, Remove(kind, id, 0) PROVE IInv'
    BY <1>a, <1>2, RemoveStep
  <1>3. ASSUME NEW id \in Ids, NEW iv \in Intervals \cup {0}, Remove("restart", id, iv) PROVE IInv'
    <2>1. iv \in Nat
      BY TimerAssumption
    <2> QED BY <1>a, <1>3, <2>1, RemoveStep
  <1>4. CASE EndApp
    <2>1. /\ pc = "ready" /\ pc' = "ended"
          /\ UNCHANGED <<active, idle, nfree, g_max_id, interval, periodic, rem, released, ctx, op, hand, users, tpc, expired>>
      BY <1>4 DEF EndApp, lists, thread
    <2>2. TypeInv' /\ Holders'
      BY <1>b, <2>1 DEF TypeInv, Holders, Scanning
    <2> QED BY <1>a, <2>1, <2>2, Quiet
  <1>5. CASE Refresh
    <2>1. /\ pc = "refresh" /\ ~Scanning /\ tpc' = (IF tpc = "wait" THEN "top" ELSE tpc)
          /\ pc' = (IF hand = NoTimer THEN "ready" ELSE "put")
          /\ UNCHANGED <<active, idle, nfree, g_max_id, interval, periodic, rem, released, ctx, op, hand, users, expired>>
      BY <1>5 DEF Refresh, lists
    <2>2. TypeInv' /\ Holders'
      BY <1>b, <2>1 DEF TypeInv, Holders, Scanning
    <2> QED BY <1>a, <2>1, <2>2, Quiet
  <1>6. CASE OnTimerCallback \/ UNCHANGED vars
    <2>1. UNCHANGED <<active, idle, nfree, g_max_id, interval, periodic, rem, released, ctx, pc, op, hand, users, tpc, expired>>
      BY <1>6 DEF OnTimerCallback, lists, app, thread, vars
    <2>2. TypeInv' /\ Holders'
      BY <1>b, <2>1, SMTT(30), ZenonT(30) DEF TypeInv, Holders, Scanning
    <2> QED BY <1>a, <2>1, <2>2, Quiet
  <1>7. CASE Callback \/ GetExpiryMs \/ Wait \/ TimedOut
    <2>1. /\ \/ tpc = "handle" /\ expired # <<>> /\ tpc' = "resched"
             \/ tpc = "handle" /\ expired = <<>> /\ tpc' = "prewait"
             \/ tpc = "prewait" /\ tpc' = "wait"
             \/ tpc = "wait" /\ tpc' = "top"
          /\ UNCHANGED <<active, idle, nfree, g_max_id, interval, periodic, rem, released, ctx, pc, op, hand, users, expired>>
      BY <1>7 DEF Callback, GetExpiryMs, Wait, TimedOut, lists, app
    <2>2. TypeInv' /\ Holders'
      BY <1>b, <2>1 DEF TypeInv, Holders, Scanning
    <2> QED BY <1>a, <2>1, <2>2, Quiet
  <1>8. CASE RemoveIdle \/ Put \/ DestroyCtx \/ Collect \/ AfterCallback \/ Tick
    BY <1>a, <1>8, RemoveIdleStep, PutStep, DestroyStep, CollectStep, AfterCallbackStep, TickStep
  <1> QED
    BY <1>a, <1>1, <1>2, <1>3, <1>4, <1>5, <1>6, <1>7, <1>8
    DEF Next, TimerThread, AppCall, AppContinue

\* The invariant holds in every state that the timers can be in.
LEMMA Inductive == Spec => []IInv
  <1>1. Init => IInv
    BY InitIInv
  <1> QED BY <1>1, NextIInv, PTL DEF Spec

-----------------------------------------------------------------------------
(* The properties.                                                         *)

\* A list without duplicates has a timer once or not at all.
LEMMA CountPositions ==
  ASSUME NEW s \in Seq(Ids), NEW id, Distinct(s)
  PROVE  Cardinality(Positions(s, id)) = IF Occurs(s, id) THEN 1 ELSE 0
  <1>1. CASE Occurs(s, id)
    <2>1. PICK k \in 1..Len(s) : s[k] = id
      BY <1>1 DEF Occurs
    <2>2. Positions(s, id) = {k}
      BY <2>1 DEF Positions, Distinct
    <2> QED BY <1>1, <2>2, FS_Singleton
  <1>2. CASE ~Occurs(s, id)
    <2>1. Positions(s, id) = {}
      BY <1>2 DEF Positions, Occurs
    <2> QED BY <1>2, <2>1, FS_EmptySet
  <1> QED BY <1>1, <1>2

\* The counting form of Placed.
LEMMA OnePlaceHolds == ASSUME IInv PROVE OnePlace
  <1> SUFFICES ASSUME ctx = "live", NEW id \in Ids PROVE Places(id) = IF id <= g_max_id THEN 1 ELSE 0
    BY DEF OnePlace
  <1> DEFINE T == {s \in {"idle", "hand", "free"} :
                     \/ s = "idle" /\ id \in idle
                     \/ s = "hand" /\ InHand(id)
                     \/ s = "free" /\ id \in released}
  <1>1. Apart(id) /\ (Somewhere(id) <=> id <= g_max_id)
    BY DEF IInv, Placed
  <1>2. id # NoTimer
    BY DEF Ids, NoTimer
  <1>3. Cardinality(Positions(active, id)) = IF Occurs(active, id) THEN 1 ELSE 0
    BY CountPositions DEF IInv, TypeInv, LinkedOnce
  <1>4. Cardinality(Positions(expired, id)) = IF Occurs(expired, id) THEN 1 ELSE 0
    BY CountPositions DEF IInv, TypeInv, LinkedOnce
  <1>5. Cardinality(T) = IF id \in idle \/ hand = id \/ id \in released THEN 1 ELSE 0
    <2>1. CASE id \in idle
      <3>1. T = {"idle"}
        BY <2>1, <1>1 DEF Apart, InHand
      <3> QED BY <2>1, <3>1, FS_Singleton
    <2>2. CASE hand = id
      <3>1. T = {"hand"}
        BY <2>2, <1>1, <1>2 DEF Apart, InHand
      <3> QED BY <2>2, <3>1, FS_Singleton
    <2>3. CASE id \in released
      <3>1. T = {"free"}
        BY <2>3, <1>1 DEF Apart, InHand
      <3> QED BY <2>3, <3>1, FS_Singleton
    <2>4. CASE ~(id \in idle \/ hand = id \/ id \in released)
      <3>1. T = {}
        BY <2>4 DEF InHand
      <3> QED BY <2>4, <3>1, FS_EmptySet
    <2> QED BY <2>1, <2>2, <2>3, <2>4
  <1>6. Places(id) = Cardinality(Positions(active, id)) + Cardinality(Positions(expired, id)) + Cardinality(T)
    BY DEF Places
  <1> HIDE DEF T
  <1> QED BY <1>1, <1>3, <1>4, <1>5, <1>6 DEF Apart, Somewhere

\* For any number of timers and any intervals, whatever calls of the application meet
\* the timer thread's scan, the active list stays sorted, every timer is in exactly one
\* place, the free list holds the rest of PreAlloc, a destroyed context is out of use,
\* and only timers that are due are called back.
THEOREM ListsSoundCorrect == Spec => []ListsSound
  <1>1. ASSUME IInv PROVE ListsSound
    <2>1. Sorted /\ FreeCount /\ FiresWhenDue
      BY <1>1 DEF IInv
    <2>2. OnePlace
      BY <1>1, OnePlaceHolds
    <2>3. DestroyedUnused
      BY <1>1 DEF IInv, Holders, DestroyedUnused
    <2> QED BY <2>1, <2>2, <2>3 DEF ListsSound
  <1>2. IInv => ListsSound
    BY <1>1
  <1> QED BY <1>2, Inductive, PTL
=============================================================================
