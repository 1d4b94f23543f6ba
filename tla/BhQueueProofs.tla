---------------------------- MODULE BhQueueProofs ----------------------------
(***************************************************************************)
(* Proofs about BhQueue for any producers, any limit and any messages.     *)
(***************************************************************************)
EXTENDS BhQueue, ListLemmas, FiniteSetTheorems, TLAPS

\* What a thread holds follows from where it is, and nobody else holds it.
Hands ==
    /\ \A p \in Producers : IF pc[p] = "idle" THEN cur[p] = NULL ELSE cur[p] \in Msgs
    /\ \A p, r \in Producers : cur[p] = cur[r] => p = r \/ cur[p] = NULL
    /\ \A p \in Producers : cur[p] \notin fresh \cup freed
    /\ \A p \in Producers, i \in 1..Len(posted) : cur[p] # posted[i]
    /\ IF loop = "handle"
       THEN Len(taken) > 0 /\ msg = taken[Len(taken)] /\ msg \notin freed
       ELSE msg = NULL

\* The nodes that were linked are allocated, and the linked ones are not freed.
Allocated ==
    /\ \A i \in 1..Len(posted) : posted[i] \notin fresh
    /\ Usable => fresh \cap freed = {}
    /\ Usable => \A i \in Linked : posted[i] \notin freed

\* The queue is torn down only after its loop ended and every post returned.
TearDown == ~Usable => loop = "done" /\ \A p \in Producers : pc[p] = "idle"

IInv == StructOK /\ Hands /\ Allocated /\ TearDown /\ ListShape /\ Fifo

\* bh_queue_create establishes the inductive invariant.
LEMMA InitIInv == ASSUME Init PROVE IInv
  <1>1. StructOK
    BY DEF Init, StructOK, Ptr
  <1>2. Len(posted) = 0 /\ Len(taken) = 0 /\ Usable /\ Linked = {}
    BY DEF Init, Linked, Usable
  <1>3. Hands
    BY <1>2, QueueAssumption DEF Init, Hands
  <1>4. Allocated /\ TearDown /\ Fifo
    BY <1>2 DEF Init, Allocated, TearDown, Fifo
  <1>5. ListShape
    BY <1>2 DEF Init, ListShape
  <1> QED BY <1>1, <1>3, <1>4, <1>5 DEF IInv

\* Every step of a producer, the loop or the owner preserves it.
LEMMA NextIInv == IInv /\ [Next]_vars => IInv'
  <1>a. SUFFICES ASSUME IInv, [Next]_vars PROVE IInv'
    OBVIOUS
  <1>t. StructOK
    BY <1>a DEF IInv
  <1>h. Hands
    BY <1>a DEF IInv
  <1>n. Allocated
    BY <1>a DEF IInv
  <1>d. TearDown
    BY <1>a DEF IInv
  <1>l. ListShape
    BY <1>a DEF IInv
  <1>f. Fifo
    BY <1>a DEF IInv
  <1>z. NULL \notin Msgs
    BY QueueAssumption
  <1>1. ASSUME NEW p \in Producers, NEW m \in Msgs, NewMsg(p, m) PROVE IInv'
    <2>1. StructOK'
      BY <1>1, <1>t DEF StructOK, Ptr, NewMsg, fields, hist
    <2>2. Hands'
      BY <1>1, <1>t, <1>h, <1>n, <1>z DEF NewMsg, StructOK, Hands, Ptr, Allocated, Usable, hist
    <2>3. Allocated' /\ TearDown'
      BY <1>1, <1>t, <1>n, <1>d DEF NewMsg, Allocated, TearDown, Linked, Usable, hist
    <2>4. ListShape' /\ Fifo'
      BY <1>1, <1>l, <1>f DEF NewMsg, ListShape, Fifo, Linked, Usable, fields, hist
    <2> QED BY <2>1, <2>2, <2>3, <2>4 DEF IInv
  <1>2. ASSUME NEW p \in Producers, NEW m \in Msgs, NewMsgFails(p, m) PROVE IInv'
    <2>1. StructOK'
      BY <1>2, <1>t DEF StructOK, Ptr, NewMsgFails, fields, hist
    <2>2. Hands'
      BY <1>2, <1>t, <1>h, <1>n, <1>z DEF NewMsgFails, StructOK, Hands, Ptr, Allocated, Usable, hist
    <2>3. Allocated' /\ TearDown'
      BY <1>2, <1>t, <1>n, <1>d DEF NewMsgFails, Allocated, TearDown, Linked, Usable, hist
    <2>4. ListShape' /\ Fifo'
      BY <1>2, <1>l, <1>f DEF NewMsgFails, ListShape, Fifo, Linked, Usable, fields, hist
    <2> QED BY <2>1, <2>2, <2>3, <2>4 DEF IInv
  <1>3. ASSUME NEW p \in Producers, TestFull(p) PROVE IInv'
    <2>1. StructOK'
      BY <1>3, <1>t DEF StructOK, TestFull, fields, hist
    <2>2. Hands' /\ Allocated' /\ TearDown'
      BY <1>3, <1>t, <1>h, <1>n, <1>d DEF TestFull, StructOK, Hands, Allocated, TearDown, Linked, Usable, hist
    <2>3. ListShape' /\ Fifo'
      BY <1>3, <1>l, <1>f DEF TestFull, ListShape, Fifo, Linked, Usable, fields, hist
    <2> QED BY <2>1, <2>2, <2>3 DEF IInv
  <1>4. ASSUME NEW p \in Producers, Drop(p) PROVE IInv'
    <2>0. cur[p] \in Msgs
      BY <1>4, <1>h DEF Drop, Hands
    <2>1. StructOK'
      BY <1>4, <2>0, <1>t DEF StructOK, Ptr, Drop, fields
    <2>2. Hands'
      BY <1>4, <2>0, <1>t, <1>h, <1>z, <1>f DEF Drop, StructOK, Hands, Fifo, Ptr
    <2>3. Allocated' /\ TearDown'
      BY <1>4, <2>0, <1>t, <1>h, <1>n, <1>d DEF Drop, StructOK, Hands, Allocated, TearDown, Linked, Usable
    <2>4. ListShape' /\ Fifo'
      BY <1>4, <1>l, <1>f DEF Drop, ListShape, Fifo, Linked, Usable, fields
    <2> QED BY <2>1, <2>2, <2>3, <2>4 DEF IInv
  <1>5. ASSUME NEW p \in Producers, Link(p) PROVE IInv'
    <2> DEFINE m == cur[p]
    <2>0. Usable /\ m \in Msgs
      BY <1>5, <1>d, <1>h DEF Link, TearDown, Hands
    <2>1. StructOK'
      <3>1. posted' \in Seq(Msgs) /\ cnt' \in Nat /\ pc' \in [Producers -> {"idle", "test", "drop", "link"}]
        BY <1>5, <2>0, <1>t DEF Link, StructOK
      <3>2. /\ head' \in Ptr /\ tail' \in Ptr /\ next' \in [Msgs -> Ptr] /\ prev' \in [Msgs -> Ptr]
            /\ cur' \in [Producers -> Ptr]
        BY <1>5, <2>0, <1>t DEF Link, AppendNode, StructOK, Ptr
      <3>3. loop' \in {"check", "get", "wait", "woken", "handle", "done"}
        BY <1>5, <1>t DEF Link, Signal, StructOK
      <3> QED BY <3>1, <3>2, <3>3, <1>5, <1>t DEF Link, StructOK
    <2>2. Hands'
      BY <1>5, <2>0, <1>t, <1>h, <1>z, <1>n, <1>f DEF Link, Signal, StructOK, Hands, Ptr, Allocated, Fifo
    <2>3. Allocated' /\ TearDown'
      BY <1>5, <2>0, <1>t, <1>h, <1>n, <1>d, <1>f
         DEF Link, Signal, StructOK, Hands, Allocated, TearDown, Linked, Usable, Fifo
    <2>4. ListShape'
      <3>1. CASE cnt = 0
        BY <1>5, <2>0, <3>1, <1>t, <1>l, <1>f DEF Link, StructOK, ListShape, Linked, Usable, Fifo
      <3>2. CASE cnt # 0
        <4>1. /\ m # tail /\ tail \in Msgs /\ m # NULL
              /\ Len(posted) \in Nat /\ Len(taken) \in Nat
              /\ cnt = Len(posted) - Len(taken) /\ cnt > 0
              /\ tail = posted[Len(posted)]
              /\ \A i \in 1..Len(posted) : posted[i] # m /\ posted[i] \in Msgs
          BY <2>0, <3>2, <1>t, <1>h, <1>l, <1>f, <1>z DEF StructOK, Hands, ListShape, Fifo, Ptr
        <4>2. /\ next' = [next EXCEPT ![m] = NULL, ![tail] = m]
              /\ prev' = [prev EXCEPT ![m] = tail]
              /\ tail' = m /\ head' = head /\ taken' = taken
              /\ cnt' = cnt + 1 /\ posted' = Append(posted, m) /\ Usable'
          BY <1>5, <2>0, <3>2 DEF Link, AppendNode, Usable
        <4>3. /\ Len(posted') = Len(posted) + 1 /\ posted'[Len(posted) + 1] = m
              /\ \A i \in 1..Len(posted) : posted'[i] = posted[i]
          BY <2>0, <4>1, <4>2, <1>t DEF StructOK
        <4>4. /\ next'[m] = NULL /\ next'[tail] = m /\ prev'[m] = tail
              /\ \A k \in Msgs : k # m /\ k # tail => next'[k] = next[k]
              /\ \A k \in Msgs : k # m => prev'[k] = prev[k]
          BY <2>0, <4>1, <4>2, <1>t DEF StructOK
        <4>5. ASSUME NEW i \in Linked', i + 1 \in Linked'
              PROVE  next'[posted'[i]] = posted'[i + 1] /\ prev'[posted'[i + 1]] = posted'[i]
          <5>1. i \in 1..Len(posted) /\ i >= Len(taken) + 1 /\ i + 1 <= Len(posted) + 1
            BY <4>5, <4>1, <4>2, <4>3 DEF Linked
          <5>2. CASE i = Len(posted)
            BY <5>1, <5>2, <4>1, <4>3, <4>4
          <5>3. CASE i # Len(posted)
            <6>1. i \in Linked /\ i + 1 \in Linked /\ i + 1 \in 1..Len(posted)
              BY <5>1, <5>3, <4>1 DEF Linked
            <6>2. next[posted[i]] = posted[i + 1] /\ prev[posted[i + 1]] = posted[i]
              BY <6>1, <2>0, <1>l DEF ListShape
            <6>3. posted[i] # tail
              BY <5>1, <5>3, <4>1, <1>f DEF Fifo
            <6> QED BY <6>1, <6>2, <6>3, <5>1, <4>1, <4>3, <4>4
          <5> QED BY <5>2, <5>3
        <4>6. head' = posted'[Len(taken') + 1] /\ prev'[head'] = NULL
          <5>1. head = posted[Len(taken) + 1] /\ prev[head] = NULL /\ Len(taken) + 1 \in 1..Len(posted)
            BY <2>0, <4>1, <1>l DEF ListShape
          <5> QED BY <5>1, <4>1, <4>2, <4>3, <4>4
        <4>7. /\ tail' = posted'[Len(posted')] /\ next'[tail'] = NULL
              /\ cnt' = Len(posted') - Len(taken') /\ cnt' > 0
          BY <4>1, <4>2, <4>3, <4>4
        <4> QED BY <4>5, <4>6, <4>7 DEF ListShape
      <3> QED BY <3>1, <3>2
    <2>5. Fifo'
      BY <1>5, <2>0, <1>t, <1>h, <1>f DEF Link, StructOK, Hands, Fifo
    <2> QED BY <2>1, <2>2, <2>3, <2>4, <2>5 DEF IInv
  <1>u. ASSUME Unlink, loop \in {"get", "woken"},
               UNCHANGED <<drops, pc, cur, seen, owner, fresh, freed, posted, refused>>
        PROVE  IInv'
    <2>0. Usable
      BY <1>u, <1>d DEF TearDown
    <2>1. /\ cnt \in Nat /\ cnt > 0 /\ cnt = Len(posted) - Len(taken)
          /\ Len(posted) \in Nat /\ Len(taken) \in Nat /\ Len(taken) + 1 \in Linked
          /\ head = posted[Len(taken) + 1] /\ head \in Msgs /\ prev[head] = NULL
          /\ tail = posted[Len(posted)] /\ tail \in Msgs /\ next[tail] = NULL
          /\ \A i \in 1..Len(posted) : posted[i] \in Msgs
      BY <1>u, <2>0, <1>t, <1>l DEF Unlink, StructOK, ListShape, Linked
    <2>2. /\ taken' = Append(taken, head) /\ Len(taken') = Len(taken) + 1
          /\ taken'[Len(taken) + 1] = head
          /\ \A i \in 1..Len(taken) : taken'[i] = taken[i]
      BY <1>u, <2>1, <1>t DEF Unlink, StructOK
    <2>3. Linked' = Linked \ {Len(taken) + 1} /\ Usable'
      BY <1>u, <2>0, <2>1, <2>2 DEF Linked, Usable
    <2>4. StructOK'
      <3>1. taken' \in Seq(Msgs) /\ cnt' \in Nat
        BY <1>u, <2>1, <1>t DEF Unlink, StructOK
      <3>2. /\ head' \in Ptr /\ tail' \in Ptr /\ next' \in [Msgs -> Ptr] /\ prev' \in [Msgs -> Ptr]
            /\ msg' \in Ptr
        BY <1>u, <2>1, <1>t DEF Unlink, StructOK, Ptr
      <3> QED BY <1>u, <3>1, <3>2, <1>t DEF Unlink, StructOK
    <2>5. Fifo'
      BY <1>u, <2>1, <2>2, <1>f DEF Fifo
    <2>6. Hands'
      <3>1. head \notin freed
        BY <2>0, <2>1, <1>n DEF Allocated
      <3> QED BY <1>u, <2>1, <2>2, <3>1, <1>h DEF Hands, Unlink
    <2>7. Allocated' /\ TearDown'
      BY <1>u, <2>3, <1>n, <1>d DEF Allocated, TearDown, Unlink
    <2>8. ListShape'
      <3>1. CASE cnt = 1
        BY <1>u, <2>1, <2>2, <2>3, <3>1 DEF Unlink, ListShape, Linked
      <3>2. CASE cnt # 1
        <4>1. /\ Len(taken) + 2 \in Linked /\ next[head] = posted[Len(taken) + 2]
              /\ next[head] \in Msgs /\ next[head] # head
          BY <2>0, <2>1, <3>2, <1>l, <1>f DEF ListShape, Linked, Fifo
        <4>2. /\ head' = next[head] /\ tail' = tail /\ cnt' = cnt - 1 /\ next' = next
              /\ prev' = [prev EXCEPT ![next[head]] = NULL] /\ posted' = posted
          BY <1>u, <3>2 DEF Unlink
        <4>3. prev'[head'] = NULL /\ \A k \in Msgs : k # next[head] => prev'[k] = prev[k]
          BY <4>1, <4>2, <1>t DEF StructOK
        <4>4. ASSUME NEW i \in Linked', i + 1 \in Linked'
              PROVE  next'[posted'[i]] = posted'[i + 1] /\ prev'[posted'[i + 1]] = posted'[i]
          <5>1. i \in Linked /\ i + 1 \in Linked /\ i + 1 \in 1..Len(posted) /\ i + 1 # Len(taken) + 2
            BY <4>4, <2>1, <2>3 DEF Linked
          <5>2. posted[i + 1] # next[head]
            BY <5>1, <4>1, <2>1, <1>f, SMTT(30), ZenonT(30) DEF Fifo, Linked
          <5> QED BY <5>1, <5>2, <4>2, <4>3, <2>0, <2>1, <1>l DEF ListShape
        <4>5. cnt' = Len(posted') - Len(taken') /\ cnt' > 0
          BY <2>1, <2>2, <3>2, <4>2
        <4>6. head' = posted'[Len(taken') + 1] /\ tail' = posted'[Len(posted')] /\ next'[tail'] = NULL
          BY <2>1, <2>2, <4>1, <4>2
        <4> QED BY <4>3, <4>4, <4>5, <4>6 DEF ListShape
      <3> QED BY <3>1, <3>2
    <2> QED BY <2>4, <2>5, <2>6, <2>7, <2>8 DEF IInv
  <1>6. CASE GetMsg
    <2>1. CASE Unlink
      BY <1>6, <2>1, <1>u DEF GetMsg
    <2>2. CASE ~Unlink
      <3>1. loop = "get" /\ loop' = "wait" /\ UNCHANGED <<fields, drops, pc, cur, seen, msg, owner, fresh, freed, hist>>
        BY <1>6, <2>2 DEF GetMsg, hist
      <3>2. StructOK' /\ Hands' /\ Allocated' /\ TearDown'
        BY <3>1, <1>t, <1>h, <1>n, <1>d DEF StructOK, Hands, Allocated, TearDown, Linked, Usable, fields, hist
      <3>3. ListShape' /\ Fifo'
        BY <3>1, <1>l, <1>f DEF ListShape, Fifo, Linked, Usable, fields, hist
      <3> QED BY <3>2, <3>3 DEF IInv
    <2> QED BY <2>1, <2>2
  <1>7. CASE GetMsgWoken
    <2>1. CASE Unlink
      BY <1>7, <2>1, <1>u DEF GetMsgWoken
    <2>2. CASE ~Unlink
      <3>1. loop = "woken" /\ loop' = "check" /\ UNCHANGED <<fields, drops, pc, cur, seen, msg, owner, fresh, freed, hist>>
        BY <1>7, <2>2 DEF GetMsgWoken, hist
      <3>2. StructOK' /\ Hands' /\ Allocated' /\ TearDown'
        BY <3>1, <1>t, <1>h, <1>n, <1>d DEF StructOK, Hands, Allocated, TearDown, Linked, Usable, fields, hist
      <3>3. ListShape' /\ Fifo'
        BY <3>1, <1>l, <1>f DEF ListShape, Fifo, Linked, Usable, fields, hist
      <3> QED BY <3>2, <3>3 DEF IInv
    <2> QED BY <2>1, <2>2
  <1>8. CASE Handle
    <2>0. Usable /\ msg \in Msgs /\ msg = taken[Len(taken)] /\ Len(taken) \in 1..Len(posted)
          /\ Len(posted) \in Nat
      BY <1>8, <1>t, <1>h, <1>d, <1>f DEF Handle, StructOK, Hands, TearDown, Fifo
    <2>1. StructOK'
      BY <1>8, <2>0, <1>t DEF Handle, StructOK, Ptr, fields, hist
    <2>2. msg = posted[Len(taken)]
      BY <2>0, <1>f DEF Fifo
    <2>3. Hands'
      BY <1>8, <2>0, <2>2, <1>h DEF Handle, Hands, fields, hist
    <2>4. Allocated' /\ TearDown'
      <3>1. msg \notin fresh
        BY <2>0, <2>2, <1>n DEF Allocated
      <3>2. \A i \in Linked : posted[i] # msg
        BY <2>0, <2>2, <1>f DEF Linked, Fifo
      <3> QED BY <1>8, <3>1, <3>2, <2>0, <1>n DEF Handle, Allocated, TearDown, Linked, Usable, fields, hist
    <2>5. ListShape' /\ Fifo'
      BY <1>8, <1>l, <1>f DEF Handle, ListShape, Fifo, Linked, Usable, fields, hist
    <2> QED BY <2>1, <2>3, <2>4, <2>5 DEF IInv
  <1>9. CASE LoopCheck \/ SpuriousWakeup \/ ExitSignal
    <2>1. /\ loop # "handle" => loop' # "handle"
          /\ loop = "handle" => loop' = "handle"
          /\ loop = "done" => loop' = "done"
          /\ loop' \in {"check", "get", "wait", "woken", "handle", "done"}
          /\ owner' \in {"running", "flagged", "signalled", "destroying", "destroyed"}
          /\ Usable' <=> Usable
      BY <1>9, <1>t DEF LoopCheck, SpuriousWakeup, ExitSignal, Signal, Usable, StructOK
    <2>2. UNCHANGED <<fields, drops, pc, cur, seen, msg, fresh, freed, hist>>
      BY <1>9 DEF LoopCheck, SpuriousWakeup, ExitSignal
    <2>3. StructOK' /\ Hands'
      BY <2>1, <2>2, <1>t, <1>h DEF StructOK, Hands, fields, hist
    <2>4. Allocated' /\ TearDown' /\ ListShape' /\ Fifo'
      BY <2>1, <2>2, <1>n, <1>d, <1>l, <1>f DEF Allocated, TearDown, ListShape, Fifo, Linked, fields, hist
    <2> QED BY <2>3, <2>4 DEF IInv
  <1>10. CASE ExitLoopRun \/ JoinLoop \/ DestroyEnd
    <2>1. /\ Usable' => Usable
          /\ ~Usable' => loop = "done" /\ \A p \in Producers : pc[p] = "idle"
          /\ owner' \in {"running", "flagged", "signalled", "destroying", "destroyed"}
      BY <1>10, <1>d DEF ExitLoopRun, JoinLoop, DestroyEnd, Usable, TearDown
    <2>2. UNCHANGED <<fields, drops, pc, cur, seen, loop, msg, fresh, freed, hist>>
      BY <1>10 DEF ExitLoopRun, JoinLoop, DestroyEnd
    <2>3. StructOK' /\ Hands'
      BY <2>1, <2>2, <1>t, <1>h DEF StructOK, Hands, fields, hist
    <2>4. Allocated' /\ TearDown' /\ ListShape' /\ Fifo'
      BY <2>1, <2>2, <1>n, <1>l, <1>f DEF Allocated, TearDown, ListShape, Fifo, Linked, fields, hist
    <2> QED BY <2>3, <2>4 DEF IInv
  <1>11. CASE DestroyNode
    <2>0. ~Usable /\ ~Usable' /\ head \in Msgs
      BY <1>11, <1>t DEF DestroyNode, Usable, StructOK, Ptr
    <2>1. StructOK'
      BY <1>11, <2>0, <1>t DEF DestroyNode, StructOK, hist
    <2>2. Hands'
      BY <1>11, <2>0, <1>h, <1>d, <1>z DEF DestroyNode, Hands, TearDown, hist
    <2>3. Allocated' /\ TearDown' /\ ListShape' /\ Fifo'
      BY <1>11, <2>0, <1>n, <1>d, <1>f DEF DestroyNode, Allocated, TearDown, ListShape, Fifo, hist
    <2> QED BY <2>1, <2>2, <2>3 DEF IInv
  <1>12. CASE UNCHANGED vars
    <2>1. StructOK' /\ Hands'
      BY <1>12, <1>t, <1>h DEF vars, StructOK, Hands, fields, hist
    <2>2. Allocated' /\ TearDown' /\ ListShape' /\ Fifo'
      BY <1>12, <1>n, <1>d, <1>l, <1>f DEF vars, Allocated, TearDown, ListShape, Fifo, Linked, Usable, fields, hist
    <2> QED BY <2>1, <2>2 DEF IInv
  <1> QED
    BY <1>a, <1>1, <1>2, <1>3, <1>4, <1>5, <1>6, <1>7, <1>8, <1>9, <1>10, <1>11, <1>12
       DEF Next, Post, Produce, LoopRun, Owner

\* IInv holds in every reachable state.
THEOREM Inductive == Spec => []IInv
  BY InitIInv, NextIInv, PTL DEF Spec

\* The flag of the loop stays a Boolean.
LEMMA BoolStep == exit_loop_run \in BOOLEAN /\ [Next]_vars => (exit_loop_run \in BOOLEAN)'
  BY DEF Next, vars, fields, hist, Post, Produce, LoopRun, Owner, NewMsg, NewMsgFails, TestFull, Drop, Link,
         LoopCheck, GetMsg, GetMsgWoken, SpuriousWakeup, Handle, ExitLoopRun, ExitSignal, JoinLoop,
         DestroyNode, DestroyEnd

\* Type correctness of bh_queue.c: whatever the threads do, no null node is
\* dequeued or handled and every pointer stays a node or null.
THEOREM TypeCorrect == Spec => []TypeOK
  <1>1. Init => exit_loop_run \in BOOLEAN
    BY DEF Init
  <1>2. IInv /\ exit_loop_run \in BOOLEAN => TypeOK
    BY DEF IInv, TypeOK
  <1> QED BY <1>1, <1>2, BoolStep, Inductive, PTL DEF Spec

\* The doubly linked list is the posted and not yet taken messages in order, so
\* no bh_assert of bh_post_msg2 or bh_get_msg can fail.
THEOREM ListShapeCorrect == Spec => []ListShape
  <1>1. IInv => ListShape
    BY DEF IInv
  <1> QED BY <1>1, Inductive, PTL

\* Messages are handed out in posting order, each at most once.
THEOREM FifoCorrect == Spec => []Fifo
  <1>1. IInv => Fifo
    BY DEF IInv
  <1> QED BY <1>1, Inductive, PTL

\* No thread holds, and no list links, a node that was freed.
THEOREM NoUseAfterFreeCorrect == Spec => []NoUseAfterFree
  <1>1. IInv => NoUseAfterFree
    <2>1. SUFFICES ASSUME IInv PROVE NoUseAfterFree
      OBVIOUS
    <2>2. NULL \notin freed
      BY <2>1, QueueAssumption DEF IInv, StructOK
    <2> QED BY <2>1, <2>2 DEF IInv, Hands, Allocated, NoUseAfterFree
  <1> QED BY <1>1, Inductive, PTL

-----------------------------------------------------------------------------
(* The capacity bound.  A producer that passed the test has a claim on a   *)
(* place; claims and linked messages together stay within the bound.       *)

Claims == {p \in Producers : pc[p] = "link"}

Claimed == cnt + Cardinality(Claims) <= Max + Cardinality(Producers) - 1

\* The sets that are counted are finite.
LEMMA ClaimsFinite ==
  /\ IsFiniteSet(Producers) /\ Cardinality(Producers) \in Nat
  /\ IsFiniteSet(Claims) /\ Cardinality(Claims) \in Nat
  <1>1. Claims \in SUBSET Producers
    BY DEF Claims
  <1> QED BY <1>1, QueueAssumption, FS_Subset, FS_CardinalityType

\* A claim is made only below the limit, and linking turns a claim into a message.
LEMMA ClaimedStep == IInv /\ Claimed /\ [Next]_vars => Claimed'
  <1>a. SUFFICES ASSUME IInv, Claimed, [Next]_vars PROVE Claimed'
    OBVIOUS
  <1>t. StructOK /\ cnt \in Nat /\ Max \in Nat
    BY <1>a, QueueAssumption DEF IInv, StructOK
  <1>c. /\ Cardinality(Claims) \in Nat /\ Cardinality(Producers) \in Nat
        /\ IsFiniteSet(Claims) /\ IsFiniteSet(Producers)
    BY ClaimsFinite
  <1>k. ASSUME UNCHANGED pc, cnt' <= cnt, cnt' \in Nat PROVE Claimed'
    <2>1. Claims' = Claims
      BY <1>k DEF Claims
    <2>2. Cardinality(Claims') = Cardinality(Claims)
      BY <2>1
    <2> QED BY <2>2, <1>a, <1>k, <1>t, <1>c DEF Claimed
  <1>1. ASSUME NEW p \in Producers, Post(p) \/ Drop(p) PROVE Claimed'
    <2>1. Claims' = Claims /\ cnt' = cnt
      BY <1>1, <1>t DEF Post, NewMsg, NewMsgFails, Drop, Claims, StructOK, fields
    <2>2. Cardinality(Claims') = Cardinality(Claims)
      BY <2>1
    <2> QED BY <2>1, <2>2, <1>a DEF Claimed
  <1>2. ASSUME NEW p \in Producers, TestFull(p) PROVE Claimed'
    <2>1. CASE QueueFull
      <3>1. Claims' = Claims /\ cnt' = cnt
        BY <1>2, <2>1, <1>t DEF TestFull, Claims, StructOK, fields
      <3>2. Cardinality(Claims') = Cardinality(Claims)
        BY <3>1
      <3> QED BY <3>1, <3>2, <1>a DEF Claimed
    <2>2. CASE ~QueueFull
      <3>1. Claims' \in SUBSET Producers /\ cnt' = cnt /\ cnt < Max
        BY <1>2, <2>2, <1>t DEF TestFull, Claims, StructOK, fields, QueueFull
      <3>2. Cardinality(Claims') <= Cardinality(Producers) /\ Cardinality(Claims') \in Nat
        BY <3>1, <1>c, FS_Subset, FS_CardinalityType
      <3> QED BY <3>1, <3>2, <1>t, <1>c DEF Claimed
    <2> QED BY <2>1, <2>2
  <1>3. ASSUME NEW p \in Producers, Link(p) PROVE Claimed'
    <2>1. Claims' = Claims \ {p} /\ p \in Claims /\ cnt' = cnt + 1
      BY <1>3, <1>t DEF Link, Claims, StructOK
    <2>2. Cardinality(Claims') = Cardinality(Claims) - 1
      BY <2>1, <1>c, FS_RemoveElement
    <2> QED BY <2>1, <2>2, <1>a, <1>t, <1>c DEF Claimed
  <1>4. CASE LoopRun \/ SpuriousWakeup \/ ExitLoopRun \/ Owner
    <2>1. UNCHANGED pc /\ (cnt' = cnt \/ (cnt # 0 /\ cnt' = 0) \/ (cnt # 0 /\ cnt' = cnt - 1))
      BY <1>4 DEF LoopRun, Owner, LoopCheck, GetMsg, GetMsgWoken, Unlink, SpuriousWakeup, Handle,
                  ExitLoopRun, ExitSignal, JoinLoop, DestroyNode, DestroyEnd, fields
    <2> QED BY <2>1, <1>k, <1>t
  <1>5. CASE UNCHANGED vars
    <2>1. UNCHANGED pc /\ cnt' = cnt
      BY <1>5 DEF vars, fields
    <2> QED BY <2>1, <1>k, <1>t
  <1> QED
    BY <1>a, <1>1, <1>2, <1>3, <1>4, <1>5 DEF Next, Produce

\* Claims and messages stay within the bound.
LEMMA ClaimedAlways == Spec => []Claimed
  <1>1. Init => Claimed
    <2>1. SUFFICES ASSUME Init PROVE Claimed
      OBVIOUS
    <2>2. Claims = {} /\ cnt = 0
      BY <2>1 DEF Init, Claims
    <2>3. Cardinality(Claims) = 0 /\ Cardinality(Producers) # 0
      BY <2>2, FS_EmptySet, QueueAssumption
    <2> QED BY <2>2, <2>3, ClaimsFinite, QueueAssumption DEF Claimed
  <1> QED BY <1>1, ClaimedStep, Inductive, PTL DEF Spec

\* bh_post_msg2 may exceed queue->max by at most one message per producer but
\* one, for any number of producers: the unlocked test is what decides.
THEOREM CapacityCorrect == Spec => []CapacityBound
  <1>1. IInv /\ Claimed => CapacityBound
    <2>1. SUFFICES ASSUME IInv, Claimed PROVE CapacityBound
      OBVIOUS
    <2>2. cnt \in Nat
      BY <2>1 DEF IInv, StructOK
    <2> QED BY <2>1, <2>2, ClaimsFinite, QueueAssumption DEF Claimed, CapacityBound
  <1> QED BY <1>1, ClaimedAlways, Inductive, PTL

\* The queue stays intact, for any number of producers and messages and any
\* limit: the list, the order, the real capacity and the ownership of the nodes.
THEOREM IntactCorrect == Spec => []Intact
  <1>1. ListShape /\ Fifo /\ CapacityBound /\ NoUseAfterFree => Intact
    BY DEF Intact
  <1> QED
    BY <1>1, ListShapeCorrect, FifoCorrect, CapacityCorrect, NoUseAfterFreeCorrect, PTL

-----------------------------------------------------------------------------
(* The counter of refusals.                                                *)

\* What a producer has read of drops was right once, and refusals are only added.
Counted ==
  /\ refused \subseteq freed
  /\ drops <= Cardinality(refused)
  /\ refused # {} => drops > 0
  /\ \A p \in Producers : seen[p] <= Cardinality(refused)

\* The refusals are finitely many.
LEMMA RefusedFinite == ASSUME StructOK PROVE IsFiniteSet(refused) /\ Cardinality(refused) \in Nat
  <1>1. refused \in SUBSET Msgs
    BY DEF StructOK
  <1> QED BY <1>1, QueueAssumption, FS_Subset, FS_CardinalityType

\* Refusing a message adds one refusal, and the write of drops++ at most one.
LEMMA CountedStep == IInv /\ Counted /\ [Next]_vars => Counted'
  <1>a. SUFFICES ASSUME IInv, Counted, [Next]_vars PROVE Counted'
    OBVIOUS
  <1>t. StructOK
    BY <1>a DEF IInv
  <1>c. IsFiniteSet(refused) /\ Cardinality(refused) \in Nat
    BY <1>t, RefusedFinite
  <1>k. ASSUME UNCHANGED <<refused, drops, seen>>, freed \subseteq freed' PROVE Counted'
    <2>1. refused' = refused /\ drops' = drops /\ seen' = seen
      BY <1>k
    <2>2. refused' \subseteq freed'
      BY <2>1, <1>k, <1>a DEF Counted
    <2> QED BY <2>1, <2>2, <1>a DEF Counted
  <1>r. ASSUME NEW p \in Producers, seen' = [seen EXCEPT ![p] = drops],
               UNCHANGED <<refused, drops, freed>>
        PROVE  Counted'
    <2>1. refused' = refused /\ drops' = drops /\ freed' = freed
      BY <1>r
    <2>2. \A q \in Producers : seen'[q] = seen[q] \/ seen'[q] = drops
      BY <1>r, <1>t DEF StructOK
    <2>3. \A q \in Producers : seen'[q] <= Cardinality(refused)
      BY <2>2, <1>a DEF Counted
    <2> QED BY <2>1, <2>3, <1>a DEF Counted
  <1>1. ASSUME NEW p \in Producers, NEW m \in Msgs, NewMsg(p, m) PROVE Counted'
    <2>1. UNCHANGED <<refused, drops, seen>> /\ freed \subseteq freed'
      BY <1>1 DEF NewMsg, hist
    <2> QED BY <2>1, <1>k
  <1>2. ASSUME NEW p \in Producers, NEW m \in Msgs, NewMsgFails(p, m) PROVE Counted'
    <2>1. seen' = [seen EXCEPT ![p] = drops] /\ UNCHANGED <<refused, drops, freed>>
      BY <1>2 DEF NewMsgFails, hist
    <2> QED BY <2>1, <1>r
  <1>3. ASSUME NEW p \in Producers, TestFull(p) PROVE Counted'
    <2>1. CASE QueueFull
      <3>1. seen' = [seen EXCEPT ![p] = drops] /\ UNCHANGED <<refused, drops, freed>>
        BY <1>3, <2>1 DEF TestFull, hist
      <3> QED BY <3>1, <1>r
    <2>2. CASE ~QueueFull
      <3>1. UNCHANGED <<refused, drops, seen>> /\ freed \subseteq freed'
        BY <1>3, <2>2 DEF TestFull, hist
      <3> QED BY <3>1, <1>k
    <2> QED BY <2>1, <2>2
  <1>4. ASSUME NEW p \in Producers, Drop(p) PROVE Counted'
    <2>1. /\ drops' = seen[p] + 1 /\ freed' = freed \cup {cur[p]}
          /\ refused' = refused \cup {cur[p]} /\ seen' = seen
      BY <1>4 DEF Drop
    <2>2. cur[p] \notin refused
      <3>1. cur[p] \notin freed
        BY <1>a DEF IInv, Hands
      <3> QED BY <3>1, <1>a DEF Counted
    <2>3. Cardinality(refused') = Cardinality(refused) + 1
      BY <2>1, <2>2, <1>c, FS_AddElement
    <2>4. seen[p] \in Nat /\ \A q \in Producers : seen[q] \in Nat
      BY <1>t DEF StructOK
    <2>5. refused' \subseteq freed'
      BY <2>1, <1>a DEF Counted
    <2>6. drops' <= Cardinality(refused') /\ drops' > 0
          /\ \A q \in Producers : seen'[q] <= Cardinality(refused')
      <3>1. drops' = seen[p] + 1 /\ seen' = seen
        BY <2>1
      <3>2. \A q \in Producers : seen[q] <= Cardinality(refused)
        BY <1>a DEF Counted
      <3> QED BY <3>1, <3>2, <2>3, <2>4, <1>c
    <2> QED BY <2>5, <2>6 DEF Counted
  <1>5. ASSUME NEW p \in Producers, Link(p) PROVE Counted'
    <2>1. UNCHANGED <<refused, drops, seen>> /\ freed \subseteq freed'
      BY <1>5 DEF Link
    <2> QED BY <2>1, <1>k
  <1>6. CASE LoopRun \/ SpuriousWakeup \/ ExitLoopRun \/ Owner
    <2>1. UNCHANGED <<refused, drops, seen>> /\ freed \subseteq freed'
      BY <1>6 DEF LoopRun, Owner, LoopCheck, GetMsg, GetMsgWoken, Unlink, SpuriousWakeup, Handle,
                  ExitLoopRun, ExitSignal, JoinLoop, DestroyNode, DestroyEnd, hist
    <2> QED BY <2>1, <1>k
  <1>7. CASE UNCHANGED vars
    <2>1. UNCHANGED <<refused, drops, seen>> /\ freed \subseteq freed'
      BY <1>7 DEF vars, hist
    <2> QED BY <2>1, <1>k
  <1> QED
    BY <1>a, <1>1, <1>2, <1>3, <1>4, <1>5, <1>6, <1>7 DEF Next, Post, Produce

-----------------------------------------------------------------------------
(* Memory: where a message is that is neither fresh nor freed.             *)

InUse(m) == (\E p \in Producers : cur[p] = m) \/ msg = m \/ \E i \in Linked : posted[i] = m

\* The messages bh_queue_destroy has still to free are those from the k-th on,
\* and the links from head lead through them.
LeftFrom(k) ==
  /\ k \in Len(taken) + 1 .. Len(posted) + 1
  /\ head = IF k <= Len(posted) THEN posted[k] ELSE NULL
  /\ \A i \in k .. Len(posted) :
       next[posted[i]] = IF i < Len(posted) THEN posted[i + 1] ELSE NULL
  /\ \A m \in Msgs : m \in fresh \cup freed \/ \E i \in k .. Len(posted) : posted[i] = m

Held ==
  /\ Usable => \A m \in Msgs : m \in fresh \cup freed \/ InUse(m)
  /\ owner = "destroying" => \E k \in Nat : LeftFrom(k)
  /\ NoLeak

\* A message passes from hand to hand until it is freed, up to the last one.
LEMMA HeldStep == IInv /\ Held /\ [Next]_vars => Held'
  <1>a. SUFFICES ASSUME IInv, Held, [Next]_vars PROVE Held'
    OBVIOUS
  <1>t. StructOK /\ Len(posted) \in Nat /\ Len(taken) \in Nat
    BY <1>a DEF IInv, StructOK
  <1>h. Hands /\ TearDown /\ ListShape /\ Fifo
    BY <1>a DEF IInv
  <1>z. NULL \notin Msgs
    BY QueueAssumption
  <1>k. ASSUME Usable, UNCHANGED owner, \A m \in Msgs : m \in (fresh \cup freed)' \/ InUse(m)'
        PROVE  Held'
    BY <1>k DEF Held, Usable, NoLeak
  <1>1. ASSUME NEW p \in Producers, NEW x \in Msgs, NewMsg(p, x) \/ NewMsgFails(p, x) PROVE Held'
    <2>1. Usable /\ owner' = owner
      BY <1>1 DEF NewMsg, NewMsgFails
    <2>2. /\ fresh' = fresh \ {x} /\ freed' = freed /\ cur' = [cur EXCEPT ![p] = x]
          /\ msg' = msg /\ posted' = posted /\ taken' = taken /\ cur[p] = NULL
      BY <1>1, <1>h DEF NewMsg, NewMsgFails, hist, Hands
    <2>3. ASSUME NEW m \in Msgs PROVE m \in (fresh \cup freed)' \/ InUse(m)'
      <3>1. cur'[p] = x /\ \A q \in Producers : q # p => cur'[q] = cur[q]
        BY <2>2, <1>t DEF StructOK
      <3>2. m \in fresh \cup freed \/ InUse(m)
        BY <1>a, <2>1 DEF Held
      <3>3. \A q \in Producers : cur[q] = m => q # p
        BY <2>2, <1>z
      <3> QED BY <3>1, <3>2, <3>3, <2>2 DEF InUse, Linked
    <2> QED BY <2>1, <2>3, <1>k
  <1>2. ASSUME NEW p \in Producers, TestFull(p) PROVE Held'
    <2>1. Usable /\ UNCHANGED <<owner, fresh, freed, cur, msg, posted, taken>>
      BY <1>2, <1>h DEF TestFull, hist, TearDown
    <2> QED BY <2>1, <1>a, <1>k DEF Held, InUse, Linked
  <1>3. ASSUME NEW p \in Producers, Drop(p) PROVE Held'
    <2>1. Usable /\ owner' = owner
      BY <1>3, <1>h DEF Drop, TearDown
    <2>2. /\ fresh' = fresh /\ freed' = freed \cup {cur[p]} /\ cur' = [cur EXCEPT ![p] = NULL]
          /\ msg' = msg /\ posted' = posted /\ taken' = taken
      BY <1>3 DEF Drop
    <2>3. ASSUME NEW m \in Msgs PROVE m \in (fresh \cup freed)' \/ InUse(m)'
      <3>1. \A q \in Producers : q # p => cur'[q] = cur[q]
        BY <2>2, <1>t DEF StructOK
      <3>2. m \in fresh \cup freed \/ InUse(m)
        BY <1>a, <2>1 DEF Held
      <3> QED BY <3>1, <3>2, <2>2 DEF InUse, Linked
    <2> QED BY <2>1, <2>3, <1>k
  <1>4. ASSUME NEW p \in Producers, Link(p) PROVE Held'
    <2>1. Usable /\ owner' = owner
      BY <1>4, <1>h DEF Link, TearDown
    <2>2. /\ fresh' = fresh /\ freed' = freed /\ cur' = [cur EXCEPT ![p] = NULL]
          /\ msg' = msg /\ posted' = Append(posted, cur[p]) /\ taken' = taken /\ cur[p] \in Msgs
      BY <1>4, <1>h DEF Link, Hands
    <2>3. /\ Len(posted') = Len(posted) + 1 /\ posted'[Len(posted) + 1] = cur[p]
          /\ \A i \in 1..Len(posted) : posted'[i] = posted[i]
      BY <2>2, <1>t DEF StructOK
    <2>4. \A i \in Linked : i \in Linked' /\ posted'[i] = posted[i]
      BY <2>2, <2>3, <1>t DEF Linked
    <2>5. Len(posted) + 1 \in Linked'
      BY <2>2, <2>3, <1>t, <1>h DEF Linked, Fifo
    <2>6. ASSUME NEW m \in Msgs PROVE m \in (fresh \cup freed)' \/ InUse(m)'
      <3>1. \A q \in Producers : q # p => cur'[q] = cur[q]
        BY <2>2, <1>t DEF StructOK
      <3>2. m \in fresh \cup freed \/ InUse(m)
        BY <1>a, <2>1 DEF Held
      <3> QED BY <3>1, <3>2, <2>2, <2>3, <2>4, <2>5 DEF InUse
    <2> QED BY <2>1, <2>6, <1>k
  <1>5. ASSUME Unlink, loop # "done", loop # "handle",
               UNCHANGED <<owner, fresh, freed, cur, posted>>
        PROVE  Held'
    <2>1. Usable /\ owner' = owner
      BY <1>5, <1>h DEF TearDown
    <2>2. /\ msg' = head /\ taken' = Append(taken, head) /\ msg = NULL
          /\ head = posted[Len(taken) + 1] /\ Len(taken) + 1 \in Linked /\ head \in Msgs
      BY <1>5, <2>1, <1>t, <1>h DEF Unlink, Hands, ListShape, Linked, StructOK
    <2>3. Len(taken') = Len(taken) + 1
      BY <2>2, <1>t DEF StructOK
    <2>4. Linked' = Linked \ {Len(taken) + 1} /\ posted' = posted
      BY <1>5, <2>3, <1>t DEF Linked
    <2>5. ASSUME NEW m \in Msgs PROVE m \in (fresh \cup freed)' \/ InUse(m)'
      <3>1. m \in fresh \cup freed \/ InUse(m)
        BY <1>a, <2>1 DEF Held
      <3> QED BY <3>1, <2>2, <2>4, <1>5, <1>z DEF InUse
    <2> QED BY <2>1, <2>5, <1>k
  <1>6. CASE LoopRun \/ SpuriousWakeup
    <2>1. CASE Handle
      <3>1. Usable /\ owner' = owner
        BY <2>1, <1>h DEF Handle, TearDown
      <3>2. /\ fresh' = fresh /\ freed' = freed \cup {msg} /\ cur' = cur
            /\ posted' = posted /\ taken' = taken
        BY <2>1 DEF Handle, hist
      <3> QED BY <3>1, <3>2, <1>a, <1>k DEF Held, InUse, Linked
    <2>2. CASE (GetMsg \/ GetMsgWoken) /\ Unlink
      BY <2>2, <1>5 DEF GetMsg, GetMsgWoken
    <2>3. CASE LoopCheck \/ SpuriousWakeup \/ ((GetMsg \/ GetMsgWoken) /\ ~Unlink)
      <3>1. Usable /\ UNCHANGED <<owner, fresh, freed, cur, msg, posted, taken>>
        BY <2>3, <1>h DEF LoopCheck, SpuriousWakeup, GetMsg, GetMsgWoken, hist, TearDown
      <3> QED BY <3>1, <1>a, <1>k DEF Held, InUse, Linked
    <2> QED BY <1>6, <2>1, <2>2, <2>3 DEF LoopRun
  <1>7. CASE ExitLoopRun \/ ExitSignal
    <2>1. /\ Usable /\ Usable' /\ owner' # "destroying" /\ owner' # "destroyed"
          /\ UNCHANGED <<fresh, freed, cur, msg, posted, taken>>
      BY <1>7 DEF ExitLoopRun, ExitSignal, hist, Usable
    <2> QED BY <2>1, <1>a DEF Held, InUse, Linked, NoLeak
  <1>8. CASE JoinLoop
    <2>1. /\ Usable /\ owner' = "destroying" /\ loop = "done"
          /\ UNCHANGED <<fresh, freed, head, next, posted, taken>>
          /\ \A p \in Producers : pc[p] = "idle"
      BY <1>8 DEF JoinLoop, Usable, fields, hist
    <2>2. msg = NULL /\ \A p \in Producers : cur[p] = NULL
      BY <2>1, <1>h DEF Hands
    <2>3. LeftFrom(Len(taken) + 1)
      <3>1. Len(taken) + 1 \in Len(taken) + 1 .. Len(posted) + 1
        BY <1>t, <1>h DEF Fifo
      <3>2. head = IF Len(taken) + 1 <= Len(posted) THEN posted[Len(taken) + 1] ELSE NULL
        BY <2>1, <1>t, <1>h DEF ListShape, Fifo
      <3>3. \A i \in Len(taken) + 1 .. Len(posted) :
              next[posted[i]] = IF i < Len(posted) THEN posted[i + 1] ELSE NULL
        BY <2>1, <1>t, <1>h DEF ListShape, Linked
      <3>4. \A m \in Msgs : m \in fresh \cup freed
                            \/ \E i \in Len(taken) + 1 .. Len(posted) : posted[i] = m
        BY <2>1, <2>2, <1>a, <1>z DEF Held, InUse, Linked
      <3> QED BY <3>1, <3>2, <3>3, <3>4 DEF LeftFrom
    <2>4. LeftFrom(Len(taken) + 1)' /\ Len(taken) + 1 \in Nat
      BY <2>1, <2>3, <1>t DEF LeftFrom
    <2> QED BY <2>1, <2>4 DEF Held, Usable, NoLeak
  <1>9. CASE DestroyNode
    <2>1. /\ owner = "destroying" /\ owner' = owner /\ head # NULL /\ head' = next[head]
          /\ freed' = freed \cup {head} /\ UNCHANGED <<fresh, next, posted, taken>>
      BY <1>9 DEF DestroyNode, hist
    <2>2. PICK k \in Nat : LeftFrom(k)
      BY <2>1, <1>a DEF Held
    <2>3. k <= Len(posted) /\ head = posted[k] /\ k \in Len(taken) + 1 .. Len(posted)
      BY <2>1, <2>2, <1>t DEF LeftFrom
    <2>4. /\ head' = IF k + 1 <= Len(posted) THEN posted[k + 1] ELSE NULL
          /\ k + 1 \in Len(taken) + 1 .. Len(posted) + 1
      BY <2>1, <2>2, <2>3, <1>t DEF LeftFrom
    <2>5. \A i \in k + 1 .. Len(posted) :
            next[posted[i]] = IF i < Len(posted) THEN posted[i + 1] ELSE NULL
      BY <2>2, <2>3, <1>t DEF LeftFrom
    <2>6. ASSUME NEW m \in Msgs
          PROVE  m \in fresh \cup freed \cup {head} \/ \E i \in k + 1 .. Len(posted) : posted[i] = m
      <3>1. m \in fresh \cup freed \/ \E i \in k .. Len(posted) : posted[i] = m
        BY <2>2 DEF LeftFrom
      <3>2. \A i \in k .. Len(posted) : i = k \/ i \in k + 1 .. Len(posted)
        BY <1>t
      <3> QED BY <3>1, <3>2, <2>3
    <2>7. LeftFrom(k + 1)' /\ k + 1 \in Nat
      BY <2>1, <2>4, <2>5, <2>6 DEF LeftFrom
    <2> QED BY <2>1, <2>7 DEF Held, Usable, NoLeak
  <1>10. CASE DestroyEnd
    <2>1. owner = "destroying" /\ head = NULL /\ owner' = "destroyed" /\ UNCHANGED <<fresh, freed>>
      BY <1>10 DEF DestroyEnd
    <2>2. PICK k \in Nat : LeftFrom(k)
      BY <2>1, <1>a DEF Held
    <2>3. \A i \in k .. Len(posted) : FALSE
      <3>1. ASSUME k <= Len(posted) PROVE FALSE
        <4>1. head = posted[k] /\ k \in 1..Len(posted)
          BY <3>1, <2>2, <1>t DEF LeftFrom
        <4>2. posted[k] \in Msgs
          BY <4>1, <1>t DEF StructOK
        <4> QED BY <4>1, <4>2, <2>1, <1>z
      <3> QED BY <3>1, <1>t
    <2>4. fresh \cup freed = Msgs
      BY <2>2, <2>3, <1>t DEF LeftFrom, StructOK
    <2> QED BY <2>1, <2>4 DEF Held, Usable, NoLeak
  <1>11. CASE UNCHANGED vars
    <2>1. UNCHANGED <<owner, fresh, freed, cur, msg, head, next, posted, taken>>
      BY <1>11 DEF vars, fields, hist
    <2> QED BY <2>1, <1>a DEF Held, InUse, Linked, LeftFrom, Usable, NoLeak
  <1> QED
    BY <1>a, <1>1, <1>2, <1>3, <1>4, <1>6, <1>7, <1>8, <1>9, <1>10, <1>11
       DEF Next, Post, Produce, Owner

\* Every message is somewhere, also while the queue is destroyed.
LEMMA HeldAlways == Spec => []Held
  <1>1. Init => Held
    BY DEF Init, Held, NoLeak
  <1> QED BY <1>1, HeldStep, Inductive, PTL DEF Spec

\* bh_queue.c frees every message it ever took, once the queue is destroyed, and
\* drops never counts a message that was not refused, nor misses all of them: for
\* any number of producers, whose unlocked increments may lose updates.
THEOREM AccountsCorrect == Spec => []AllAccounted
  <1>1. Init => Counted
    <2>1. SUFFICES ASSUME Init PROVE Counted
      OBVIOUS
    <2>2. Cardinality(refused) = 0 /\ refused = {}
      BY <2>1, FS_EmptySet DEF Init
    <2> QED BY <2>1, <2>2 DEF Init, Counted
  <1>2. Counted /\ Held => AllAccounted
    BY DEF Counted, Held, AllAccounted, DropsAccounting
  <1> QED BY <1>1, <1>2, CountedStep, HeldAlways, Inductive, PTL DEF Spec

-----------------------------------------------------------------------------
(* The refinement: the chain of nodes is the content of a bounded first-in *)
(* first-out channel.                                                      *)

\* The nodes from h along nx are those of s.
Strung(h, nx, s) ==
  /\ s \in Seq(Msgs) /\ \A i, j \in 1..Len(s) : s[i] = s[j] => i = j
  /\ h = IF Len(s) > 0 THEN s[1] ELSE NULL
  /\ \A i \in 1..Len(s) : nx[s[i]] = IF i < Len(s) THEN s[i + 1] ELSE NULL

\* The numbers of its places, counted from 1 and from 0.
LEMMA Places ==
  ASSUME NEW n \in Nat
  PROVE  /\ IsFiniteSet(1..n) /\ Cardinality(1..n) = n
         /\ IsFiniteSet(0..n - 1) /\ Cardinality(0..n - 1) = n
  <1>1. 0 \in Int /\ 1 \in Int /\ n \in Int /\ n - 1 \in Int
    OBVIOUS
  <1>2. IsFiniteSet(1..n) /\ Cardinality(1..n) = IF 1 > n THEN 0 ELSE n - 1 + 1
    BY <1>1, FS_Interval
  <1>3. IsFiniteSet(0..n - 1) /\ Cardinality(0..n - 1) = IF 0 > n - 1 THEN 0 ELSE n - 1 - 0 + 1
    BY <1>1, FS_Interval, Zenon
  <1> QED BY <1>2, <1>3

\* A list without repetition is no longer than there are nodes.
LEMMA StrungShort ==
  ASSUME NEW h, NEW nx, NEW s, Strung(h, nx, s)
  PROVE  Len(s) \in 0..Cardinality(Msgs) /\ Cardinality(Msgs) \in Nat
  <1>1. Cardinality(Msgs) \in Nat /\ Len(s) \in Nat
    BY QueueAssumption, FS_CardinalityType DEF Strung
  <1>2. ASSUME Cardinality(Msgs) < Len(s) PROVE FALSE
    <2>1. IsFiniteSet(1..Len(s)) /\ Cardinality(1..Len(s)) = Len(s)
      BY <1>1, Places
    <2>2. s \in [1..Len(s) -> Msgs]
      BY DEF Strung
    <2>3. \E x, y \in 1..Len(s) : x # y /\ s[x] = s[y]
      BY <1>2, <2>1, <2>2, QueueAssumption, FS_PigeonHole
    <2> QED BY <2>3 DEF Strung
  <1> QED BY <1>1, <1>2

\* What the walk along nx finds, by its definition.
Step(h, nx, f) ==
  [i \in 0..Cardinality(Msgs) |-> IF i = 0 THEN h ELSE IF f[i - 1] = NULL THEN NULL ELSE nx[f[i - 1]]]

\* There is at most one such walk: two would differ first at some i, and not before.
LEMMA OneWalk ==
  ASSUME NEW h, NEW nx, NEW f, NEW g, f = Step(h, nx, f), g = Step(h, nx, g), Cardinality(Msgs) \in Nat
  PROVE  f = g
  <1> DEFINE N == Cardinality(Msgs)
             D == {i \in 0..N : f[i] # g[i]}
  <1>1. DOMAIN f = 0..N /\ DOMAIN g = 0..N
    BY DEF Step
  <1>2. ASSUME D # {} PROVE FALSE
    <2>1. D \in SUBSET Nat
      OBVIOUS
    <2>2. PICK n \in D : \A m \in D : n <= m
      BY <1>2, <2>1, Least
    <2>3. n \in 0..N /\ f[n] # g[n]
      OBVIOUS
    <2>4. f[n] = (IF n = 0 THEN h ELSE IF f[n - 1] = NULL THEN NULL ELSE nx[f[n - 1]])
      BY <2>3 DEF Step
    <2>5. g[n] = (IF n = 0 THEN h ELSE IF g[n - 1] = NULL THEN NULL ELSE nx[g[n - 1]])
      BY <2>3 DEF Step
    <2>6. n # 0 => n - 1 \in 0..N /\ n - 1 \notin D
      BY <2>2, <2>3
    <2>7. n # 0 => f[n - 1] = g[n - 1]
      BY <2>6
    <2> QED BY <2>3, <2>4, <2>5, <2>7
  <1>3. \A i \in 0..N : f[i] = g[i]
    BY <1>2
  <1>4. f = [i \in 0..N |-> f[i]] /\ g = [i \in 0..N |-> g[i]]
    BY <1>1 DEF Step
  <1> QED BY <1>3, <1>4

\* So the chain is the list that is strung on the pointers.
LEMMA ChainIs ==
  ASSUME NEW h, NEW nx, NEW s, Strung(h, nx, s)
  PROVE  ChainOf(Nodes(h, nx)) = s
  <1> DEFINE N == Cardinality(Msgs)
             f == [i \in 0..N |-> IF i < Len(s) THEN s[i + 1] ELSE NULL]
  <1>0. N \in Nat /\ Len(s) \in 0..N /\ Len(s) \in Nat
    BY StrungShort
  <1>1. s \in Seq(Msgs) /\ \A i \in 1..Len(s) : s[i] \in Msgs /\ s[i] # NULL
    BY QueueAssumption DEF Strung
  <1>2. \A i \in 0..N : f[i] = IF i < Len(s) THEN s[i + 1] ELSE NULL
    OBVIOUS
  <1>3. f = Step(h, nx, f)
    <2>1. ASSUME NEW i \in 0..N
          PROVE  f[i] = (IF i = 0 THEN h ELSE IF f[i - 1] = NULL THEN NULL ELSE nx[f[i - 1]])
      <3>1. CASE i = 0
        BY <3>1, <1>0 DEF Strung
      <3>2. CASE i # 0 /\ i - 1 < Len(s)
        <4>1. i \in 1..Len(s) /\ i - 1 \in 0..N /\ (i - 1) + 1 = i
          BY <3>2, <1>0
        <4>2. f[i - 1] = s[i] /\ s[i] # NULL
          BY <4>1, <3>2, <1>1, <1>2
        <4>3. nx[s[i]] = IF i < Len(s) THEN s[i + 1] ELSE NULL
          BY <4>1 DEF Strung
        <4> HIDE DEF f
        <4> QED BY <3>2, <4>2, <4>3, <1>2
      <3>3. CASE i # 0 /\ ~(i - 1 < Len(s))
        <4>1. i - 1 \in 0..N /\ ~(i < Len(s))
          BY <3>3, <1>0
        <4>2. f[i - 1] = NULL /\ f[i] = NULL
          BY <3>3, <4>1, <1>2
        <4> QED BY <3>3, <4>2
      <3> QED BY <3>1, <3>2, <3>3
    <2> QED BY <2>1 DEF Step
  <1> HIDE DEF f
  <1>4. Nodes(h, nx) = CHOOSE g : g = Step(h, nx, g)
    BY DEF Nodes, Step
  <1>5. Nodes(h, nx) = Step(h, nx, Nodes(h, nx))
    BY <1>3, <1>4
  <1>6. Nodes(h, nx) = f
    BY <1>0, <1>3, <1>5, OneWalk
  <1>7. {i \in 0..N : f[i] # NULL} = 0..Len(s) - 1
    <2>1. ASSUME NEW i \in 0..N PROVE f[i] # NULL <=> i < Len(s)
      BY <1>0, <1>1, <1>2
    <2> QED BY <1>0, <2>1
  <1>8. Cardinality(0..Len(s) - 1) = Len(s)
    BY <1>0, Places
  <1>9. ChainOf(f) = [i \in 1..Len(s) |-> f[i - 1]]
    BY <1>7, <1>8 DEF ChainOf
  <1>10. ASSUME NEW i \in 1..Len(s) PROVE f[i - 1] = s[i]
    BY <1>0, <1>2
  <1>11. s = [i \in 1..Len(s) |-> s[i]]
    BY <1>1
  <1> QED BY <1>6, <1>9, <1>10, <1>11

\* The nodes from h along nx are those of p from the k-th on.
Threaded(h, nx, p, k) ==
  /\ p \in Seq(Msgs) /\ \A i, j \in 1..Len(p) : p[i] = p[j] => i = j
  /\ k \in 1..Len(p) + 1
  /\ h = IF k <= Len(p) THEN p[k] ELSE NULL
  /\ \A i \in k..Len(p) : nx[p[i]] = IF i < Len(p) THEN p[i + 1] ELSE NULL

\* The messages posted from the k-th on are the chain if the pointers run through them.
LEMMA ThreadedChain ==
  ASSUME NEW h, NEW nx, NEW p, NEW k, Threaded(h, nx, p, k)
  PROVE  ChainOf(Nodes(h, nx)) = SubSeq(p, k, Len(p))
  <1> DEFINE s == SubSeq(p, k, Len(p))
             l == Len(p) - k + 1
  <1>0. p \in Seq(Msgs) /\ Len(p) \in Nat /\ k \in Nat /\ k \in 1..Len(p) + 1 /\ l \in Nat
    BY DEF Threaded
  <1>1. s \in Seq(Msgs) /\ Len(s) = l /\ \A i \in 1..l : s[i] = p[k + i - 1]
    BY <1>0
  <1> HIDE DEF s
  <1>2. ASSUME NEW i \in 1..l, NEW j \in 1..l, s[i] = s[j] PROVE i = j
    <2>1. k + i - 1 \in 1..Len(p) /\ k + j - 1 \in 1..Len(p) /\ p[k + i - 1] = p[k + j - 1]
      BY <1>0, <1>1, <1>2
    <2>2. k + i - 1 = k + j - 1
      BY <2>1 DEF Threaded
    <2> QED BY <1>0, <2>2
  <1>3. h = IF l > 0 THEN s[1] ELSE NULL
    <2>1. l > 0 <=> k <= Len(p)
      BY <1>0
    <2>2. l > 0 => s[1] = p[k]
      BY <1>0, <1>1
    <2> QED BY <2>1, <2>2 DEF Threaded
  <1>4. ASSUME NEW i \in 1..l PROVE nx[s[i]] = IF i < l THEN s[i + 1] ELSE NULL
    <2>1. k + i - 1 \in k..Len(p) /\ (k + i - 1 < Len(p) <=> i < l) /\ (k + i - 1) + 1 = k + (i + 1) - 1
      BY <1>0
    <2>2. nx[p[k + i - 1]] = IF k + i - 1 < Len(p) THEN p[(k + i - 1) + 1] ELSE NULL
      BY <2>1 DEF Threaded
    <2>3. i < l => i + 1 \in 1..l
      BY <1>0
    <2> QED BY <1>1, <2>1, <2>2, <2>3
  <1>5. Strung(h, nx, s)
    BY <1>0, <1>1, <1>2, <1>3, <1>4 DEF Strung
  <1> QED BY <1>5, ChainIs DEF s

\* What is linked is what was posted and not taken.
LEMMA UsableThreaded == IInv /\ Usable => Threaded(head, next, posted, Len(taken) + 1)
  <1> SUFFICES ASSUME IInv, Usable PROVE Threaded(head, next, posted, Len(taken) + 1)
    OBVIOUS
  <1>1. /\ StructOK /\ ListShape /\ Fifo /\ posted \in Seq(Msgs) /\ taken \in Seq(Msgs)
        /\ Len(posted) \in Nat /\ Len(taken) \in Nat /\ Len(taken) <= Len(posted) /\ cnt = Len(posted) - Len(taken)
    BY DEF IInv, StructOK, Fifo, ListShape
  <1>2. head = IF Len(taken) + 1 <= Len(posted) THEN posted[Len(taken) + 1] ELSE NULL
    BY <1>1 DEF ListShape
  <1>3. ASSUME NEW i \in Len(taken) + 1 .. Len(posted)
        PROVE  next[posted[i]] = IF i < Len(posted) THEN posted[i + 1] ELSE NULL
    <2>1. CASE i < Len(posted)
      <3>1. i \in Linked /\ i + 1 \in Linked
        BY <1>1, <2>1 DEF Linked
      <3> QED BY <1>1, <2>1, <3>1 DEF ListShape
    <2>2. CASE i = Len(posted)
      <3>1. cnt > 0
        BY <1>1, <2>2
      <3> QED BY <1>1, <2>2, <3>1 DEF ListShape
    <2> QED BY <1>1, <2>1, <2>2
  <1> QED BY <1>1, <1>2, <1>3 DEF Threaded, Fifo

\* The same after a step.
LEMMA UsableThreadedNext ==
  IInv /\ [Next]_vars /\ Usable' => Threaded(head', next', posted', Len(taken') + 1)
  <1>1. (IInv /\ Usable => Threaded(head, next, posted, Len(taken) + 1))'
    BY UsableThreaded, PTL
  <1> QED BY <1>1, NextIInv

\* A post that links its message extends the channel, which has room for it.
LEMMA LinkAccepts ==
  ASSUME IInv, Claimed, NEW p \in Producers, Link(p)
  PROVE  \E m \in Msgs : Channel!Accept(m)
  <1> DEFINE m == cur[p]
             n == Len(taken) + 1
  <1>0. [Next]_vars
    BY DEF Next, Produce
  <1>1. /\ pc[p] # "idle" /\ posted' = Append(posted, m) /\ taken' = taken /\ owner' = owner /\ pc[p] = "link"
    BY DEF Link
  <1>2. Usable /\ Usable' /\ m \in Msgs
    BY <1>1 DEF IInv, TearDown, Usable, Hands
  <1>3. /\ posted \in Seq(Msgs) /\ Len(posted) \in Nat /\ Len(taken) \in Nat /\ Len(taken) <= Len(posted)
        /\ cnt = Len(posted) - Len(taken) /\ cnt \in Nat
    BY <1>2 DEF IInv, StructOK, Fifo, ListShape
  <1>4. Chain = SubSeq(posted, n, Len(posted))
    BY <1>2, UsableThreaded, ThreadedChain DEF Chain
  <1>5. Chain' = SubSeq(posted', n, Len(posted'))
    BY <1>0, <1>1, <1>2, UsableThreadedNext, ThreadedChain DEF Chain
  <1>6. Chain' = Append(Chain, m)
    <2>1. Len(posted') = Len(posted) + 1 /\ n \in 1..Len(posted) + 1
      BY <1>1, <1>2, <1>3
    <2>2. SubSeq(Append(posted, m), n, Len(posted) + 1) = Append(SubSeq(posted, n, Len(posted)), m)
      <3> DEFINE a == SubSeq(Append(posted, m), n, Len(posted) + 1)
                 b == Append(SubSeq(posted, n, Len(posted)), m)
                 l == Len(posted) - n + 1
      <3>1. l \in Nat /\ n \in Nat /\ Append(posted, m) \in Seq(Msgs) /\ Len(Append(posted, m)) = Len(posted) + 1
        BY <1>2, <1>3, <2>1
      <3>2. a \in Seq(Msgs) /\ Len(a) = l + 1 /\ \A i \in 1..l + 1 : a[i] = Append(posted, m)[n + i - 1]
        <4>1. PICK t \in Seq(Msgs) : t = Append(posted, m)
          BY <3>1
        <4>2. Len(t) = Len(posted) + 1
          BY <3>1, <4>1
        <4>3. n \in 1..Len(t) /\ l + 1 = Len(t) - n + 1
          BY <1>3, <2>1, <4>2
        <4>4. a = SubSeq(t, n, Len(t))
          BY <4>1, <4>2
        <4>5. /\ SubSeq(t, n, Len(t)) \in Seq(Msgs) /\ Len(SubSeq(t, n, Len(t))) = Len(t) - n + 1
              /\ \A i \in 1..Len(t) - n + 1 : SubSeq(t, n, Len(t))[i] = t[n + i - 1]
          BY <4>3
        <4> QED BY <4>1, <4>3, <4>4, <4>5
      <3>3. b \in Seq(Msgs) /\ Len(b) = l + 1 /\ b[l + 1] = m /\ \A i \in 1..l : b[i] = posted[n + i - 1]
        BY <1>2, <1>3, <2>1, <3>1
      <3>4. ASSUME NEW i \in 1..l + 1 PROVE a[i] = b[i]
        <4>1. CASE i = l + 1
          BY <1>3, <2>1, <3>1, <3>2, <3>3, <4>1
        <4>2. CASE i \in 1..l
          <5>1. n + i - 1 \in 1..Len(posted)
            BY <1>3, <2>1, <3>1, <4>2
          <5> QED BY <1>3, <3>1, <3>2, <3>3, <4>2, <5>1
        <4> QED BY <3>1, <4>1, <4>2
      <3> HIDE DEF a, b
      <3>5. a = b
        BY <3>1, <3>2, <3>3, <3>4, SeqEqual
      <3> QED BY <3>5 DEF a, b
    <2> QED BY <1>1, <1>4, <1>5, <2>1, <2>2
  <1>7. Len(Chain) < Max + Cardinality(Producers) - 1
    <2>1. Len(Chain) = cnt
      BY <1>3, <1>4
    <2>2. p \in Claims /\ Cardinality(Claims) # 0
      BY <1>1, ClaimsFinite, FS_EmptySet DEF Claims
    <2>3. cnt + Cardinality(Claims) <= Max + Cardinality(Producers) - 1
      BY DEF Claimed
    <2>4. Cardinality(Claims) \in Nat /\ Cardinality(Producers) \in Nat /\ Max \in Nat
      BY ClaimsFinite, QueueAssumption
    <2>5. \A c, d \in Nat : cnt + c <= Max + d - 1 /\ c # 0 => cnt < Max + d - 1
      BY <1>3, <2>4
    <2>6. cnt < Max + Cardinality(Producers) - 1
      BY <2>2, <2>3, <2>4, <2>5
    <2> QED BY <2>1, <2>6
  <1> QED BY <1>1, <1>2, <1>6, <1>7 DEF Channel!Accept

\* bh_get_msg delivers the oldest message.
LEMMA UnlinkDelivers ==
  ASSUME IInv, [Next]_vars, Unlink, owner' = owner, posted' = posted, loop # "done"
  PROVE  Channel!Deliver
  <1> DEFINE n == Len(taken) + 1
  <1>1. Usable /\ Usable'
    BY DEF IInv, TearDown, Usable
  <1>2. /\ posted \in Seq(Msgs) /\ Len(posted) \in Nat /\ taken \in Seq(Msgs) /\ Len(taken) \in Nat
        /\ cnt = Len(posted) - Len(taken) /\ cnt \in Nat
    BY <1>1 DEF IInv, StructOK, Fifo, ListShape
  <1>3. cnt # 0 /\ taken' = Append(taken, head) /\ n \in 1..Len(posted) /\ head \in Ptr
    BY <1>2 DEF Unlink, IInv, StructOK
  <1>4. Chain = SubSeq(posted, n, Len(posted))
    BY <1>1, UsableThreaded, ThreadedChain DEF Chain
  <1>5. Len(taken') = n
    BY <1>2, <1>3
  <1>6. Chain' = SubSeq(posted, n + 1, Len(posted))
    BY <1>1, <1>5, UsableThreadedNext, ThreadedChain DEF Chain
  <1>7. Chain # <<>> /\ Head(Chain) = posted[n] /\ Chain' = Tail(Chain)
    <2>1. Len(Chain) # 0 /\ Head(Chain) = posted[n]
      BY <1>2, <1>3, <1>4
    <2>2. Tail(SubSeq(posted, n, Len(posted))) = SubSeq(posted, n + 1, Len(posted))
      BY <1>2, <1>3
    <2> QED BY <2>1, <2>2, <1>4, <1>6
  <1>8. head = posted[n]
    BY <1>1, <1>2, <1>3 DEF IInv, ListShape
  <1> QED BY <1>1, <1>3, <1>7, <1>8 DEF Channel!Deliver

\* bh_queue_destroy discards what was not delivered.
LEMMA DestroyDiscards ==
  ASSUME IInv, Held, DestroyNode
  PROVE  Channel!Discard
  <1>1. /\ owner = "destroying" /\ owner' = owner /\ head # NULL /\ head' = next[head] /\ next' = next
        /\ posted' = posted /\ taken' = taken
    BY DEF DestroyNode, hist
  <1>2. ~Usable /\ ~Usable'
    BY <1>1 DEF Usable
  <1>3. PICK k \in Nat : LeftFrom(k)
    BY <1>1 DEF Held
  <1>4. /\ posted \in Seq(Msgs) /\ Len(posted) \in Nat /\ Len(taken) \in Nat
        /\ \A i, j \in 1..Len(posted) : posted[i] = posted[j] => i = j
    BY DEF IInv, StructOK, Fifo
  <1>5. k \in 1..Len(posted)
    BY <1>1, <1>3, <1>4 DEF LeftFrom
  <1>6. Threaded(head, next, posted, k)
    BY <1>3, <1>4, <1>5 DEF LeftFrom, Threaded
  <1>7. Threaded(head', next', posted', k + 1)
    <2>1. head' = IF k + 1 <= Len(posted) THEN posted[k + 1] ELSE NULL
      BY <1>1, <1>3, <1>4, <1>5 DEF LeftFrom
    <2>2. k + 1 \in 1..Len(posted) + 1 /\ k + 1..Len(posted) \subseteq k..Len(posted)
      BY <1>4, <1>5
    <2> QED BY <1>1, <1>3, <1>4, <2>1, <2>2 DEF LeftFrom, Threaded
  <1>8. Chain = SubSeq(posted, k, Len(posted)) /\ Chain' = SubSeq(posted, k + 1, Len(posted))
    BY <1>1, <1>6, <1>7, ThreadedChain DEF Chain
  <1>9. Chain # <<>> /\ Chain' = Tail(Chain)
    <2>1. Len(Chain) # 0
      BY <1>4, <1>5, <1>8
    <2>2. Tail(SubSeq(posted, k, Len(posted))) = SubSeq(posted, k + 1, Len(posted))
      BY <1>4, <1>5
    <2> QED BY <2>1, <2>2, <1>8
  <1> QED BY <1>1, <1>2, <1>9 DEF Channel!Discard

\* Every step is one of the channel, or none.
LEMMA StepRefines ==
  ASSUME IInv, Claimed, Held, [Next]_vars
  PROVE  [Channel!FifoNext]_(Channel!fifoVars)
  <1>1. ASSUME head' = head, next' = next, taken' = taken, Usable' <=> Usable
        PROVE  UNCHANGED Channel!fifoVars
    <2>1. Chain' = Chain
      BY <1>1 DEF Chain, ChainOf, Nodes
    <2> QED BY <1>1, <2>1 DEF Channel!fifoVars
  <1>2. ASSUME NEW p \in Producers, Post(p) \/ TestFull(p) \/ Drop(p)
        PROVE  UNCHANGED Channel!fifoVars
    <2>1. head' = head /\ next' = next /\ taken' = taken /\ owner' = owner
      BY <1>2 DEF Post, NewMsg, NewMsgFails, TestFull, Drop, fields, hist
    <2> QED BY <1>1, <2>1 DEF Usable
  <1>3. ASSUME NEW p \in Producers, Link(p) PROVE Channel!FifoNext
    BY <1>3, LinkAccepts DEF Channel!FifoNext
  <1>4. CASE LoopCheck \/ Handle \/ SpuriousWakeup
    <2>1. head' = head /\ next' = next /\ taken' = taken /\ owner' = owner
      BY <1>4 DEF LoopCheck, Handle, SpuriousWakeup, fields, hist
    <2>2. UNCHANGED Channel!fifoVars
      BY <1>1, <2>1 DEF Usable
    <2> QED BY <2>2
  <1>5. CASE GetMsg \/ GetMsgWoken
    <2>1. owner' = owner /\ posted' = posted /\ loop # "done"
      BY <1>5 DEF GetMsg, GetMsgWoken
    <2>2. CASE Unlink
      <3>1. Channel!Deliver
        BY <2>1, <2>2, UnlinkDelivers
      <3> QED BY <3>1 DEF Channel!FifoNext
    <2>3. CASE ~Unlink
      <3>1. head' = head /\ next' = next /\ taken' = taken
        BY <1>5, <2>3 DEF GetMsg, GetMsgWoken, fields
      <3>2. UNCHANGED Channel!fifoVars
        BY <1>1, <2>1, <3>1 DEF Usable
      <3> QED BY <3>2
    <2> QED BY <2>2, <2>3
  <1>6. CASE ExitLoopRun \/ ExitSignal \/ DestroyEnd
    <2>1. head' = head /\ next' = next /\ taken' = taken
      BY <1>6 DEF ExitLoopRun, ExitSignal, DestroyEnd, fields, hist
    <2>2. Usable' <=> Usable
      BY <1>6 DEF ExitLoopRun, ExitSignal, DestroyEnd, Usable
    <2>3. UNCHANGED Channel!fifoVars
      BY <1>1, <2>1, <2>2
    <2> QED BY <2>3
  <1>7. CASE JoinLoop
    <2>1. head' = head /\ next' = next /\ taken' = taken /\ owner = "signalled" /\ owner' = "destroying"
      BY <1>7 DEF JoinLoop, fields, hist
    <2>2. Usable /\ ~Usable'
      BY <2>1 DEF Usable
    <2>3. Chain' = Chain
      BY <2>1 DEF Chain, ChainOf, Nodes
    <2>4. Channel!Close
      BY <2>1, <2>2, <2>3 DEF Channel!Close
    <2> QED BY <2>4 DEF Channel!FifoNext
  <1>8. CASE DestroyNode
    <2>1. Channel!Discard
      BY <1>8, DestroyDiscards
    <2> QED BY <2>1 DEF Channel!FifoNext
  <1>9. CASE UNCHANGED vars
    <2>1. head' = head /\ next' = next /\ taken' = taken /\ owner' = owner
      BY <1>9 DEF vars, fields, hist
    <2>2. UNCHANGED Channel!fifoVars
      BY <1>1, <2>1 DEF Usable
    <2> QED BY <2>2
  <1> QED BY <1>2, <1>3, <1>4, <1>5, <1>6, <1>7, <1>8, <1>9 DEF Next, Produce, LoopRun, Owner

\* bh_queue.c implements a bounded first-in first-out channel, for any producers,
\* messages and limit: the nodes that hang on head are what it holds, bh_get_msg
\* delivers the oldest, and only bh_queue_destroy discards.
THEOREM ImplementsFifoCorrect == Spec => ImplementsFifo
  <1>1. Init => Channel!FifoInit
    <2> SUFFICES ASSUME Init PROVE Channel!FifoInit
      OBVIOUS
    <2>1. IInv /\ Usable /\ posted = <<>> /\ taken = <<>> /\ Len(posted) = 0 /\ Len(taken) = 0
      BY InitIInv DEF Init, Usable
    <2>2. Chain = SubSeq(posted, Len(taken) + 1, Len(posted))
      BY <2>1, UsableThreaded, ThreadedChain DEF Chain
    <2>3. Chain = <<>>
      BY <2>1, <2>2
    <2> QED BY <2>1, <2>3 DEF Channel!FifoInit
  <1>2. IInv /\ Claimed /\ Held /\ [Next]_vars => [Channel!FifoNext]_(Channel!fifoVars)
    BY StepRefines
  <1> QED BY <1>1, <1>2, Inductive, ClaimedAlways, HeldAlways, PTL DEF Spec, ImplementsFifo, Channel!FifoSpec
=============================================================================
