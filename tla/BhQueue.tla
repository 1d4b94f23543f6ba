------------------------------- MODULE BhQueue -------------------------------
(***************************************************************************)
(* The message queue of core/shared/utils/bh_queue.c, the only channel     *)
(* between the threads of the runtime: every application thread and the    *)
(* application manager run bh_queue_enter_loop_run on a queue of their own *)
(* while any other thread posts to it.                                     *)
(*                                                                         *)
(* The mutex-protected part of bh_post_msg2 and the two protected parts of *)
(* bh_get_msg (before and after the condition wait) are one step each: the *)
(* lock is held throughout and nothing in them blocks.  What runs without  *)
(* the lock is a step of its own: the test of cnt against max, the update  *)
(* of drops, the test of exit_loop_run and both halves of                  *)
(* bh_queue_exit_loop_run.                                                 *)
(***************************************************************************)
EXTENDS Integers, Sequences, FiniteSets

CONSTANTS Producers,  \* threads that call bh_post_msg on this queue
          Msgs,       \* message nodes the producers may allocate (the bound on posts)
          Max,        \* queue->max, DEFAULT_QUEUE_LENGTH in the code
          NULL        \* the null pointer

ASSUME QueueAssumption ==
    /\ IsFiniteSet(Producers)
    /\ Producers # {}
    /\ IsFiniteSet(Msgs)
    /\ Max \in Nat \ {0}
    /\ NULL \notin Msgs

VARIABLES
    cnt, head, tail, drops, exit_loop_run,  \* the fields of struct bh_queue
    next, prev,    \* the links of each node
    pc, cur, seen, \* per producer: program point, node in hand, value of drops it read
    loop, msg,     \* the thread in bh_queue_enter_loop_run: program point, message in hand
    owner,         \* the thread that ends the loop, joins it and destroys the queue
    fresh, freed,  \* nodes not allocated yet, nodes given back to the allocator
    posted, taken, refused  \* history: nodes linked, nodes dequeued (in order), nodes turned away

fields == <<cnt, head, tail, next, prev>>
hist == <<posted, taken, refused>>
vars == <<fields, drops, exit_loop_run, pc, cur, seen, loop, msg, owner, fresh, freed, hist>>

Ptr == Msgs \cup {NULL}

\* bh_queue_create: a zeroed structure with its limit set.
Init ==
    /\ cnt = 0 /\ head = NULL /\ tail = NULL
    /\ drops = 0 /\ exit_loop_run = FALSE
    /\ next = [m \in Msgs |-> NULL] /\ prev = [m \in Msgs |-> NULL]
    /\ pc = [p \in Producers |-> "idle"]
    /\ cur = [p \in Producers |-> NULL]
    /\ seen = [p \in Producers |-> 0]
    /\ loop = "check" /\ msg = NULL
    /\ owner = "running"
    /\ fresh = Msgs /\ freed = {}
    /\ posted = <<>> /\ taken = <<>> /\ refused = {}

-----------------------------------------------------------------------------
(* Producers.                                                              *)

\* A caller posts only to a queue it still may use (see AppManager for what
\* the callers really guarantee).
Usable == owner \in {"running", "flagged", "signalled"}

\* bh_post_msg: bh_new_msg allocates the node, or fails; then drops++ and the
\* free of the caller's body are left to do.
NewMsg(p, m) ==
    /\ Usable /\ pc[p] = "idle" /\ m \in fresh
    /\ fresh' = fresh \ {m}
    /\ cur' = [cur EXCEPT ![p] = m]
    /\ pc' = [pc EXCEPT ![p] = "test"]
    /\ UNCHANGED <<fields, drops, exit_loop_run, seen, loop, msg, owner, freed, hist>>

NewMsgFails(p, m) ==
    /\ Usable /\ pc[p] = "idle" /\ m \in fresh
    /\ fresh' = fresh \ {m}
    /\ cur' = [cur EXCEPT ![p] = m]
    /\ seen' = [seen EXCEPT ![p] = drops]
    /\ pc' = [pc EXCEPT ![p] = "drop"]
    /\ UNCHANGED <<fields, drops, exit_loop_run, loop, msg, owner, freed, hist>>

MutFullOffByOne == cnt > Max

\* The limit, compared without the lock.
QueueFull == cnt >= Max

\* bh_post_msg2 reads cnt without the lock.  On a full queue it goes on to
\* drops++, here its read.
TestFull(p) ==
    /\ pc[p] = "test"
    /\ IF QueueFull
       THEN /\ seen' = [seen EXCEPT ![p] = drops]
            /\ pc' = [pc EXCEPT ![p] = "drop"]
       ELSE /\ pc' = [pc EXCEPT ![p] = "link"]
            /\ UNCHANGED seen
    /\ UNCHANGED <<fields, drops, exit_loop_run, cur, loop, msg, owner, fresh, freed, hist>>

\* The write of drops++, then the node (or the body that got none) is freed.
Drop(p) ==
    /\ pc[p] = "drop"
    /\ drops' = seen[p] + 1
    /\ freed' = freed \cup {cur[p]}
    /\ refused' = refused \cup {cur[p]}
    /\ cur' = [cur EXCEPT ![p] = NULL]
    /\ pc' = [pc EXCEPT ![p] = "idle"]
    /\ UNCHANGED <<fields, exit_loop_run, seen, loop, msg, owner, fresh, posted, taken>>

MutSignalLost == UNCHANGED loop

\* os_cond_signal: wakes the thread that waits, and is lost if none does.
Signal == loop' = IF loop = "wait" THEN "woken" ELSE loop

MutPushFront(m) ==
    /\ next' = [next EXCEPT ![m] = head]
    /\ prev' = [prev EXCEPT ![m] = NULL, ![head] = m]
    /\ head' = m
    /\ UNCHANGED tail

\* The node is hooked behind the tail of a queue that is not empty.
AppendNode(m) ==
    /\ next' = [next EXCEPT ![m] = NULL, ![tail] = m]
    /\ prev' = [prev EXCEPT ![m] = tail]
    /\ tail' = m
    /\ UNCHANGED head

\* The locked part of bh_post_msg2.
Link(p) ==
    LET m == cur[p] IN
    /\ pc[p] = "link"
    /\ IF cnt = 0
       THEN /\ head' = m /\ tail' = m
            /\ next' = [next EXCEPT ![m] = NULL]
            /\ prev' = [prev EXCEPT ![m] = NULL]
            /\ Signal
       ELSE AppendNode(m) /\ UNCHANGED loop
    /\ cnt' = cnt + 1
    /\ posted' = Append(posted, m)
    /\ cur' = [cur EXCEPT ![p] = NULL]
    /\ pc' = [pc EXCEPT ![p] = "idle"]
    /\ UNCHANGED <<drops, exit_loop_run, seen, msg, owner, fresh, freed, taken, refused>>

-----------------------------------------------------------------------------
(* The loop thread.                                                        *)

LoopCheck ==
    /\ loop = "check"
    /\ loop' = IF exit_loop_run THEN "done" ELSE "get"
    /\ UNCHANGED <<fields, drops, exit_loop_run, pc, cur, seen, msg, owner, fresh, freed, hist>>

\* The end of bh_get_msg: the head node is unlinked under the lock.
Unlink ==
    /\ cnt # 0
    /\ msg' = head
    /\ IF cnt = 1
       THEN /\ head' = NULL /\ tail' = NULL
            /\ cnt' = 0
            /\ UNCHANGED prev
       ELSE /\ head' = next[head]
            /\ prev' = [prev EXCEPT ![next[head]] = NULL]
            /\ cnt' = cnt - 1
            /\ UNCHANGED tail
    /\ taken' = Append(taken, head)
    /\ loop' = "handle"
    /\ UNCHANGED next

\* bh_get_msg(queue, BHT_WAIT_FOREVER) up to the condition wait: with the lock
\* held, an empty queue makes the thread wait (and release the lock) atomically.
GetMsg ==
    /\ loop = "get"
    /\ \/ Unlink
       \/ /\ cnt = 0
          /\ loop' = "wait"
          /\ UNCHANGED <<fields, msg, taken>>
    /\ UNCHANGED <<drops, exit_loop_run, pc, cur, seen, owner, fresh, freed, posted, refused>>

\* pthread_cond_wait may return without a signal.
SpuriousWakeup ==
    /\ loop = "wait"
    /\ loop' = "woken"
    /\ UNCHANGED <<fields, drops, exit_loop_run, pc, cur, seen, msg, owner, fresh, freed, hist>>

\* After the wait there is no second one: an empty queue returns NULL and the
\* loop goes round.
GetMsgWoken ==
    /\ loop = "woken"
    /\ \/ Unlink
       \/ /\ cnt = 0
          /\ loop' = "check"
          /\ UNCHANGED <<fields, msg, taken>>
    /\ UNCHANGED <<drops, exit_loop_run, pc, cur, seen, owner, fresh, freed, posted, refused>>

\* handle_cb, then bh_free_msg.
Handle ==
    /\ loop = "handle"
    /\ freed' = freed \cup {msg}
    /\ msg' = NULL
    /\ loop' = "check"
    /\ UNCHANGED <<fields, drops, exit_loop_run, pc, cur, seen, owner, fresh, hist>>

-----------------------------------------------------------------------------
(* The owner: bh_queue_exit_loop_run, os_thread_join, bh_queue_destroy.    *)

ExitLoopRun ==
    /\ owner = "running"
    /\ exit_loop_run' = TRUE
    /\ owner' = "flagged"
    /\ UNCHANGED <<fields, drops, pc, cur, seen, loop, msg, fresh, freed, hist>>

ExitSignal ==
    /\ owner = "flagged"
    /\ Signal
    /\ owner' = "signalled"
    /\ UNCHANGED <<fields, drops, exit_loop_run, pc, cur, seen, msg, fresh, freed, hist>>

\* The owner joins the loop's thread and then destroys the queue; no post may
\* be under way.
JoinLoop ==
    /\ owner = "signalled"
    /\ loop = "done"
    /\ \A p \in Producers : pc[p] = "idle"
    /\ owner' = "destroying"
    /\ UNCHANGED <<fields, drops, exit_loop_run, pc, cur, seen, loop, msg, fresh, freed, hist>>

\* One turn of the loop of bh_queue_destroy; cnt and tail are left as they are.
DestroyNode ==
    /\ owner = "destroying"
    /\ head # NULL
    /\ head' = next[head]
    /\ freed' = freed \cup {head}
    /\ UNCHANGED <<cnt, tail, next, prev, drops, exit_loop_run, pc, cur, seen, loop, msg,
                   owner, fresh, hist>>

MutDestroyKeepsRest ==
    /\ owner = "destroying"
    /\ owner' = "destroyed"
    /\ UNCHANGED <<fields, drops, exit_loop_run, pc, cur, seen, loop, msg, fresh, freed, hist>>

DestroyEnd ==
    /\ owner = "destroying"
    /\ head = NULL
    /\ owner' = "destroyed"
    /\ UNCHANGED <<fields, drops, exit_loop_run, pc, cur, seen, loop, msg, fresh, freed, hist>>

-----------------------------------------------------------------------------
Produce(p) == TestFull(p) \/ Drop(p) \/ Link(p)
Post(p) == \E m \in Msgs : NewMsg(p, m) \/ NewMsgFails(p, m)
LoopRun == LoopCheck \/ GetMsg \/ GetMsgWoken \/ Handle
Owner == ExitSignal \/ JoinLoop \/ DestroyNode \/ DestroyEnd

Next ==
    \/ \E p \in Producers : Post(p) \/ Produce(p)
    \/ LoopRun
    \/ SpuriousWakeup
    \/ ExitLoopRun
    \/ Owner

\* A thread that is not blocked goes on running: every step but the start of a
\* post, the decision to end the loop and the spurious wakeup is weakly fair.
Fairness ==
    /\ \A p \in Producers : WF_vars(Produce(p))
    /\ WF_vars(LoopRun)
    /\ WF_vars(Owner)

Spec == Init /\ [][Next]_vars
FairSpec == Spec /\ Fairness
-----------------------------------------------------------------------------
(* Properties.                                                             *)

StructOK ==
    /\ cnt \in Nat /\ head \in Ptr /\ tail \in Ptr
    /\ drops \in Nat
    /\ next \in [Msgs -> Ptr] /\ prev \in [Msgs -> Ptr]
    /\ pc \in [Producers -> {"idle", "test", "drop", "link"}]
    /\ cur \in [Producers -> Ptr] /\ seen \in [Producers -> Nat]
    /\ loop \in {"check", "get", "wait", "woken", "handle", "done"} /\ msg \in Ptr
    /\ owner \in {"running", "flagged", "signalled", "destroying", "destroyed"}
    /\ fresh \in SUBSET Msgs /\ freed \in SUBSET Msgs /\ refused \in SUBSET Msgs
    /\ posted \in Seq(Msgs) /\ taken \in Seq(Msgs)

\* The type invariant: every field of the queue, every link and every thread's
\* state has its type; in particular no null or unallocated node is dequeued or freed.
TypeOK == StructOK /\ exit_loop_run \in BOOLEAN

\* The messages that are linked, oldest first, by their index in posted.
Linked == Len(taken) + 1 .. Len(posted)

\* Until bh_queue_destroy starts, the doubly linked list from head to tail is
\* exactly the messages posted and not yet taken, in the order they were posted.
\* The bh_asserts of bh_post_msg2 and bh_get_msg (an empty queue has no head and
\* no tail, a queue of one has head = tail) are cases of it.
ListShape ==
    Usable =>
      /\ cnt = Len(posted) - Len(taken)
      /\ cnt = 0 => head = NULL /\ tail = NULL
      /\ cnt > 0 => /\ head = posted[Len(taken) + 1] /\ prev[head] = NULL
                    /\ tail = posted[Len(posted)] /\ next[tail] = NULL
      /\ \A i \in Linked : i + 1 \in Linked =>
            next[posted[i]] = posted[i + 1] /\ prev[posted[i + 1]] = posted[i]

\* bh_get_msg hands the messages out in the order bh_post_msg2 linked them,
\* each once: what was taken is a prefix of what was posted.
Fifo ==
    /\ Len(taken) <= Len(posted)
    /\ \A i \in 1..Len(taken) : taken[i] = posted[i]
    /\ \A i, j \in 1..Len(posted) : posted[i] = posted[j] => i = j

\* bh_post_msg2 tests the limit before it takes the lock, so max is not the
\* bound: every producer but one may have passed the test when the last free
\* place is filled.
CapacityBound == cnt <= Max + Cardinality(Producers) - 1

\* A node is freed by exactly one of bh_post_msg2 (refused), the loop (handled)
\* and bh_queue_destroy: nothing a thread holds, and nothing linked, is freed.
NoUseAfterFree ==
    /\ \A p \in Producers : cur[p] \notin freed
    /\ msg \notin freed
    /\ Usable => \A i \in Linked : posted[i] \notin freed

\* The pointer structure, the order, the limit and the memory of the queue, under
\* every interleaving of the producers, the loop and the destruction.
Intact == ListShape /\ Fifo /\ CapacityBound /\ NoUseAfterFree

\* Once the queue is destroyed every node ever allocated has been freed.
NoLeak == owner = "destroyed" => fresh \cup freed = Msgs

\* drops++ is not locked and may lose updates, but it never counts a message
\* that was not refused, and it cannot miss all of them.
DropsAccounting ==
    /\ drops <= Cardinality(refused)
    /\ refused # {} => drops > 0

\* No message is lost sight of: each is freed in the end, and the refusals are
\* counted as far as the unlocked counter can.
AllAccounted == NoLeak /\ DropsAccounting

\* A message that was linked is handled, unless the loop is told to end.
PostedIsHandled ==
    \A m \in Msgs : (\E i \in Linked : posted[i] = m) ~> (m \in freed \/ exit_loop_run)

\* What the callers of bh_queue_exit_loop_run count on when they join the
\* thread next: the loop ends.
ExitEndsLoop == exit_loop_run ~> loop = "done"

-----------------------------------------------------------------------------
(* The queue as its users see it.                                          *)

\* The nodes from h along nx, and NULL behind the last one.  (A list longer than
\* the number of nodes would be a cycle.)
Nodes(h, nx) ==
    LET node[i \in 0..Cardinality(Msgs)] ==
            IF i = 0 THEN h
            ELSE IF node[i - 1] = NULL THEN NULL ELSE nx[node[i - 1]]
    IN  node
ChainOf(node) ==
    LET len == Cardinality({i \in 0..Cardinality(Msgs) : node[i] # NULL})
    IN  [i \in 1..len |-> node[i - 1]]

\* The abstract queue of the concrete pointers.
Chain == ChainOf(Nodes(head, next))

Channel == INSTANCE BoundedFifo WITH
            q <- Chain, out <- taken, closed <- ~Usable,
            Capacity <- Max + Cardinality(Producers) - 1

\* The pointer-level queue implements the bounded first-in first-out channel:
\* the chain of nodes bh_queue.c builds is the channel's content.
ImplementsFifo == Channel!FifoSpec
==============================================================================
