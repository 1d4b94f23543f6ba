-------------------------------- MODULE Ems --------------------------------
(***************************************************************************)
(* The heap of mem-alloc/ems: chunks with a header each, free ones in a    *)
(* list by size when they are small and in a search tree when they are     *)
(* big, neighbours merged when one is freed.  Sizes and places are in      *)
(* units of 8 bytes from the base of the heap.  Every call holds the lock  *)
(* of the heap, but for the end of a reallocation that moved its object.   *)
(***************************************************************************)
EXTENDS Integers, Sequences, FiniteSets, SequencesExt, FiniteSetsExt

CONSTANTS
  Size,         \* current_size of the heap
  NormalMax,    \* HMU_FC_NORMAL_MAX_SIZE: smaller chunks are in the lists
  Smallest,     \* GC_SMALLEST_SIZE
  Requests,     \* sizes asked for, the header counted
  MaxMoves,     \* bound on the reallocations that leave an old object to free
  MaxDrift      \* bound on what objects grow in place

ASSUME HeapAssumption ==
  /\ {Size, NormalMax, Smallest, MaxMoves, MaxDrift} \subseteq Nat /\ Requests \subseteq Nat \ {0}
  /\ Smallest > 1 /\ NormalMax > 1 /\ NormalMax < Size

VARIABLES
  hp,           \* [chunk, normal, tree]: headers by place, the lists, the tree
  total_free,   \* total_free_size
  moving,       \* objects moved by gc_realloc_vo and not freed yet
  stale,        \* chunks whose P bit was left unset by gc_realloc_vo
  drift,        \* what gc_realloc_vo took without accounting for it
  wild          \* a header or a footer was read where there is none
heapVars == <<hp, total_free, moving, stale, drift, wild>>

Root == -1
Nil == -2
Leaf(up, n) == [left |-> Nil, right |-> Nil, parent |-> up, size |-> n]

\* f with v at x, and without x.
Put(f, x, v) == [y \in DOMAIN f \cup {x} |-> IF y = x THEN v ELSE f[y]]
Drop(f, x) == [y \in DOMAIN f \ {x} |-> f[y]]

\* gc_init_with_pool: one free chunk, under the root of the tree.
HeapInit ==
  /\ hp = [chunk |-> [x \in {0} |-> [ut |-> "fc", size |-> Size, pin |-> TRUE]],
           normal |-> [n \in 1..NormalMax - 1 |-> <<>>],
           tree |-> Put([y \in {Root} |-> [Leaf(Nil, 0) EXCEPT !.right = 0]], 0, Leaf(Root, Size))]
  /\ total_free = Size /\ moving = {} /\ stale = {} /\ drift = 0 /\ wild = FALSE

HMU_IS_FC_NORMAL(n) == n < NormalMax
hmu_is_in_heap(x) == x >= 0 /\ x < Size
mark_pinuse(h, x, b) == IF hmu_is_in_heap(x) THEN [h EXCEPT !.chunk[x].pin = b] ELSE h

----------------------------------------------------------------------------
(* The tree: left <= node < right.  A walk ends within as many steps as    *)
(* there are nodes.                                                        *)

\* The last of the nodes reached from one by following a child.
Walk(t, from, child) ==
  LET at[k \in 0..Cardinality(DOMAIN t)] ==
        IF k = 0 THEN from
        ELSE IF child[at[k - 1]] = Nil THEN at[k - 1] ELSE child[at[k - 1]]
  IN at[Cardinality(DOMAIN t)]
Rights(t) == [y \in DOMAIN t |-> t[y].right]
Parents(t) == [y \in DOMAIN t |-> t[y].parent]

insert_tree_node(t, x, n) ==
  LET up == Walk(t, Root, [y \in DOMAIN t |-> IF t[y].size < n THEN t[y].right ELSE t[y].left])
      above == IF t[up].size < n THEN [t EXCEPT ![up].right = x] ELSE [t EXCEPT ![up].left = x]
  IN Put(above, x, Leaf(up, n))

\* c, a node or none, takes the place of p under its parent.
Replace(t, p, c) ==
  LET up == t[p].parent
      slot == IF t[up].right = p THEN [t EXCEPT ![up].right = c] ELSE [t EXCEPT ![up].left = c]
  IN IF c = Nil THEN slot ELSE [slot EXCEPT ![c].parent = up]
Splice(t, p) == Drop(Replace(t, p, IF t[p].left = Nil THEN t[p].right ELSE t[p].left), p)

\* Mutant: the predecessor does not take over the right subtree.
MutRightLost(t, p) ==
  IF t[p].left = Nil \/ t[p].right = Nil THEN Splice(t, p)
  ELSE LET q == Walk(t, t[p].left, Rights(t))
           cut == Splice(t, q)
           back == Put(Replace(Put(cut, q, t[q]), p, q),
                       q, [cut[p] EXCEPT !.size = t[q].size, !.right = Nil])
           moved == [y \in DOMAIN back |->
                       IF y \in {cut[p].left, cut[p].right} THEN [back[y] EXCEPT !.parent = q]
                       ELSE back[y]]
       IN Drop(moved, p)
\* A node with two children is replaced by its predecessor.
remove_tree_node(t, p) ==
  IF t[p].left = Nil \/ t[p].right = Nil THEN Splice(t, p)
  ELSE LET q == Walk(t, t[p].left, Rights(t))
           cut == Splice(t, q)
           back == Put(Replace(Put(cut, q, t[q]), p, q), q, [cut[p] EXCEPT !.size = t[q].size])
           moved == [y \in DOMAIN back |->
                       IF y \in {cut[p].left, cut[p].right} THEN [back[y] EXCEPT !.parent = q]
                       ELSE back[y]]
       IN Drop(moved, p)

\* Mutant: the walk ends at the first node that is large enough.
MutFirstFit(t, n) ==
  LET way[k \in 0..Cardinality(DOMAIN t)] ==
        IF k = 0 THEN t[Root].right
        ELSE LET y == way[k - 1] IN IF y # Nil /\ t[y].size < n THEN t[y].right ELSE y
  IN way[Cardinality(DOMAIN t)]
\* The smallest node that is large enough, the last met on the way down.
BestNode(t, n) ==
  LET way[k \in 0..Cardinality(DOMAIN t)] ==
        IF k = 0 THEN <<t[Root].right, Nil>>
        ELSE LET y == way[k - 1][1] IN
             CASE y = Nil -> way[k - 1]
               [] y # Nil /\ t[y].size < n -> <<t[y].right, way[k - 1][2]>>
               [] OTHER -> <<t[y].left, y>>
  IN way[Cardinality(DOMAIN t)][2]

----------------------------------------------------------------------------
(* Chunks.                                                                 *)

unlink_hmu(h, x) ==
  LET n == h.chunk[x].size
      found == {i \in DOMAIN h.normal[n] : h.normal[n][i] = x}
  IN CASE ~HMU_IS_FC_NORMAL(n) -> [h EXCEPT !.tree = remove_tree_node(@, x)]
       [] HMU_IS_FC_NORMAL(n) /\ found # {} -> [h EXCEPT !.normal[n] = RemoveAt(@, Min(found))]
       [] OTHER -> h

\* The header keeps its P bit; pin is what the memory holds at a new header.
gci_add_fc(h, x, n, pin) ==
  LET kept == IF x \in DOMAIN h.chunk THEN h.chunk[x].pin ELSE pin
      made == [h EXCEPT !.chunk = Put(@, x, [ut |-> "fc", size |-> n, pin |-> kept])]
  IN IF HMU_IS_FC_NORMAL(n) THEN [made EXCEPT !.normal[n] = <<x>> \o @]
     ELSE [made EXCEPT !.tree = insert_tree_node(@, x, n)]

\* Mutant: the chunk after one that is taken whole is not told.
MutNextNotMarked(h, x, n, size) ==
  IF n >= size + Smallest
  THEN LET rest == gci_add_fc(h, x + size, n - size, TRUE)
       IN [mark_pinuse(rest, x + size, TRUE) EXCEPT
              !.chunk[x] = [ut |-> "vo", size |-> size, pin |-> @.pin]]
  ELSE [h EXCEPT !.chunk[x].ut = "vo"]
\* Chunk x of n units, already unlinked, gives up what it has over size when
\* that makes a chunk of its own.
TakeFrom(h, x, n, size) ==
  IF n >= size + Smallest
  THEN LET rest == gci_add_fc(h, x + size, n - size, TRUE)
       IN [mark_pinuse(rest, x + size, TRUE) EXCEPT
              !.chunk[x] = [ut |-> "vo", size |-> size, pin |-> @.pin]]
  ELSE [mark_pinuse(h, x + n, TRUE) EXCEPT !.chunk[x].ut = "vo"]

\* The first list with a chunk of the size or more, and else the tree.
alloc_hmu(h, req) ==
  LET size == IF req < Smallest THEN Smallest ELSE req
      lists == {n \in size..NormalMax - 1 : h.normal[n] # <<>>}
      n == Min(lists)
      small == Head(h.normal[n])
      big == BestNode(h.tree, size)
  IN CASE HMU_IS_FC_NORMAL(size) /\ lists # {} ->
            [at |-> small, hp |-> TakeFrom([h EXCEPT !.normal[n] = Tail(@)], small, n, size)]
       [] ~(HMU_IS_FC_NORMAL(size) /\ lists # {}) /\ big # Nil ->
            [at |-> big, hp |-> TakeFrom([h EXCEPT !.tree = remove_tree_node(@, big)], big,
                                         h.tree[big].size, size)]
       [] OTHER -> [at |-> Nil, hp |-> h]

Objects == {x \in DOMAIN hp.chunk : hp.chunk[x].ut = "vo"}
Before(h, x) == CHOOSE y \in DOMAIN h.chunk : y + h.chunk[y].size = x

\* The footer of the chunk before x: its size if it is free, but the link of
\* its list where there is room for nothing else.
Footer(h, x) ==
  LET y == Before(h, x)
      list == h.normal[1]
      k == CHOOSE i \in DOMAIN list : list[i] = y
  IN CASE h.chunk[y].size > 1 -> h.chunk[y].size
       [] OTHER -> IF k = Len(list) THEN 0 ELSE list[k + 1] - y

\* The data of an object is taken for a footer, or a link that leads to a place
\* without a header.
FreeIsWild(h, x) ==
  ~h.chunk[x].pin /\
    IF h.chunk[Before(h, x)].ut = "vo" THEN TRUE
    ELSE LET f == Footer(h, x) IN f # 0 /\ hmu_is_in_heap(x - f) /\ x - f # Before(h, x)

\* Mutant: the next chunk is not looked at.
MutNextNotMerged(h, x) ==
  LET back == IF h.chunk[x].pin THEN 0 ELSE Footer(h, x)
      merged == back # 0 /\ hmu_is_in_heap(x - back)
      low == IF merged THEN x - back ELSE x
      left == IF merged THEN [unlink_hmu(h, low) EXCEPT !.chunk = Drop(@, x)] ELSE h
      n == h.chunk[x].size + IF merged THEN back ELSE 0
  IN mark_pinuse(gci_add_fc(left, low, n, TRUE), low + n, FALSE)
\* The chunk freed with its free neighbours.
FreeChunk(h, x) ==
  LET back == IF h.chunk[x].pin THEN 0 ELSE Footer(h, x)
      merged == back # 0 /\ hmu_is_in_heap(x - back)
      low == IF merged THEN x - back ELSE x
      left == IF merged THEN [unlink_hmu(h, low) EXCEPT !.chunk = Drop(@, x)] ELSE h
      n == h.chunk[x].size + IF merged THEN back ELSE 0
      next == low + n
      both == hmu_is_in_heap(next) /\ left.chunk[next].ut = "fc"
      right == IF both THEN [unlink_hmu(left, next) EXCEPT !.chunk = Drop(@, next)] ELSE left
      all == n + IF both THEN h.chunk[next].size ELSE 0
  IN mark_pinuse(gci_add_fc(right, low, all, TRUE), low + all, FALSE)

----------------------------------------------------------------------------
(* The calls.                                                              *)

Done(h) ==
  /\ hp' = h
  /\ stale' = {x \in stale : x \in DOMAIN h.chunk}

gc_alloc_vo(req) ==
  LET r == alloc_hmu(hp, req) IN
  /\ ~wild /\ Done(r.hp)
  /\ total_free' = total_free - IF r.at = Nil THEN 0 ELSE r.hp.chunk[r.at].size
  /\ UNCHANGED <<moving, drift, wild>>

Free(x) ==
  /\ wild' = FreeIsWild(hp, x)
  /\ IF FreeIsWild(hp, x) THEN UNCHANGED <<hp, total_free, stale>>
     ELSE /\ Done(FreeChunk(hp, x))
          /\ total_free' = total_free + hp.chunk[x].size
  /\ UNCHANGED drift
gc_free_vo(x) == ~wild /\ Free(x) /\ UNCHANGED moving

\* An object that may not stay as it is, and whose next chunk is free and large
\* enough, grows into it.
CanGrow(x, req) ==
  LET next == x + hp.chunk[x].size IN
  /\ hmu_is_in_heap(next) /\ hp.chunk[next].ut = "fc"
  /\ req <= hp.chunk[x].size + hp.chunk[next].size

\* junk is the P bit found where the header of the rest goes.  Neither it nor
\* that of the chunk after a whole one taken is set.
Grow(x, req, junk) ==
  LET old == hp.chunk[x].size
      next == x + old
      both == old + hp.chunk[next].size
      cut == [unlink_hmu(hp, next) EXCEPT !.chunk = [Drop(@, next) EXCEPT ![x].size = req]]
      h == IF req < both THEN gci_add_fc(cut, x + req, both - req, junk) ELSE cut
  IN /\ hp' = h
     /\ stale' = {y \in stale \cup {x + req} : y \in DOMAIN h.chunk}
     /\ drift' = drift + req - old /\ drift' <= MaxDrift
     /\ UNCHANGED <<total_free, moving, wild>>

\* Otherwise a new object is made, and the old one freed after the unlock.
Move(x, req) ==
  LET r == alloc_hmu(hp, req) IN
  /\ Done(r.hp)
  /\ moving' = IF r.at = Nil THEN moving ELSE moving \cup {x}
  /\ Cardinality(moving') <= MaxMoves
  /\ total_free' = total_free - IF r.at = Nil THEN 0 ELSE r.hp.chunk[r.at].size
  /\ UNCHANGED <<drift, wild>>

gc_realloc_vo(x, req) ==
  /\ ~wild /\ req > hp.chunk[x].size
  /\ IF CanGrow(x, req) THEN \E junk \in BOOLEAN : Grow(x, req, junk) ELSE Move(x, req)

FreeMoved(x) == ~wild /\ Free(x) /\ moving' = moving \ {x}

HeapNext ==
  \/ \E req \in Requests : gc_alloc_vo(req)
  \/ \E x \in Objects \ moving :
       gc_free_vo(x) \/ \E req \in Requests : gc_realloc_vo(x, req)
  \/ \E x \in moving : FreeMoved(x)

HeapSpec == HeapInit /\ [][HeapNext]_heapVars

----------------------------------------------------------------------------
(* Properties.                                                             *)

Frees == {x \in DOMAIN hp.chunk : hp.chunk[x].ut = "fc"}

\* The sum of share, place by place.
Total(share) ==
  LET below[i \in 0..Size] == IF i = 0 THEN 0 ELSE below[i - 1] + share[i - 1]
  IN below[Size]

\* The chunks cover the heap, each ending where the next begins, so that no two
\* objects overlap; and no free chunk follows another, as long as gc_realloc_vo has
\* not left a chunk of 8 bytes, whose footer the link of its list overwrites.
Tiled ==
  /\ 0 \in DOMAIN hp.chunk
  /\ \A x \in DOMAIN hp.chunk :
       LET end == x + hp.chunk[x].size IN
       /\ hp.chunk[x].size > 0
       /\ end = Size \/ end \in DOMAIN hp.chunk
       /\ \A y \in DOMAIN hp.chunk : y > x => y >= end
       /\ x \in Frees /\ end \in Frees => drift > 0

\* A free chunk is found where alloc_hmu looks for it, once: in the list of its
\* size, or in the tree, which is a search tree with right parent links.
Indexed ==
  /\ \A n \in DOMAIN hp.normal :
       /\ IsInjective(hp.normal[n])
       /\ Range(hp.normal[n]) = {x \in Frees : hp.chunk[x].size = n}
  /\ LET t == hp.tree
         under(y, c) == IF c = Nil THEN TRUE ELSE t[c].parent = y
     IN /\ DOMAIN t = {Root} \cup {x \in Frees : ~HMU_IS_FC_NORMAL(hp.chunk[x].size)}
        /\ \A y \in DOMAIN t \ {Root} :
             /\ t[y].size = hp.chunk[y].size
             /\ under(y, t[y].left) /\ under(y, t[y].right)
             /\ t[y].parent \in DOMAIN t /\ y \in {t[t[y].parent].left, t[t[y].parent].right}
             /\ t[y].left # Nil => t[t[y].left].size <= t[y].size
             /\ t[y].right # Nil => t[t[y].right].size > t[y].size
        /\ \A y \in DOMAIN t \ {Root} : Walk(t, y, Parents(t)) = Root

\* The P bit of a chunk says whether the chunk before it is in use, and the free
\* size is that of the free chunks: gc_realloc_vo breaks both where an object
\* grows, and only the header it did not mark can lead a later free astray.
Accounted ==
  /\ total_free = Total([x \in 0..Size - 1 |-> IF x \in Frees THEN hp.chunk[x].size ELSE 0]) + drift
  /\ \A x \in DOMAIN hp.chunk \ (stale \cup {0}) :
       hp.chunk[x].pin <=> hp.chunk[Before(hp, x)].ut = "vo"
  /\ wild => drift > 0

\* In every state, a request is refused only when no free chunk is large enough
\* for it, and is served from one of the smallest that are.
BestFit ==
  \A req \in Requests :
    LET need == IF req < Smallest THEN Smallest ELSE req
        large == {x \in Frees : hp.chunk[x].size >= need}
        at == alloc_hmu(hp, req).at
    IN IF at = Nil THEN large = {}
       ELSE at \in large /\ \A x \in large : hp.chunk[at].size <= hp.chunk[x].size
=============================================================================
