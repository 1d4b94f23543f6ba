----------------------------- MODULE EmsProofs -----------------------------
(***************************************************************************)
(* Proofs about the heap (Ems), for any size of it and any requests.       *)
(***************************************************************************)
EXTENDS Ems, ListLemmas, FiniteSetTheorems, TLAPS

-----------------------------------------------------------------------------
(* The heap.  Walks along the tree.                                        *)

\* What holds at 0 and is passed on holds up to n.
LEMMA Climbs ==
  ASSUME NEW n \in Nat, NEW S, 0 \in S, \A i \in 1..n : i - 1 \in S => i \in S
  PROVE  \A i \in 0..n : i \in S
  <1> DEFINE T == {i \in 0..n : i \notin S}
  <1>1. ASSUME T # {} PROVE FALSE
    <2>1. T \in SUBSET Nat
      OBVIOUS
    <2>2. PICK i \in T : \A k \in T : i <= k
      BY <1>1, <2>1, Least
    <2>3. i \in 1..n /\ i \notin S
      OBVIOUS
    <2>4. i - 1 \in 0..n /\ i - 1 < i
      BY <2>3
    <2>5. i - 1 \notin T
      <3> HIDE DEF T
      <3> QED BY <2>2, <2>3, <2>4
    <2> QED BY <2>3, <2>4, <2>5
  <1> QED BY <1>1

Stride(child, y) == IF child[y] = Nil THEN y ELSE child[y]

\* The nodes a walk comes by.
Strides(at, from, child, n) == at[0] = from /\ \A k \in 1..n : at[k] = Stride(child, at[k - 1])

Trail(t, from, child, f) ==
  [k \in 0..Cardinality(DOMAIN t) |->
     IF k = 0 THEN from ELSE IF child[f[k - 1]] = Nil THEN f[k - 1] ELSE child[f[k - 1]]]

\* The recursion of Walk, as a function with its equations.
LEMMA WalkRuns ==
  ASSUME NEW t, NEW from \in DOMAIN t, NEW child \in [DOMAIN t -> DOMAIN t \cup {Nil}],
         NEW n \in Nat, n = Cardinality(DOMAIN t)
  PROVE  \E at \in [0..n -> DOMAIN t] : Strides(at, from, child, n) /\ Walk(t, from, child) = at[n]
  <1> DEFINE D == DOMAIN t
             G == [x \in (1..n) \X D |-> Stride(child, x[2])]
  <1>1. ASSUME NEW i \in 1..n, NEW v \in D PROVE G[<<i, v>>] = Stride(child, v) /\ G[<<i, v>>] \in D
    BY DEF Stride
  <1> HIDE DEF G
  <1>2. StaysIn(G, n, D)
    BY <1>1 DEF StaysIn
  <1>3. PICK f \in [0..n -> D] : Carries(f, from, G, n)
    <2> HIDE DEF D
    <2> QED BY <1>2, PrimRec DEF D
  <1>4. ASSUME NEW k \in 0..n
        PROVE f[k] = IF k = 0 THEN from ELSE IF child[f[k - 1]] = Nil THEN f[k - 1] ELSE child[f[k - 1]]
    <2>1. CASE k = 0
      BY <2>1, <1>3 DEF Carries
    <2>2. CASE k # 0
      <3>1. k \in 1..n /\ k - 1 \in 0..n
        BY <2>2
      <3>2. f[k - 1] \in D
        BY <3>1
      <3>3. f[k] = G[<<k, f[k - 1]>>]
        BY <3>1, <1>3 DEF Carries
      <3> QED BY <2>2, <3>1, <3>2, <3>3, <1>1 DEF Stride
    <2> QED BY <2>1, <2>2
  <1>5. f = Trail(t, from, child, f)
    BY <1>4 DEF Trail
  <1> DEFINE h == CHOOSE g : g = Trail(t, from, child, g)
  <1>6. Walk(t, from, child) = h[n]
    BY DEF Walk, Trail
  <1>7. h = Trail(t, from, child, h)
    BY <1>5
  <1> HIDE DEF h
  <1>8. h[0] = from /\ \A k \in 1..n : h[k] = Stride(child, h[k - 1])
    <2>1. \A k \in 0..n : h[k] = IF k = 0 THEN from ELSE IF child[h[k - 1]] = Nil THEN h[k - 1] ELSE child[h[k - 1]]
      BY <1>7 DEF Trail
    <2>2. \A k \in 1..n : k \in 0..n /\ k # 0
      OBVIOUS
    <2> QED BY <2>1, <2>2 DEF Stride
  <1> DEFINE S == {k \in 0..n : h[k] \in D}
  <1>9. \A k \in 0..n : k \in S
    <2>1. 0 \in S
      BY <1>8
    <2>2. ASSUME NEW k \in 1..n, k - 1 \in S PROVE k \in S
      BY <2>2, <1>8 DEF Stride
    <2> HIDE DEF S
    <2> QED BY <2>1, <2>2, Climbs
  <1>10. h \in [0..n -> D]
    <2>1. h = [k \in 0..n |-> h[k]]
      BY <1>7 DEF Trail
    <2> QED BY <2>1, <1>9
  <1> QED BY <1>6, <1>8, <1>10 DEF Strides

\* A walk stays where every child of a node leads.
LEMMA WalkKeeps ==
  ASSUME NEW t, NEW from \in DOMAIN t, NEW child \in [DOMAIN t -> DOMAIN t \cup {Nil}],
         Cardinality(DOMAIN t) \in Nat,
         NEW S \in SUBSET DOMAIN t, from \in S, \A y \in S : child[y] # Nil => child[y] \in S
  PROVE  Walk(t, from, child) \in S
  <1> DEFINE n == Cardinality(DOMAIN t)
  <1>1. PICK at \in [0..n -> DOMAIN t] : Strides(at, from, child, n) /\ Walk(t, from, child) = at[n]
    BY WalkRuns
  <1> DEFINE K == {k \in 0..n : at[k] \in S}
  <1>2. 0 \in K
    BY <1>1 DEF Strides
  <1>3. ASSUME NEW k \in 1..n, k - 1 \in K PROVE k \in K
    BY <1>1, <1>3 DEF Strides, Stride
  <1>4. n \in K
    <2> HIDE DEF K, n
    <2>1. n \in Nat
      BY DEF n
    <2>2. \A k \in 0..n : k \in K
      BY <2>1, <1>2, <1>3, Climbs
    <2> QED BY <2>1, <2>2
  <1> QED BY <1>1, <1>4

\* A walk that gets deeper with each step ends at a node without a child.
LEMMA WalkEnds ==
  ASSUME NEW t, NEW from \in DOMAIN t, NEW child \in [DOMAIN t -> DOMAIN t \cup {Nil}],
         NEW n \in Nat, n = Cardinality(DOMAIN t),
         NEW rank \in [DOMAIN t -> 0..n - 1],
         \A y \in DOMAIN t : child[y] # Nil => rank[child[y]] > rank[y]
  PROVE  child[Walk(t, from, child)] = Nil
  <1>1. PICK at \in [0..n -> DOMAIN t] : Strides(at, from, child, n) /\ Walk(t, from, child) = at[n]
    BY WalkRuns
  <1> DEFINE K == {k \in 0..n : child[at[k]] = Nil \/ rank[at[k]] >= k}
  <1>2. 0 \in K
    OBVIOUS
  <1>3. ASSUME NEW k \in 1..n, k - 1 \in K PROVE k \in K
    <2>0. k - 1 \in 0..n /\ k \in 0..n
      OBVIOUS
    <2>1. at[k - 1] \in DOMAIN t /\ at[k] \in DOMAIN t /\ at[k] = Stride(child, at[k - 1])
      <3> HIDE DEF K
      <3> QED BY <2>0, <1>1 DEF Strides
    <2>2. CASE child[at[k - 1]] = Nil
      BY <2>1, <2>2 DEF Stride
    <2>3. CASE child[at[k - 1]] # Nil
      <3>1. at[k] = child[at[k - 1]] /\ rank[at[k]] > rank[at[k - 1]] /\ rank[at[k - 1]] >= k - 1
        BY <2>1, <2>3, <1>3 DEF Stride
      <3>2. rank[at[k]] \in Int /\ rank[at[k - 1]] \in Int
        BY <2>1
      <3> QED BY <3>1, <3>2
    <2> QED BY <2>2, <2>3
  <1>4. n \in K
    <2> HIDE DEF K
    <2>1. \A k \in 0..n : k \in K
      BY <1>2, <1>3, Climbs
    <2> QED BY <2>1
  <1>5. rank[at[n]] \in 0..n - 1
    OBVIOUS
  <1> QED BY <1>1, <1>4, <1>5
-----------------------------------------------------------------------------
(* The tree.                                                               *)

Node(D) == [left : D \cup {Nil}, right : D \cup {Nil}, parent : D \cup {Nil}, size : Nat]

\* Children and parents refer to each other.
Linked(t) ==
  /\ Root \in DOMAIN t /\ Nil \notin DOMAIN t /\ IsFiniteSet(DOMAIN t)
  /\ t \in [DOMAIN t -> Node(DOMAIN t)]
  /\ t[Root].left = Nil /\ t[Root].parent = Nil /\ t[Root].size = 0
  /\ \A y \in DOMAIN t \ {Root} :
       /\ t[y].parent \in DOMAIN t /\ t[y].size > 0
       /\ y = t[t[y].parent].left \/ y = t[t[y].parent].right
  /\ \A y \in DOMAIN t :
       /\ t[y].left # Nil => t[t[y].left].parent = y
       /\ t[y].right # Nil => t[t[y].right].parent = y
       /\ t[y].left # Nil => t[y].left # t[y].right

\* over[z] are the nodes on the way from the root to z, both included.
Rooted(t, over) ==
  /\ over \in [DOMAIN t -> SUBSET DOMAIN t]
  /\ over[Root] = {Root}
  /\ \A z \in DOMAIN t \ {Root} :
       z \notin over[t[z].parent] /\ over[z] = over[t[z].parent] \cup {z}
  /\ \A z \in DOMAIN t : \A y \in over[z] :
       /\ over[y] \subseteq over[z]
       /\ y # z => z \notin over[y] /\ (t[y].left \in over[z] \/ t[y].right \in over[z])

\* Whatever is left of a node is at most as large, whatever is right of it larger.
Ordered(t, over) ==
  \A y, z \in DOMAIN t :
    /\ t[y].left \in over[z] => t[z].size <= t[y].size
    /\ t[y].right \in over[z] => t[z].size > t[y].size

Tree(t, over) == Linked(t) /\ Rooted(t, over) /\ Ordered(t, over)

\* The fields of a node.
LEMMA NodeTypes ==
  ASSUME NEW t, Linked(t), NEW y \in DOMAIN t
  PROVE  /\ t[y] \in Node(DOMAIN t)
         /\ t[y].left \in DOMAIN t \cup {Nil} /\ t[y].right \in DOMAIN t \cup {Nil}
         /\ t[y].parent \in DOMAIN t \cup {Nil} /\ t[y].size \in Nat
  BY DEF Linked, Node

\* None is not the root.
LEMMA NilElsewhere == Nil # Root
  BY DEF Nil, Root

\* How far a node is from the root.
Depth(over) == [y \in DOMAIN over |-> Cardinality(over[y]) - 1]

\* A node is one further from the root than its parent.
LEMMA Depths ==
  ASSUME NEW t, NEW over, Linked(t), Rooted(t, over), NEW n \in Nat, n = Cardinality(DOMAIN t)
  PROVE  /\ Depth(over) \in [DOMAIN t -> 0..n - 1]
         /\ \A z \in DOMAIN t \ {Root} : Depth(over)[z] = Depth(over)[t[z].parent] + 1
  <1> DEFINE D == DOMAIN t
             d == Depth(over)
  <1>0. IsFiniteSet(D) /\ over \in [D -> SUBSET D] /\ d = [y \in D |-> Cardinality(over[y]) - 1]
    BY DEF Linked, Rooted, Depth
  <1>1. ASSUME NEW y \in D PROVE IsFiniteSet(over[y]) /\ Cardinality(over[y]) \in 1..n /\ y \in over[y]
    <2>1. over[y] \in SUBSET D
      BY <1>0
    <2>2. IsFiniteSet(over[y]) /\ Cardinality(over[y]) <= n
      BY <1>0, <2>1, FS_Subset
    <2>3. y \in over[y]
      BY DEF Rooted
    <2>4. Cardinality(over[y]) \in Nat /\ Cardinality(over[y]) # 0
      BY <2>2, <2>3, FS_CardinalityType, FS_EmptySet
    <2> QED BY <2>2, <2>3, <2>4
  <1>2. ASSUME NEW z \in D \ {Root} PROVE d[z] = d[t[z].parent] + 1
    <2>1. t[z].parent \in D /\ z \notin over[t[z].parent] /\ over[z] = over[t[z].parent] \cup {z}
      BY DEF Linked, Rooted
    <2>2. Cardinality(over[z]) = Cardinality(over[t[z].parent]) + 1
      BY <2>1, <1>1, FS_AddElement
    <2>3. d[z] = Cardinality(over[z]) - 1 /\ d[t[z].parent] = Cardinality(over[t[z].parent]) - 1
      BY <1>0, <2>1
    <2>4. Cardinality(over[t[z].parent]) \in Int
      BY <1>1, <2>1
    <2> QED BY <2>2, <2>3, <2>4
  <1>3. \A y \in D : Cardinality(over[y]) - 1 \in 0..n - 1
    BY <1>1
  <1> QED BY <1>0, <1>2, <1>3

\* The way up from any node ends at the root.
LEMMA ClimbToRoot ==
  ASSUME NEW t, NEW over, Linked(t), Rooted(t, over), NEW y \in DOMAIN t
  PROVE  Walk(t, y, Parents(t)) = Root
  <1> DEFINE n == Cardinality(DOMAIN t)
             d == Depth(over)
             rank == [z \in DOMAIN t |-> n - 1 - d[z]]
             child == Parents(t)
  <1>1. n \in Nat
    BY FS_CardinalityType DEF Linked
  <1>2. d \in [DOMAIN t -> 0..n - 1] /\ \A z \in DOMAIN t \ {Root} : d[z] = d[t[z].parent] + 1
    BY <1>1, Depths
  <1> HIDE DEF d, n
  <1>3. child \in [DOMAIN t -> DOMAIN t \cup {Nil}] /\ \A z \in DOMAIN t : child[z] = t[z].parent
    BY NodeTypes DEF Parents
  <1>4. rank \in [DOMAIN t -> 0..n - 1]
    BY <1>1, <1>2
  <1>5. ASSUME NEW z \in DOMAIN t, child[z] # Nil PROVE rank[child[z]] > rank[z]
    <2>1. z # Root /\ child[z] \in DOMAIN t
      BY <1>3, <1>5 DEF Linked
    <2>2. d[z] = d[child[z]] + 1 /\ d[z] \in Int /\ d[child[z]] \in Int
      BY <2>1, <1>2, <1>3
    <2> QED BY <2>1, <2>2, <1>1
  <1> HIDE DEF rank, child
  <1>6. n = Cardinality(DOMAIN t)
    BY DEF n
  <1> DEFINE w == Walk(t, y, child)
  <1>7. child[w] = Nil
    BY <1>1, <1>3, <1>4, <1>5, <1>6, WalkEnds
  <1>8. w \in DOMAIN t
    <2>1. DOMAIN t \in SUBSET DOMAIN t /\ \A z \in DOMAIN t : child[z] # Nil => child[z] \in DOMAIN t
      BY <1>3
    <2> QED BY <2>1, <1>1, <1>3, <1>6, WalkKeeps
  <1> HIDE DEF w
  <1>9. w = Root
    BY <1>3, <1>7, <1>8 DEF Linked
  <1> QED BY <1>9 DEF w, child

\* up has room for a node of n units: on the side where such a node belongs, and
\* where it belongs seen from the nodes above.
Fits(t, over, up, n) ==
  /\ up \in DOMAIN t
  /\ IF t[up].size < n THEN t[up].right = Nil ELSE t[up].left = Nil
  /\ \A y \in DOMAIN t :
       /\ t[y].left \in over[up] => n <= t[y].size
       /\ t[y].right \in over[up] => n > t[y].size

Way(t, n) == [y \in DOMAIN t |-> IF t[y].size < n THEN t[y].right ELSE t[y].left]

\* The way down insert_tree_node takes ends where the new node fits.
LEMMA Descent ==
  ASSUME NEW t, NEW over, Tree(t, over), NEW n \in Nat
  PROVE  Fits(t, over, Walk(t, Root, Way(t, n)), n)
  <1> DEFINE D == DOMAIN t
             N == Cardinality(D)
             child == Way(t, n)
             d == Depth(over)
             S == {y \in D : \A z \in D : /\ t[z].left \in over[y] => n <= t[z].size
                                          /\ t[z].right \in over[y] => n > t[z].size}
             w == Walk(t, Root, child)
  <1>0. Linked(t) /\ Rooted(t, over) /\ Root \in D /\ Nil \notin D /\ over \in [D -> SUBSET D]
    BY DEF Tree, Linked, Rooted
  <1>1. N \in Nat
    BY <1>0, FS_CardinalityType DEF Linked
  <1>2. child \in [D -> D \cup {Nil}]
        /\ \A y \in D : child[y] = IF t[y].size < n THEN t[y].right ELSE t[y].left
    BY <1>0, NodeTypes DEF Way
  <1>3. d \in [D -> 0..N - 1] /\ \A z \in D \ {Root} : d[z] = d[t[z].parent] + 1
    BY <1>0, <1>1, Depths
  <1>4. ASSUME NEW y \in D, child[y] # Nil
        PROVE  child[y] \in D \ {Root} /\ t[child[y]].parent = y
    <2>1. child[y] \in D
      BY <1>2, <1>4
    <2>2. t[child[y]].parent = y
      BY <1>0, <1>2, <1>4 DEF Linked
    <2>3. child[y] # Root
      BY <1>0, <2>2, NilElsewhere DEF Linked
    <2> QED BY <2>1, <2>2, <2>3
  <1>5. ASSUME NEW y \in D, child[y] # Nil PROVE d[child[y]] > d[y]
    <2>1. d[child[y]] = d[y] + 1 /\ d[y] \in Int
      BY <1>4, <1>5, <1>3
    <2> QED BY <2>1
  <1>6. child[w] = Nil
    <2> HIDE DEF d, child, N
    <2>1. N = Cardinality(D)
      BY DEF N
    <2> QED BY <2>1, <1>0, <1>1, <1>2, <1>3, <1>5, WalkEnds
  <1>7. Root \in S
    <2>1. over[Root] = {Root}
      BY <1>0 DEF Rooted
    <2>2. ASSUME NEW z \in D PROVE t[z].left # Root /\ t[z].right # Root
      BY <1>0, NilElsewhere DEF Linked
    <2> QED BY <1>0, <2>1, <2>2
  <1>8. ASSUME NEW y \in S, child[y] # Nil PROVE child[y] \in S
    <2>1. y \in D /\ child[y] \in D \ {Root} /\ t[child[y]].parent = y
      BY <1>4, <1>8
    <2>2. over[child[y]] = over[y] \cup {child[y]}
      BY <2>1, <1>0 DEF Rooted
    <2>3. ASSUME NEW z \in D, t[z].left \in over[child[y]] PROVE n <= t[z].size
      <3>1. CASE t[z].left \in over[y]
        BY <3>1
      <3>2. CASE t[z].left = child[y]
        <4>1. t[z].left # Nil /\ t[t[z].left].parent = z
          BY <3>2, <1>8, <1>0 DEF Linked
        <4>2. z = y
          BY <4>1, <3>2, <2>1
        <4>3. t[z].left # t[z].right
          BY <4>1, <1>0 DEF Linked
        <4>4. ~(t[z].size < n)
          BY <4>2, <4>3, <3>2, <1>2
        <4>5. t[z].size \in Nat
          BY <1>0, NodeTypes
        <4> QED BY <4>4, <4>5
      <3> QED BY <3>1, <3>2, <2>2, <2>3
    <2>4. ASSUME NEW z \in D, t[z].right \in over[child[y]] PROVE n > t[z].size
      <3>1. CASE t[z].right \in over[y]
        BY <3>1
      <3>2. CASE t[z].right = child[y]
        <4>1. t[z].right # Nil /\ t[t[z].right].parent = z
          BY <3>2, <1>8, <1>0 DEF Linked
        <4>2. z = y
          BY <4>1, <3>2, <2>1
        <4>3. t[z].left # t[z].right
          BY <4>1, <1>0 DEF Linked
        <4>4. t[z].size < n
          BY <4>2, <4>3, <3>2, <1>2
        <4>5. t[z].size \in Nat
          BY <1>0, NodeTypes
        <4> QED BY <4>4, <4>5
      <3> QED BY <3>1, <3>2, <2>2, <2>4
    <2> QED BY <2>1, <2>3, <2>4
  <1>9. w \in S
    <2>1. S \in SUBSET D
      OBVIOUS
    <2> HIDE DEF S, child
    <2> QED BY <2>1, <1>0, <1>1, <1>2, <1>7, <1>8, WalkKeeps
  <1>10. w \in D /\ \A z \in D : /\ t[z].left \in over[w] => n <= t[z].size
                                 /\ t[z].right \in over[w] => n > t[z].size
    <2> HIDE DEF w
    <2> QED BY <1>9
  <1>11. IF t[w].size < n THEN t[w].right = Nil ELSE t[w].left = Nil
    <2> HIDE DEF w, child
    <2> QED BY <1>2, <1>6, <1>10
  <1> HIDE DEF w
  <1>12. Fits(t, over, w, n)
    BY <1>10, <1>11 DEF Fits
  <1> QED BY <1>12 DEF w

\* u is t with x below up.
Hangs(u, t, x, up, n) ==
  /\ DOMAIN u = DOMAIN t \cup {x}
  /\ u[x] = [left |-> Nil, right |-> Nil, parent |-> up, size |-> n]
  /\ \A y \in DOMAIN t :
       /\ u[y] = [left |-> u[y].left, right |-> u[y].right, parent |-> t[y].parent, size |-> t[y].size]
       /\ u[y].left = IF y = up /\ ~(t[up].size < n) THEN x ELSE t[y].left
       /\ u[y].right = IF y = up /\ t[up].size < n THEN x ELSE t[y].right

\* What insert_tree_node makes of the tree.
LEMMA InsertHangs ==
  ASSUME NEW t, Linked(t), NEW x, x \notin DOMAIN t, NEW n \in Nat, NEW up \in DOMAIN t,
         up = Walk(t, Root, Way(t, n))
  PROVE  LET u == insert_tree_node(t, x, n) IN Hangs(u, t, x, up, n) /\ u = [y \in DOMAIN u |-> u[y]]
  <1> DEFINE above == IF t[up].size < n THEN [t EXCEPT ![up].right = x] ELSE [t EXCEPT ![up].left = x]
             new == [left |-> Nil, right |-> Nil, parent |-> up, size |-> n]
             u == Put(above, x, new)
  <1>1. insert_tree_node(t, x, n) = u
    BY DEF insert_tree_node, Way, Leaf
  <1>2. DOMAIN above = DOMAIN t
    BY DEF Linked
  <1>3. \A y \in DOMAIN t : t[y] \in Node(DOMAIN t)
    BY NodeTypes
  <1>4. \A y \in DOMAIN t :
          /\ y # up => above[y] = t[y]
          /\ y = up => above[y] = [left |-> IF t[up].size < n THEN t[y].left ELSE x,
                                   right |-> IF t[up].size < n THEN x ELSE t[y].right,
                                   parent |-> t[y].parent, size |-> t[y].size]
    <2>1. ASSUME NEW y \in DOMAIN t, y # up PROVE above[y] = t[y]
      BY <2>1 DEF Linked
    <2>2. t[up] = [left |-> t[up].left, right |-> t[up].right, parent |-> t[up].parent, size |-> t[up].size]
      BY <1>3 DEF Node
    <2>3. CASE t[up].size < n
      <3>1. above[up] = [t[up] EXCEPT !.right = x]
        BY <2>3 DEF Linked
      <3>2. [t[up] EXCEPT !.right = x]
              = [left |-> t[up].left, right |-> x, parent |-> t[up].parent, size |-> t[up].size]
        BY <2>2
      <3> QED BY <2>1, <2>3, <3>1, <3>2
    <2>4. CASE ~(t[up].size < n)
      <3>1. above[up] = [t[up] EXCEPT !.left = x]
        BY <2>4 DEF Linked
      <3>2. [t[up] EXCEPT !.left = x]
              = [left |-> x, right |-> t[up].right, parent |-> t[up].parent, size |-> t[up].size]
        BY <2>2
      <3> QED BY <2>1, <2>4, <3>1, <3>2
    <2> QED BY <2>3, <2>4
  <1> HIDE DEF above, new
  <1>5. u = [y \in DOMAIN t \cup {x} |-> IF y = x THEN new ELSE above[y]]
    BY <1>2 DEF Put
  <1>6. DOMAIN u = DOMAIN t \cup {x} /\ u[x] = new /\ \A y \in DOMAIN t : u[y] = above[y]
    BY <1>5
  <1>7. u = [y \in DOMAIN u |-> u[y]]
    BY <1>5
  <1> HIDE DEF u
  <1>8. ASSUME NEW y \in DOMAIN t
        PROVE  /\ u[y] = [left |-> u[y].left, right |-> u[y].right, parent |-> t[y].parent, size |-> t[y].size]
               /\ u[y].left = IF y = up /\ ~(t[up].size < n) THEN x ELSE t[y].left
               /\ u[y].right = IF y = up /\ t[up].size < n THEN x ELSE t[y].right
    <2>1. CASE y = up
      <3>1. u[y] = [left |-> IF t[up].size < n THEN t[y].left ELSE x,
                    right |-> IF t[up].size < n THEN x ELSE t[y].right,
                    parent |-> t[y].parent, size |-> t[y].size]
        BY <2>1, <1>4, <1>6
      <3>2. /\ u[y].left = IF t[up].size < n THEN t[y].left ELSE x
            /\ u[y].right = IF t[up].size < n THEN x ELSE t[y].right
        BY <3>1
      <3>3. u[y] = [left |-> u[y].left, right |-> u[y].right, parent |-> t[y].parent, size |-> t[y].size]
        BY <3>1, <3>2
      <3> QED BY <2>1, <3>2, <3>3
    <2>2. CASE y # up
      <3>1. u[y] = t[y] /\ t[y] \in Node(DOMAIN t)
        BY <2>2, <1>3, <1>4, <1>6
      <3> QED BY <2>2, <3>1 DEF Node
    <2> QED BY <2>1, <2>2
  <1> QED BY <1>1, <1>6, <1>7, <1>8 DEF Hangs, new

\* A new leaf leaves the links of the others as they are.
LEMMA HangsLinked ==
  ASSUME NEW t, Linked(t), NEW over, NEW x, x \notin DOMAIN t, x # Nil, NEW n \in Nat, n > 0,
         NEW up, Fits(t, over, up, n), NEW u, Hangs(u, t, x, up, n), u = [y \in DOMAIN u |-> u[y]]
  PROVE  Linked(u)
  <1> DEFINE D == DOMAIN t
             E == D \cup {x}
  <1>0. DOMAIN u = E /\ x # Root /\ up \in D /\ u[x] = [left |-> Nil, right |-> Nil, parent |-> up, size |-> n]
    BY DEF Hangs, Linked, Fits
  <1>1. Root \in E /\ Nil \notin E /\ IsFiniteSet(E) /\ Root \in D /\ Nil \notin D
    BY FS_AddElement DEF Linked
  <1>2. \A y \in D : /\ u[y] = [left |-> u[y].left, right |-> u[y].right, parent |-> t[y].parent, size |-> t[y].size]
                     /\ u[y].left = (IF y = up /\ ~(t[up].size < n) THEN x ELSE t[y].left)
                     /\ u[y].right = (IF y = up /\ t[up].size < n THEN x ELSE t[y].right)
    BY DEF Hangs
  <1>3. ASSUME NEW y \in D
        PROVE  /\ u[y].parent = t[y].parent /\ u[y].size = t[y].size
               /\ t[y].left \in D \cup {Nil} /\ t[y].right \in D \cup {Nil} /\ t[y].parent \in D \cup {Nil}
               /\ t[y].size \in Nat
    <2>1. u[y] = [left |-> u[y].left, right |-> u[y].right, parent |-> t[y].parent, size |-> t[y].size]
      BY <1>2
    <2>2. u[y].parent = t[y].parent /\ u[y].size = t[y].size
      BY <2>1
    <2> QED BY <2>2, NodeTypes
  <1>4. ASSUME NEW y \in E PROVE u[y] \in Node(E)
    <2>1. CASE y = x
      BY <2>1, <1>0 DEF Node
    <2>2. CASE y \in D
      <3>1. u[y].left \in E \cup {Nil} /\ u[y].right \in E \cup {Nil} /\ t[y].parent \in E \cup {Nil} /\ t[y].size \in Nat
        BY <2>2, <1>2, <1>3
      <3>2. u[y] = [left |-> u[y].left, right |-> u[y].right, parent |-> t[y].parent, size |-> t[y].size]
        BY <2>2, <1>2
      <3> DEFINE l == u[y].left
                 r == u[y].right
      <3> HIDE DEF l, r
      <3>3. u[y] = [left |-> l, right |-> r, parent |-> t[y].parent, size |-> t[y].size] /\ l \in E \cup {Nil} /\ r \in E \cup {Nil}
        BY <3>1, <3>2 DEF l, r
      <3> QED BY <3>1, <3>3 DEF Node
    <2> QED BY <2>1, <2>2
  <1>5. u \in [E -> Node(E)]
    BY <1>0, <1>4
  <1>6. u[Root].left = Nil /\ u[Root].parent = Nil /\ u[Root].size = 0
    <2>1. t[Root].left = Nil /\ t[Root].parent = Nil /\ t[Root].size = 0
      BY DEF Linked
    <2> QED BY <2>1, <1>1, <1>2, <1>3
  <1>7. ASSUME NEW y \in E \ {Root}
        PROVE  u[y].parent \in E /\ u[y].size > 0 /\ (y = u[u[y].parent].left \/ y = u[u[y].parent].right)
    <2>1. CASE y = x
      BY <2>1, <1>0, <1>2
    <2>2. CASE y \in D
      <3>1. t[y].parent \in D /\ t[y].size > 0 /\ (y = t[t[y].parent].left \/ y = t[t[y].parent].right)
        BY <2>2 DEF Linked
      <3>2. IF t[up].size < n THEN t[up].right = Nil ELSE t[up].left = Nil
        BY DEF Fits
      <3>3. y # Nil
        BY <1>1
      <3> DEFINE q == t[y].parent
      <3>4. u[y].parent = q /\ u[y].size > 0
        BY <2>2, <3>1, <1>3
      <3>5. y = t[q].left => u[q].left = t[q].left
        BY <3>1, <3>2, <3>3, <1>2
      <3>6. y = t[q].right => u[q].right = t[q].right
        BY <3>1, <3>2, <3>3, <1>2
      <3>7. q \in E /\ (y = u[q].left \/ y = u[q].right)
        BY <3>1, <3>5, <3>6
      <3> HIDE DEF q
      <3> QED BY <3>4, <3>7
    <2> QED BY <2>1, <2>2
  <1>8. ASSUME NEW y \in E
        PROVE  /\ u[y].left # Nil => u[u[y].left].parent = y
               /\ u[y].right # Nil => u[u[y].right].parent = y
               /\ u[y].left # Nil => u[y].left # u[y].right
    <2>1. CASE y = x
      BY <2>1, <1>0
    <2>2. CASE y \in D
      <3>1. /\ t[y].left # Nil => t[t[y].left].parent = y
            /\ t[y].right # Nil => t[t[y].right].parent = y
            /\ t[y].left # Nil => t[y].left # t[y].right
        BY <2>2 DEF Linked
      <3>2. u[x].parent = up
        BY <1>0
      <3>6. \A z \in D : u[z].parent = t[z].parent
        BY <1>3
      <3>7. t[y].left \in D \cup {Nil} /\ t[y].right \in D \cup {Nil}
        BY <2>2, <1>3
      <3>8. u[y].left = (IF y = up /\ ~(t[up].size < n) THEN x ELSE t[y].left)
            /\ u[y].right = (IF y = up /\ t[up].size < n THEN x ELSE t[y].right)
        BY <2>2, <1>2
      <3>9. (y = up /\ t[up].size < n => t[y].right = Nil) /\ (y = up /\ ~(t[up].size < n) => t[y].left = Nil)
        BY DEF Fits
      <3> DEFINE b == t[up].size < n
      <3> HIDE DEF b
      <3>10. /\ u[y].left = (IF y = up /\ ~b THEN x ELSE t[y].left) /\ u[y].right = (IF y = up /\ b THEN x ELSE t[y].right)
             /\ (y = up /\ b => t[y].right = Nil) /\ (y = up /\ ~b => t[y].left = Nil)
        BY <3>8, <3>9 DEF b
      <3>3. u[y].left # Nil => u[u[y].left].parent = y
        <4>1. CASE y = up /\ ~b
          BY <4>1, <3>2, <3>10
        <4>2. CASE ~(y = up /\ ~b)
          BY <4>2, <3>1, <3>6, <3>7, <3>10
        <4> QED BY <4>1, <4>2
      <3>4. u[y].right # Nil => u[u[y].right].parent = y
        <4>1. CASE y = up /\ b
          BY <4>1, <3>2, <3>10
        <4>2. CASE ~(y = up /\ b)
          BY <4>2, <3>1, <3>6, <3>7, <3>10
        <4> QED BY <4>1, <4>2
      <3>5. u[y].left # Nil => u[y].left # u[y].right
        BY <3>1, <3>7, <3>10
      <3> QED BY <3>3, <3>4, <3>5
    <2> QED BY <2>1, <2>2
  <1> QED BY <1>0, <1>1, <1>5, <1>6, <1>7, <1>8 DEF Linked

\* A new leaf is below its parent, and ordered where it fits.
LEMMA HangsRooted ==
  ASSUME NEW t, NEW over, Tree(t, over), NEW x, x \notin DOMAIN t, x # Nil, NEW n \in Nat, n > 0,
         NEW up, Fits(t, over, up, n), NEW u, Hangs(u, t, x, up, n),
         NEW o, o = Put(over, x, over[up] \cup {x})
  PROVE  Rooted(u, o) /\ Ordered(u, o)
  <1> DEFINE D == DOMAIN t
             E == D \cup {x}
  <1>0. Linked(t) /\ Rooted(t, over) /\ Ordered(t, over)
    BY DEF Tree
  <1>1. DOMAIN u = E /\ x # Root /\ up \in D /\ u[x] = [left |-> Nil, right |-> Nil, parent |-> up, size |-> n]
        /\ Root \in D /\ Nil \notin D
    BY <1>0 DEF Hangs, Linked, Fits
  <1>2. over \in [D -> SUBSET D]
    BY <1>0 DEF Rooted
  <1>3. DOMAIN o = E /\ o[x] = over[up] \cup {x} /\ \A z \in D : o[z] = over[z]
    BY <1>2 DEF Put
  <1>4. o \in [E -> SUBSET E]
    <2>1. o = [z \in E |-> o[z]]
      BY <1>2 DEF Put
    <2>2. \A z \in E : o[z] \in SUBSET E
      BY <1>1, <1>2, <1>3
    <2> QED BY <2>1, <2>2
  <1>5. \A y \in D : /\ u[y] = [left |-> u[y].left, right |-> u[y].right, parent |-> t[y].parent, size |-> t[y].size]
                     /\ u[y].left = (IF y = up /\ ~(t[up].size < n) THEN x ELSE t[y].left)
                     /\ u[y].right = (IF y = up /\ t[up].size < n THEN x ELSE t[y].right)
    BY DEF Hangs
  <1>6. ASSUME NEW y \in D
        PROVE  /\ u[y].parent = t[y].parent /\ u[y].size = t[y].size /\ y \in over[y]
               /\ t[y].left \in D \cup {Nil} /\ t[y].right \in D \cup {Nil} /\ t[y].parent \in D \cup {Nil}
               /\ t[y].size \in Nat
    <2>1. u[y] = [left |-> u[y].left, right |-> u[y].right, parent |-> t[y].parent, size |-> t[y].size]
      BY <1>5
    <2>2. u[y].parent = t[y].parent /\ u[y].size = t[y].size
      BY <2>1
    <2>3. y \in over[y]
      BY <1>0 DEF Rooted
    <2> QED BY <2>2, <2>3, <1>0, NodeTypes
  <1>7. o[Root] = {Root}
    BY <1>0, <1>1, <1>3 DEF Rooted
  <1>8. ASSUME NEW z \in E \ {Root}
        PROVE  z \notin o[u[z].parent] /\ o[z] = o[u[z].parent] \cup {z}
    <2>1. CASE z = x
      <3>1. u[x].parent = up
        BY <1>1
      <3>2. o[up] = over[up] /\ x \notin over[up] /\ o[x] = over[up] \cup {x}
        BY <1>1, <1>2, <1>3
      <3> QED BY <2>1, <3>1, <3>2
    <2>2. CASE z \in D
      <3>1. t[z].parent \in D /\ z \notin over[t[z].parent] /\ over[z] = over[t[z].parent] \cup {z}
        BY <2>2, <1>0 DEF Rooted, Linked
      <3>2. u[z].parent = t[z].parent
        BY <2>2, <1>6
      <3>3. o[z] = over[z] /\ o[t[z].parent] = over[t[z].parent]
        BY <2>2, <3>1, <1>3
      <3> QED BY <3>1, <3>2, <3>3
    <2> QED BY <2>1, <2>2
  <1>9. ASSUME NEW z \in E, NEW y \in o[z]
        PROVE  /\ o[y] \subseteq o[z]
               /\ y # z => z \notin o[y] /\ (u[y].left \in o[z] \/ u[y].right \in o[z])
    <2>1. CASE z \in D
      <3>1. y \in D /\ y \in over[z] /\ o[z] = over[z] /\ o[y] = over[y]
        BY <2>1, <1>2, <1>3
      <3>2. over[y] \subseteq over[z] /\ (y # z => z \notin over[y] /\ (t[y].left \in over[z] \/ t[y].right \in over[z]))
        BY <2>1, <3>1, <1>0 DEF Rooted
      <3>3. IF t[up].size < n THEN t[up].right = Nil ELSE t[up].left = Nil
        BY DEF Fits
      <3>4. Nil \notin over[z]
        BY <2>1, <1>1, <1>2
      <3>5. (t[y].left \in over[z] \/ t[y].right \in over[z]) => (u[y].left \in over[z] \/ u[y].right \in over[z])
        BY <3>1, <3>3, <3>4, <1>5, ZenonT(60), SMTT(30)
      <3> QED BY <3>1, <3>2, <3>5
    <2>2. CASE z = x
      <3>1. CASE y = x
        BY <2>2, <3>1
      <3>2. CASE y # x
        <4>1. y \in over[up] /\ y \in D /\ o[y] = over[y] /\ o[z] = over[up] \cup {x}
          BY <2>2, <3>2, <1>1, <1>2, <1>3, ZenonT(60), SMTT(30)
        <4>2. over[y] \subseteq over[up] /\ (y # up => t[y].left \in over[up] \/ t[y].right \in over[up])
          BY <4>1, <1>0, <1>1 DEF Rooted
        <4>3. z \notin over[y]
          BY <4>1, <2>2, <1>2
        <4>4. CASE y = up
          <5>1. u[y].left = x \/ u[y].right = x
            BY <4>4, <4>1, <1>5
          <5> QED BY <4>1, <4>2, <4>3, <5>1
        <4>5. CASE y # up
          <5>1. u[y].left = t[y].left /\ u[y].right = t[y].right
            BY <4>5, <4>1, <1>5
          <5> QED BY <4>1, <4>2, <4>3, <4>5, <5>1
        <4> QED BY <4>4, <4>5
      <3> QED BY <3>1, <3>2
    <2> QED BY <2>1, <2>2
  <1>10. Rooted(u, o)
    BY <1>1, <1>4, <1>7, <1>8, <1>9 DEF Rooted
  <1>11. ASSUME NEW y \in E, NEW z \in E
         PROVE  /\ u[y].left \in o[z] => u[z].size <= u[y].size
                /\ u[y].right \in o[z] => u[z].size > u[y].size
    <2>0. \A w \in E : Nil \notin o[w]
      BY <1>1, <1>2, <1>3
    <2>1. CASE y = x
      BY <2>0, <2>1, <1>1
    <2>2. CASE y \in D /\ z \in D
      <3>1. o[z] = over[z] /\ x \notin over[z] /\ u[z].size = t[z].size /\ u[y].size = t[y].size
        BY <2>2, <1>2, <1>3, <1>6
      <3>2. /\ t[y].left \in over[z] => t[z].size <= t[y].size
            /\ t[y].right \in over[z] => t[z].size > t[y].size
        BY <2>2, <1>0 DEF Ordered
      <3> QED BY <2>2, <3>1, <3>2, <1>5
    <2>3. CASE y \in D /\ z = x
      <3>1. o[z] = over[up] \cup {x} /\ u[z].size = n /\ u[y].size = t[y].size /\ t[y].size \in Nat
        <4>1. u[x].size = n
          BY <1>1
        <4> QED BY <4>1, <2>3, <1>3, <1>6
      <3>2. /\ t[y].left \in over[up] => n <= t[y].size
            /\ t[y].right \in over[up] => n > t[y].size
        BY <2>3 DEF Fits
      <3>3. t[y].left # x /\ t[y].right # x
        BY <2>3, <1>6
      <3>4. u[y].left = (IF y = up /\ ~(t[up].size < n) THEN x ELSE t[y].left)
            /\ u[y].right = (IF y = up /\ t[up].size < n THEN x ELSE t[y].right)
        BY <2>3, <1>5
      <3>5. CASE y = up
        <4>1. CASE t[y].size < n
          BY <4>1, <3>5, <3>1, <3>2, <3>3, <3>4
        <4>2. CASE ~(t[y].size < n)
          <5>1. n <= t[y].size
            BY <4>2, <3>1
          <5>2. u[y].left = x /\ u[y].right = t[y].right
            BY <3>4, <3>5, <4>2
          <5> QED BY <5>1, <5>2, <3>5, <3>1, <3>2, <3>3
        <4> QED BY <4>1, <4>2
      <3>6. CASE y # up
        <4>1. u[y].left = t[y].left /\ u[y].right = t[y].right
          BY <3>4, <3>6
        <4> QED BY <4>1, <3>1, <3>2, <3>3
      <3> QED BY <3>5, <3>6
    <2> QED BY <2>1, <2>2, <2>3
  <1> QED BY <1>1, <1>10, <1>11 DEF Ordered

\* u is a tree, of the nodes of t and x.
Inserted(u, t, x, n) ==
  /\ \E o : Tree(u, o)
  /\ DOMAIN u = DOMAIN t \cup {x} /\ u[x].size = n
  /\ \A y \in DOMAIN t : u[y].size = t[y].size

\* A new node: the tree stays a search tree, the other nodes keep their sizes.
LEMMA InsertTree ==
  ASSUME NEW t, NEW over, Tree(t, over), NEW x, x \notin DOMAIN t, x # Nil, NEW n \in Nat, n > 0
  PROVE  Inserted(insert_tree_node(t, x, n), t, x, n)
  <1> DEFINE up == Walk(t, Root, Way(t, n))
             u == insert_tree_node(t, x, n)
             o == Put(over, x, over[up] \cup {x})
  <1>0. Linked(t)
    BY DEF Tree
  <1>1. Fits(t, over, up, n)
    BY Descent
  <1>2. up \in DOMAIN t
    BY <1>1 DEF Fits
  <1>3. Hangs(u, t, x, up, n) /\ u = [y \in DOMAIN u |-> u[y]]
    BY <1>0, <1>2, InsertHangs
  <1> HIDE DEF u, up
  <1>4. Linked(u)
    BY <1>0, <1>1, <1>3, HangsLinked
  <1>5. Rooted(u, o) /\ Ordered(u, o)
    BY <1>1, <1>3, HangsRooted
  <1>6. DOMAIN u = DOMAIN t \cup {x} /\ u[x].size = n
    BY <1>3 DEF Hangs
  <1>7. ASSUME NEW y \in DOMAIN t PROVE u[y].size = t[y].size
    <2>1. u[y] = [left |-> u[y].left, right |-> u[y].right, parent |-> t[y].parent, size |-> t[y].size]
      BY <1>3 DEF Hangs
    <2> QED BY <2>1
  <1> HIDE DEF o
  <1>8. Tree(u, o)
    BY <1>4, <1>5 DEF Tree
  <1>9. Inserted(u, t, x, n)
    BY <1>6, <1>7, <1>8 DEF Inserted
  <1> QED BY <1>9 DEF u

\* u is t without p, which has one child at most: what led to p leads past it.
Spliced(u, t, p) ==
  LET c == IF t[p].left = Nil THEN t[p].right ELSE t[p].left IN
  /\ DOMAIN u = DOMAIN t \ {p} /\ u = [y \in DOMAIN u |-> u[y]]
  /\ \A y \in DOMAIN u :
       u[y] = [left |-> IF t[y].left = p THEN c ELSE t[y].left,
               right |-> IF t[y].right = p THEN c ELSE t[y].right,
               parent |-> IF t[y].parent = p THEN t[p].parent ELSE t[y].parent,
               size |-> t[y].size]

\* A function to nodes, field by field.
Plain(t) ==
  /\ t = [y \in DOMAIN t |-> t[y]]
  /\ \A y \in DOMAIN t :
       t[y] = [left |-> t[y].left, right |-> t[y].right, parent |-> t[y].parent, size |-> t[y].size]

\* up, and nobody else, leads to p.
Leads(t, up, p) ==
  /\ up \in DOMAIN t /\ (p = t[up].left \/ p = t[up].right)
  /\ \A y \in DOMAIN t : (t[y].left = p \/ t[y].right = p) => y = up
  /\ t[up].left = p => t[up].right # p

\* slot of Replace: the parent's link to p is c.
Slot(t, up, p, c) == IF t[up].right = p THEN [t EXCEPT ![up].right = c] ELSE [t EXCEPT ![up].left = c]

\* The links of a tree where one leads elsewhere.
LEMMA SlotOf ==
  ASSUME NEW t, NEW p, NEW c, NEW up, Plain(t), Leads(t, up, p)
  PROVE  LET s == Slot(t, up, p, c) IN
         /\ DOMAIN s = DOMAIN t /\ s = [y \in DOMAIN s |-> s[y]]
         /\ \A y \in DOMAIN t : s[y] = [left |-> IF t[y].left = p THEN c ELSE t[y].left,
                                        right |-> IF t[y].right = p THEN c ELSE t[y].right,
                                        parent |-> t[y].parent, size |-> t[y].size]
  <1> DEFINE s == Slot(t, up, p, c)
  <1>0. /\ up \in DOMAIN t /\ t = [y \in DOMAIN t |-> t[y]]
        /\ \A y \in DOMAIN t : t[y] = [left |-> t[y].left, right |-> t[y].right, parent |-> t[y].parent, size |-> t[y].size]
        /\ (p = t[up].left \/ p = t[up].right)
        /\ \A y \in DOMAIN t : (t[y].left = p \/ t[y].right = p) => y = up
        /\ (t[up].left = p => t[up].right # p)
    BY DEF Plain, Leads
  <1>00. s = IF t[up].right = p THEN [t EXCEPT ![up].right = c] ELSE [t EXCEPT ![up].left = c]
    BY DEF Slot
  <1> HIDE DEF s
  <1>1. ASSUME NEW y \in DOMAIN t, y # up
        PROVE  s[y] = [left |-> IF t[y].left = p THEN c ELSE t[y].left,
                       right |-> IF t[y].right = p THEN c ELSE t[y].right,
                       parent |-> t[y].parent, size |-> t[y].size]
    <2>1. t[y].left # p /\ t[y].right # p
      BY <1>0, <1>1
    <2>2. s[y] = t[y]
      BY <1>0, <1>00, <1>1
    <2>3. t[y] = [left |-> t[y].left, right |-> t[y].right, parent |-> t[y].parent, size |-> t[y].size]
      BY <1>0
    <2> QED BY <2>1, <2>2, <2>3
  <1>2. s[up] = [left |-> IF t[up].left = p THEN c ELSE t[up].left,
                 right |-> IF t[up].right = p THEN c ELSE t[up].right,
                 parent |-> t[up].parent, size |-> t[up].size]
    <2>0. t[up] = [left |-> t[up].left, right |-> t[up].right, parent |-> t[up].parent, size |-> t[up].size]
      BY <1>0
    <2>1. CASE t[up].right = p
      <3>1. s[up] = [t[up] EXCEPT !.right = c]
        BY <1>0, <1>00, <2>1
      <3>2. [t[up] EXCEPT !.right = c] = [left |-> t[up].left, right |-> c, parent |-> t[up].parent, size |-> t[up].size]
        BY <2>0
      <3>3. t[up].left # p
        BY <1>0, <1>00, <2>1
      <3> QED BY <2>1, <3>1, <3>2, <3>3
    <2>2. CASE t[up].right # p
      <3>1. s[up] = [t[up] EXCEPT !.left = c]
        BY <1>0, <1>00, <2>2
      <3>2. [t[up] EXCEPT !.left = c] = [left |-> c, right |-> t[up].right, parent |-> t[up].parent, size |-> t[up].size]
        BY <2>0
      <3>3. t[up].left = p
        BY <1>0, <1>00, <2>2
      <3> QED BY <2>2, <3>1, <3>2, <3>3
    <2> QED BY <2>1, <2>2
  <1>3. DOMAIN s = DOMAIN t /\ s = [y \in DOMAIN s |-> s[y]]
    <2>1. CASE t[up].right = p
      BY <1>0, <1>00, <2>1
    <2>2. CASE t[up].right # p
      BY <1>0, <1>00, <2>2
    <2> QED BY <2>1, <2>2
  <1> QED BY <1>1, <1>2, <1>3 DEF s

\* Who leads to a node.
LEMMA LedTo ==
  ASSUME NEW t, Linked(t), NEW p \in DOMAIN t \ {Root}
  PROVE  /\ Leads(t, t[p].parent, p)
         /\ \A y \in DOMAIN t : t[y].parent = p <=> y # Nil /\ (t[p].left = y \/ t[p].right = y)
  <1>1. p # Nil /\ Nil # Root
    BY NilElsewhere DEF Linked
  <1>2. t[p].parent \in DOMAIN t /\ (p = t[t[p].parent].left \/ p = t[t[p].parent].right)
    BY DEF Linked
  <1>3. \A y \in DOMAIN t : (t[y].left = p \/ t[y].right = p) => y = t[p].parent
    BY <1>1 DEF Linked
  <1>4. ASSUME NEW y \in DOMAIN t PROVE t[y].parent = p <=> y # Nil /\ (t[p].left = y \/ t[p].right = y)
    <2>1. ASSUME t[y].parent = p PROVE y # Nil /\ (t[p].left = y \/ t[p].right = y)
      <3>1. y # Root
        BY <2>1, <1>1 DEF Linked
      <3> QED BY <2>1, <3>1 DEF Linked
    <2>2. ASSUME y # Nil, t[p].left = y \/ t[p].right = y PROVE t[y].parent = p
      BY <2>2 DEF Linked
    <2> QED BY <2>1, <2>2
  <1>5. t[t[p].parent].left = p => t[t[p].parent].right # p
    BY <1>1, <1>2 DEF Linked
  <1> QED BY <1>1, <1>2, <1>3, <1>4, <1>5 DEF Leads

\* What Splice makes of the tree.
LEMMA SpliceSpliced ==
  ASSUME NEW t, Linked(t), NEW p \in DOMAIN t \ {Root}, t[p].left = Nil \/ t[p].right = Nil, t[p].parent # p
  PROVE  Spliced(Splice(t, p), t, p)
  <1> DEFINE D == DOMAIN t
             c == IF t[p].left = Nil THEN t[p].right ELSE t[p].left
             up == t[p].parent
             s == Slot(t, up, p, c)
             r == IF c = Nil THEN s ELSE [s EXCEPT ![c].parent = up]
             u == [y \in DOMAIN r \ {p} |-> r[y]]
  <1>0. Splice(t, p) = u
    <2>1. Splice(t, p) = Drop(Replace(t, p, c), p)
      BY Zenon DEF Splice
    <2> HIDE DEF c
    <2>2. Replace(t, p, c) = r
      BY Zenon DEF Replace, Slot
    <2> HIDE DEF r
    <2> QED BY <2>1, <2>2, Zenon DEF Drop
  <1>1. /\ Leads(t, up, p)
        /\ \A y \in D : t[y].parent = p <=> y # Nil /\ (t[p].left = y \/ t[p].right = y)
    <2> HIDE DEF c, s, r, u
    <2> QED BY LedTo
  <1>2. Plain(t)
    BY DEF Linked, Node, Plain
  <1>4. c \in D \cup {Nil} /\ Nil \notin D
    BY NodeTypes DEF Linked
  <1>5. \A y \in D : t[y].parent = p <=> y = c
    BY <1>1, <1>4
  <1> HIDE DEF c, up
  <1>6. /\ DOMAIN s = D /\ s = [y \in DOMAIN s |-> s[y]]
        /\ \A y \in D : s[y] = [left |-> IF t[y].left = p THEN c ELSE t[y].left,
                                right |-> IF t[y].right = p THEN c ELSE t[y].right,
                                parent |-> t[y].parent, size |-> t[y].size]
    <2> HIDE DEF r, u
    <2> QED BY <1>1, <1>2, SlotOf
  <1> HIDE DEF s
  <1>7. DOMAIN r = D
    BY <1>6
  <1>8. ASSUME NEW y \in D
        PROVE  r[y] = [left |-> IF t[y].left = p THEN c ELSE t[y].left,
                       right |-> IF t[y].right = p THEN c ELSE t[y].right,
                       parent |-> IF t[y].parent = p THEN t[p].parent ELSE t[y].parent,
                       size |-> t[y].size]
    <2>1. s[y] = [left |-> IF t[y].left = p THEN c ELSE t[y].left,
                  right |-> IF t[y].right = p THEN c ELSE t[y].right,
                  parent |-> t[y].parent, size |-> t[y].size]
      BY <1>6
    <2>2. CASE y # c
      <3>1. r[y] = s[y]
        BY <2>2, <1>6
      <3> QED BY <2>1, <2>2, <3>1, <1>5
    <2>3. CASE y = c
      <3>1. c # Nil /\ t[y].parent = p
        BY <2>3, <1>4, <1>5
      <3>2. r[y] = [s[y] EXCEPT !.parent = up]
        BY <2>3, <3>1, <1>6
      <3> DEFINE a == IF t[y].left = p THEN c ELSE t[y].left
                 b == IF t[y].right = p THEN c ELSE t[y].right
                 e == t[y].size
      <3> HIDE DEF a, b, e
      <3>3. s[y] = [left |-> a, right |-> b, parent |-> t[y].parent, size |-> e]
        BY <2>1 DEF a, b, e
      <3>4. [s[y] EXCEPT !.parent = up] = [left |-> a, right |-> b, parent |-> up, size |-> e]
        BY <3>3
      <3> QED BY <3>1, <3>2, <3>4 DEF a, b, e, up
    <2> QED BY <2>2, <2>3
  <1> HIDE DEF r
  <1>9. DOMAIN u = D \ {p} /\ u = [y \in DOMAIN u |-> u[y]] /\ \A y \in DOMAIN u : u[y] = r[y]
    BY <1>7
  <1> HIDE DEF u
  <1>10. Spliced(u, t, p)
    <2>1. ASSUME NEW y \in DOMAIN u
          PROVE  u[y] = [left |-> IF t[y].left = p THEN c ELSE t[y].left,
                         right |-> IF t[y].right = p THEN c ELSE t[y].right,
                         parent |-> IF t[y].parent = p THEN t[p].parent ELSE t[y].parent,
                         size |-> t[y].size]
      <3>1. y \in D /\ u[y] = r[y]
        BY <1>9
      <3> QED BY <3>1, <1>8, Zenon
    <2> QED BY <2>1, <1>9, Zenon DEF Spliced, c
  <1> QED BY <1>0, <1>10

\* A node without a node between: p, its parent up, and its only child c if it has one.
LEMMA SpliceFacts ==
  ASSUME NEW t, NEW over, Tree(t, over), NEW p \in DOMAIN t \ {Root}, t[p].left = Nil \/ t[p].right = Nil,
         NEW c, c = IF t[p].left = Nil THEN t[p].right ELSE t[p].left
  PROVE  /\ t[p].parent \in DOMAIN t \ {p} /\ c \in DOMAIN t \cup {Nil} /\ c # p /\ p # Nil
         /\ \A y \in DOMAIN t : t[y].parent = p <=> y = c
         /\ \A y \in DOMAIN t : (t[y].left = p \/ t[y].right = p) => y = t[p].parent
         /\ p = t[t[p].parent].left \/ p = t[t[p].parent].right
         /\ over[p] = over[t[p].parent] \cup {p} /\ p \notin over[t[p].parent]
         /\ \A z \in DOMAIN t : p \in over[z] /\ z # p => c \in over[z]
         /\ \A z \in DOMAIN t : c \in over[z] => p \in over[z]
  <1>0. Linked(t) /\ Rooted(t, over) /\ Nil \notin DOMAIN t /\ over \in [DOMAIN t -> SUBSET DOMAIN t]
    BY DEF Tree, Linked, Rooted
  <1>1. /\ over[p] = over[t[p].parent] \cup {p} /\ p \notin over[t[p].parent] /\ t[p].parent \in DOMAIN t
        /\ \A y \in DOMAIN t : y \in over[y]
    BY <1>0 DEF Rooted, Linked
  <1>2. t[p].parent # p
    BY <1>1
  <1>3. /\ Leads(t, t[p].parent, p)
        /\ \A y \in DOMAIN t : t[y].parent = p <=> y # Nil /\ (t[p].left = y \/ t[p].right = y)
    BY <1>0, LedTo
  <1>4. c \in DOMAIN t \cup {Nil}
    BY <1>0, NodeTypes
  <1>5. \A y \in DOMAIN t : t[y].parent = p <=> y = c
    BY <1>0, <1>3, <1>4
  <1>6. c # p /\ p # Nil
    BY <1>0, <1>2, <1>5
  <1>7. ASSUME NEW z \in DOMAIN t, p \in over[z], z # p PROVE c \in over[z]
    <2>1. t[p].left \in over[z] \/ t[p].right \in over[z]
      BY <1>0, <1>7 DEF Rooted
    <2>2. Nil \notin over[z]
      BY <1>0
    <2> QED BY <2>1, <2>2
  <1>8. ASSUME NEW z \in DOMAIN t, c \in over[z] PROVE p \in over[z]
    <2>1. c \in DOMAIN t
      BY <1>0, <1>8
    <2>2. t[c].parent = p /\ c # Root
      BY <1>0, <1>5, <2>1, NilElsewhere DEF Linked
    <2>3. over[c] = over[p] \cup {c}
      BY <2>1, <2>2, <1>0 DEF Rooted
    <2>4. over[c] \subseteq over[z]
      BY <1>0, <1>8 DEF Rooted
    <2> QED BY <2>3, <2>4, <1>1
  <1> QED BY <1>1, <1>2, <1>3, <1>4, <1>5, <1>6, <1>7, <1>8 DEF Leads

\* The links stay mutual when a node with one child is passed over.
LEMMA SplicedLinked ==
  ASSUME NEW t, NEW over, Tree(t, over), NEW p \in DOMAIN t \ {Root}, t[p].left = Nil \/ t[p].right = Nil,
         NEW u, Spliced(u, t, p)
  PROVE  Linked(u)
  <1> DEFINE D == DOMAIN t
             E == D \ {p}
             c == IF t[p].left = Nil THEN t[p].right ELSE t[p].left
             up == t[p].parent
  <1>0. Linked(t)
    BY DEF Tree
  <1>1. DOMAIN u = E /\ u = [y \in E |-> u[y]]
    BY DEF Spliced
  <1>2. \A y \in E : u[y] = [left |-> IF t[y].left = p THEN c ELSE t[y].left,
                             right |-> IF t[y].right = p THEN c ELSE t[y].right,
                             parent |-> IF t[y].parent = p THEN up ELSE t[y].parent,
                             size |-> t[y].size]
    BY DEF Spliced
  <1>3. /\ up \in E /\ c \in D \cup {Nil} /\ c # p /\ p # Nil
        /\ \A y \in D : t[y].parent = p <=> y = c
        /\ \A y \in D : (t[y].left = p \/ t[y].right = p) => y = up
        /\ p = t[up].left \/ p = t[up].right
    BY SpliceFacts
  <1> HIDE DEF c, up
  <1>4. \A y \in E : /\ u[y].left = (IF t[y].left = p THEN c ELSE t[y].left)
                     /\ u[y].right = (IF t[y].right = p THEN c ELSE t[y].right)
                     /\ u[y].parent = (IF t[y].parent = p THEN up ELSE t[y].parent)
                     /\ u[y].size = t[y].size
    <2>1. ASSUME NEW y \in E
          PROVE  /\ u[y].left = (IF t[y].left = p THEN c ELSE t[y].left)
                 /\ u[y].right = (IF t[y].right = p THEN c ELSE t[y].right)
                 /\ u[y].parent = (IF t[y].parent = p THEN up ELSE t[y].parent)
                 /\ u[y].size = t[y].size
      <3>1. u[y] = [left |-> IF t[y].left = p THEN c ELSE t[y].left,
                    right |-> IF t[y].right = p THEN c ELSE t[y].right,
                    parent |-> IF t[y].parent = p THEN up ELSE t[y].parent,
                    size |-> t[y].size]
        BY <1>2
      <3> QED BY <3>1
    <2> QED BY <2>1
  <1>5. \A y \in D : /\ t[y].left \in D \cup {Nil} /\ t[y].right \in D \cup {Nil}
                     /\ t[y].parent \in D \cup {Nil} /\ t[y].size \in Nat
    BY <1>0, NodeTypes
  <1>6. Root \in E /\ Nil \notin E /\ IsFiniteSet(E) /\ Nil \notin D /\ Root \in D
    BY <1>0, FS_RemoveElement DEF Linked
  <1>7. u \in [E -> Node(E)]
    <2>1. ASSUME NEW y \in E PROVE u[y] \in Node(E)
      <3>1. /\ (IF t[y].left = p THEN c ELSE t[y].left) \in E \cup {Nil}
            /\ (IF t[y].right = p THEN c ELSE t[y].right) \in E \cup {Nil}
            /\ (IF t[y].parent = p THEN up ELSE t[y].parent) \in E \cup {Nil}
            /\ t[y].size \in Nat
        BY <1>3, <1>5
      <3> DEFINE a == IF t[y].left = p THEN c ELSE t[y].left
                 b == IF t[y].right = p THEN c ELSE t[y].right
                 d == IF t[y].parent = p THEN up ELSE t[y].parent
                 e == t[y].size
      <3>2. u[y] = [left |-> a, right |-> b, parent |-> d, size |-> e]
        BY <1>2
      <3>3. a \in E \cup {Nil} /\ b \in E \cup {Nil} /\ d \in E \cup {Nil} /\ e \in Nat
        BY <3>1
      <3> HIDE DEF a, b, d, e
      <3> QED BY <3>2, <3>3 DEF Node
    <2> QED BY <2>1, <1>1
  <1>8. u[Root].left = Nil /\ u[Root].parent = Nil /\ u[Root].size = 0
    <2>1. t[Root].left = Nil /\ t[Root].parent = Nil /\ t[Root].size = 0
      BY <1>0 DEF Linked
    <2> QED BY <2>1, <1>3, <1>4, <1>6
  <1>9. ASSUME NEW y \in E \ {Root}
        PROVE  u[y].parent \in E /\ u[y].size > 0 /\ (y = u[u[y].parent].left \/ y = u[u[y].parent].right)
    <2>1. t[y].parent \in D /\ t[y].size > 0 /\ (y = t[t[y].parent].left \/ y = t[t[y].parent].right)
      BY <1>0 DEF Linked
    <2>2. CASE t[y].parent = p
      <3>1. u[y].parent = up /\ u[y].size = t[y].size /\ y = c
        BY <2>2, <1>3, <1>4
      <3>2. u[up].left = c \/ u[up].right = c
        BY <1>3, <1>4
      <3> QED BY <2>1, <3>1, <3>2, <1>3
    <2>3. CASE t[y].parent # p
      <3>1. u[y].parent = t[y].parent /\ u[y].size = t[y].size /\ t[y].parent \in E
        BY <2>1, <2>3, <1>4
      <3>2. \A x \in E : (t[x].left # p => u[x].left = t[x].left) /\ (t[x].right # p => u[x].right = t[x].right)
        BY <1>4
      <3> QED BY <2>1, <3>1, <3>2
    <2> QED BY <2>2, <2>3
  <1>10. ASSUME NEW y \in E
         PROVE  /\ u[y].left # Nil => u[u[y].left].parent = y
                /\ u[y].right # Nil => u[u[y].right].parent = y
                /\ u[y].left # Nil => u[y].left # u[y].right
    <2>1. /\ t[y].left # Nil => t[t[y].left].parent = y
          /\ t[y].right # Nil => t[t[y].right].parent = y
          /\ t[y].left # Nil => t[y].left # t[y].right
      BY <1>0 DEF Linked
    <2>2. ASSUME c # Nil PROVE c \in E /\ u[c].parent = up
      BY <2>2, <1>3, <1>4
    <2>3. ASSUME NEW l \in D, t[l].parent = y, l # p PROVE u[l].parent = y
      BY <2>3, <1>4
    <2>4. t[y].left \in D \cup {Nil} /\ t[y].right \in D \cup {Nil}
      BY <1>5
    <2>5. u[y].left # Nil => u[u[y].left].parent = y
      <3>1. CASE t[y].left = p
        <4>1. u[y].left = c /\ y = up
          BY <3>1, <1>3, <1>4
        <4> QED BY <4>1, <2>2
      <3>2. CASE t[y].left # p
        <4>1. u[y].left = t[y].left
          BY <3>2, <1>4
        <4> QED BY <4>1, <3>2, <2>1, <2>3, <2>4
      <3> QED BY <3>1, <3>2
    <2>6. u[y].right # Nil => u[u[y].right].parent = y
      <3>1. CASE t[y].right = p
        <4>1. u[y].right = c /\ y = up
          BY <3>1, <1>3, <1>4
        <4> QED BY <4>1, <2>2
      <3>2. CASE t[y].right # p
        <4>1. u[y].right = t[y].right
          BY <3>2, <1>4
        <4> QED BY <4>1, <3>2, <2>1, <2>3, <2>4
      <3> QED BY <3>1, <3>2
    <2>7. ASSUME u[y].left # Nil PROVE u[y].left # u[y].right
      <3>0. u[y].left = (IF t[y].left = p THEN c ELSE t[y].left) /\ u[y].right = (IF t[y].right = p THEN c ELSE t[y].right)
        BY <1>4
      <3>1. CASE t[y].left = p
        <4>1. t[y].right # p
          BY <3>1, <2>1, <1>3
        <4>2. c # Nil /\ c \in D /\ t[c].parent = p /\ p # y
          BY <3>0, <3>1, <2>7, <1>3
        <4>3. t[y].right # c
          BY <4>2, <2>1
        <4> QED BY <3>0, <3>1, <4>1, <4>3
      <3>2. CASE t[y].left # p
        <4>1. CASE t[y].right = p
          <5>1. t[y].left # Nil /\ t[t[y].left].parent = y /\ p # y
            BY <3>0, <3>2, <2>1, <2>7
          <5>2. c # Nil => t[c].parent = p
            BY <1>3
          <5>3. t[y].left # c
            BY <5>1, <5>2
          <5> QED BY <3>0, <3>2, <4>1, <5>3
        <4>2. CASE t[y].right # p
          BY <3>0, <3>2, <4>2, <2>1, <2>7
        <4> QED BY <4>1, <4>2
      <3> QED BY <3>1, <3>2
    <2> QED BY <2>5, <2>6, <2>7
  <1> QED BY <1>1, <1>6, <1>7, <1>8, <1>9, <1>10 DEF Linked

\* The ways from the root, and the order, without the node.
LEMMA SplicedRooted ==
  ASSUME NEW t, NEW over, Tree(t, over), NEW p \in DOMAIN t \ {Root}, t[p].left = Nil \/ t[p].right = Nil,
         NEW u, Spliced(u, t, p), NEW o, o = [z \in DOMAIN t \ {p} |-> over[z] \ {p}]
  PROVE  Rooted(u, o) /\ Ordered(u, o)
  <1> DEFINE D == DOMAIN t
             E == D \ {p}
             c == IF t[p].left = Nil THEN t[p].right ELSE t[p].left
             up == t[p].parent
  <1>0. Linked(t) /\ Rooted(t, over) /\ Ordered(t, over)
    BY DEF Tree
  <1>1. DOMAIN u = E /\ u = [y \in E |-> u[y]]
    BY DEF Spliced
  <1>2. \A y \in E : u[y] = [left |-> IF t[y].left = p THEN c ELSE t[y].left,
                             right |-> IF t[y].right = p THEN c ELSE t[y].right,
                             parent |-> IF t[y].parent = p THEN up ELSE t[y].parent,
                             size |-> t[y].size]
    BY DEF Spliced
  <1>3. /\ up \in E /\ c \in D \cup {Nil} /\ c # p /\ p # Nil
        /\ \A y \in D : t[y].parent = p <=> y = c
        /\ over[p] = over[up] \cup {p} /\ p \notin over[up]
        /\ \A z \in D : p \in over[z] /\ z # p => c \in over[z]
        /\ \A z \in D : c \in over[z] => p \in over[z]
    BY SpliceFacts
  <1> HIDE DEF c, up
  <1>4. ASSUME NEW y \in E
        PROVE  /\ u[y].left = (IF t[y].left = p THEN c ELSE t[y].left)
               /\ u[y].right = (IF t[y].right = p THEN c ELSE t[y].right)
               /\ u[y].parent = (IF t[y].parent = p THEN up ELSE t[y].parent)
               /\ u[y].size = t[y].size
    <2>1. u[y] = [left |-> IF t[y].left = p THEN c ELSE t[y].left,
                  right |-> IF t[y].right = p THEN c ELSE t[y].right,
                  parent |-> IF t[y].parent = p THEN up ELSE t[y].parent,
                  size |-> t[y].size]
      BY <1>2
    <2> QED BY <2>1
  <1>5. over \in [D -> SUBSET D] /\ Root \in E /\ \A z \in E : o[z] = over[z] \ {p}
    BY <1>0 DEF Rooted, Linked
  <1>6. o \in [E -> SUBSET E]
    BY <1>5
  <1>7. o[Root] = {Root}
    BY <1>0, <1>5 DEF Rooted
  <1>8. ASSUME NEW z \in E \ {Root} PROVE z \notin o[u[z].parent] /\ o[z] = o[u[z].parent] \cup {z}
    <2>1. t[z].parent \in D /\ z \notin over[t[z].parent] /\ over[z] = over[t[z].parent] \cup {z}
      BY <1>0 DEF Rooted, Linked
    <2>2. CASE t[z].parent = p
      <3>1. u[z].parent = up /\ o[up] = over[up] \ {p} /\ o[z] = over[z] \ {p}
        BY <2>2, <1>3, <1>4, <1>5
      <3> QED BY <2>1, <2>2, <3>1, <1>3
    <2>3. CASE t[z].parent # p
      <3>1. u[z].parent = t[z].parent /\ o[t[z].parent] = over[t[z].parent] \ {p} /\ o[z] = over[z] \ {p}
        BY <2>1, <2>3, <1>4, <1>5
      <3> QED BY <2>1, <3>1
    <2> QED BY <2>2, <2>3
  <1>9. ASSUME NEW z \in E, NEW y \in o[z]
        PROVE  /\ o[y] \subseteq o[z]
               /\ y # z => z \notin o[y] /\ (u[y].left \in o[z] \/ u[y].right \in o[z])
    <2>1. y \in E /\ y \in over[z] /\ o[z] = over[z] \ {p} /\ o[y] = over[y] \ {p}
      BY <1>5
    <2>2. over[y] \subseteq over[z] /\ (y # z => z \notin over[y] /\ (t[y].left \in over[z] \/ t[y].right \in over[z]))
      BY <2>1, <1>0 DEF Rooted
    <2>3. t[y].left \in over[z] => u[y].left \in over[z] \ {p}
      BY <2>1, <1>3, <1>4
    <2>4. t[y].right \in over[z] => u[y].right \in over[z] \ {p}
      BY <2>1, <1>3, <1>4
    <2> QED BY <2>1, <2>2, <2>3, <2>4
  <1>10. Rooted(u, o)
    BY <1>1, <1>6, <1>7, <1>8, <1>9 DEF Rooted
  <1>11. ASSUME NEW y \in E, NEW z \in E
         PROVE  /\ u[y].left \in o[z] => u[z].size <= u[y].size
                /\ u[y].right \in o[z] => u[z].size > u[y].size
    <2>1. /\ t[y].left \in over[z] => t[z].size <= t[y].size
          /\ t[y].right \in over[z] => t[z].size > t[y].size
      BY <1>0 DEF Ordered
    <2>2. u[z].size = t[z].size /\ u[y].size = t[y].size
      BY <1>4
    <2>3. u[y].left \in o[z] => t[y].left \in over[z]
      BY <1>3, <1>4, <1>5
    <2>4. u[y].right \in o[z] => t[y].right \in over[z]
      BY <1>3, <1>4, <1>5
    <2> QED BY <2>1, <2>2, <2>3, <2>4
  <1> QED BY <1>1, <1>10, <1>11 DEF Ordered

\* v is t with a node q of n units in the place of p.
Renamed(v, t, p, q, n) ==
  /\ DOMAIN v = (DOMAIN t \ {p}) \cup {q} /\ v = [y \in DOMAIN v |-> v[y]]
  /\ v[q] = [left |-> t[p].left, right |-> t[p].right, parent |-> t[p].parent, size |-> n]
  /\ \A y \in DOMAIN t \ {p} :
       v[y] = [left |-> IF t[y].left = p THEN q ELSE t[y].left,
               right |-> IF t[y].right = p THEN q ELSE t[y].right,
               parent |-> IF t[y].parent = p THEN q ELSE t[y].parent,
               size |-> t[y].size]

\* A node of n units may be in the place of p.
Suits(t, over, p, n) ==
  \A y \in DOMAIN t :
    /\ t[p].left \in over[y] => t[y].size <= n
    /\ t[p].right \in over[y] => t[y].size > n
    /\ t[y].left \in over[p] => n <= t[y].size
    /\ t[y].right \in over[p] => n > t[y].size

\* Names of the nodes before, and after.
Back(t, p, q) == [z \in (DOMAIN t \ {p}) \cup {q} |-> IF z = q THEN p ELSE z]
Forth(t, p, q) == [w \in DOMAIN t \cup {Nil} |-> IF w = p THEN q ELSE w]

\* The two renamings are inverse to each other.
LEMMA Naming ==
  ASSUME NEW t, Linked(t), NEW p \in DOMAIN t \ {Root}, NEW q, q \notin DOMAIN t, q # Nil,
         NEW D, D = DOMAIN t, NEW E, E = (D \ {p}) \cup {q},
         NEW b, b = Back(t, p, q), NEW f, f = Forth(t, p, q)
  PROVE  /\ \A z \in E : b[z] \in D /\ f[b[z]] = z
         /\ \A w \in D : f[w] \in E /\ b[f[w]] = w
         /\ f[Nil] = Nil /\ Nil \notin E /\ Nil \notin D /\ Root \in D /\ Root \in E
         /\ b[Root] = Root /\ f[Root] = Root
  BY DEF Linked, Back, Forth

\* The fields of a renamed tree, by those before.
LEMMA RenamedFields ==
  ASSUME NEW t, NEW over, Tree(t, over), NEW p \in DOMAIN t \ {Root}, NEW q, q \notin DOMAIN t, q # Nil,
         NEW n, NEW v, Renamed(v, t, p, q, n), NEW z \in (DOMAIN t \ {p}) \cup {q},
         NEW b, b = Back(t, p, q), NEW f, f = Forth(t, p, q)
  PROVE  v[z] = [left |-> f[t[b[z]].left], right |-> f[t[b[z]].right],
                 parent |-> f[t[b[z]].parent], size |-> IF z = q THEN n ELSE t[b[z]].size]
  <1>0. Linked(t) /\ Rooted(t, over)
    BY DEF Tree
  <1>1. \A w \in DOMAIN t \cup {Nil} : f[w] = IF w = p THEN q ELSE w
    BY DEF Forth
  <1>2. \A y \in DOMAIN t : t[y].left \in DOMAIN t \cup {Nil} /\ t[y].right \in DOMAIN t \cup {Nil} /\ t[y].parent \in DOMAIN t \cup {Nil}
    BY <1>0, NodeTypes
  <1>3. b[z] = IF z = q THEN p ELSE z
    BY DEF Back
  <1>4. CASE z = q
    <2>1. t[p].parent # p
      BY <1>0 DEF Rooted, Linked
    <2>2. t[p].left # p /\ t[p].right # p
      BY <1>0, <2>1 DEF Linked
    <2>3. f[t[p].left] = t[p].left /\ f[t[p].right] = t[p].right /\ f[t[p].parent] = t[p].parent
      BY <2>1, <2>2, <1>1, <1>2
    <2> QED BY <1>3, <1>4, <2>3 DEF Renamed
  <1>5. CASE z # q
    <2>1. z \in DOMAIN t \ {p} /\ b[z] = z
      BY <1>3, <1>5
    <2>2. /\ f[t[z].left] = (IF t[z].left = p THEN q ELSE t[z].left)
          /\ f[t[z].right] = (IF t[z].right = p THEN q ELSE t[z].right)
          /\ f[t[z].parent] = (IF t[z].parent = p THEN q ELSE t[z].parent)
      BY <2>1, <1>1, <1>2
    <2>3. v[z] = [left |-> f[t[z].left], right |-> f[t[z].right], parent |-> f[t[z].parent], size |-> t[z].size]
      BY <2>1, <2>2 DEF Renamed
    <2> QED BY <2>1, <2>3, <1>5
  <1> QED BY <1>4, <1>5

\* A tree stays a search tree when a node takes the place of another that suits it.
LEMMA RenamedTree ==
  ASSUME NEW t, NEW over, Tree(t, over), NEW p \in DOMAIN t \ {Root}, NEW q, q \notin DOMAIN t, q # Nil,
         NEW n \in Nat, n > 0, Suits(t, over, p, n), NEW v, Renamed(v, t, p, q, n)
  PROVE  \E o : Tree(v, o)
  <1> DEFINE D == DOMAIN t
             E == (D \ {p}) \cup {q}
             b == Back(t, p, q)
             f == Forth(t, p, q)
             o == [z \in E |-> {w \in E : b[w] \in over[b[z]]}]
  <1>0. Linked(t) /\ Rooted(t, over) /\ Ordered(t, over)
    BY DEF Tree
  <1>1. /\ \A z \in E : b[z] \in D /\ f[b[z]] = z
        /\ \A w \in D : f[w] \in E /\ b[f[w]] = w
        /\ f[Nil] = Nil /\ Nil \notin E /\ Nil \notin D /\ Root \in D /\ Root \in E
        /\ b[Root] = Root /\ f[Root] = Root
    <2>1. D = DOMAIN t /\ E = (D \ {p}) \cup {q} /\ b = Back(t, p, q) /\ f = Forth(t, p, q)
      OBVIOUS
    <2> HIDE DEF D, E, b, f
    <2> QED BY <1>0, <2>1, Naming
  <1>2. DOMAIN v = E /\ v = [z \in E |-> v[z]]
    BY DEF Renamed
  <1>3. \A z \in E : v[z] = [left |-> f[t[b[z]].left], right |-> f[t[b[z]].right],
                             parent |-> f[t[b[z]].parent], size |-> IF z = q THEN n ELSE t[b[z]].size]
    BY RenamedFields
  <1>4. b[q] = p /\ p \in D /\ q \in E /\ p # Root /\ q # Root
    BY <1>0 DEF Back, Linked
  <1>5. IsFiniteSet(E)
    BY <1>0, FS_AddElement, FS_RemoveElement DEF Linked
  <1> HIDE DEF b, f, E
  <1>6. ASSUME NEW z \in E
        PROVE  /\ v[z].left = f[t[b[z]].left] /\ v[z].right = f[t[b[z]].right] /\ v[z].parent = f[t[b[z]].parent]
               /\ v[z].size = (IF z = q THEN n ELSE t[b[z]].size)
    <2>1. v[z] = [left |-> f[t[b[z]].left], right |-> f[t[b[z]].right],
                  parent |-> f[t[b[z]].parent], size |-> IF z = q THEN n ELSE t[b[z]].size]
      BY <1>3
    <2> QED BY <2>1
  <1>7. \A y \in D : /\ t[y].left \in D \cup {Nil} /\ t[y].right \in D \cup {Nil}
                     /\ t[y].parent \in D \cup {Nil} /\ t[y].size \in Nat
    BY <1>0, NodeTypes
  <1>8. \A w \in D \cup {Nil} : f[w] \in E \cup {Nil} /\ (f[w] = Nil <=> w = Nil)
    BY <1>1
  <1>9. v \in [E -> Node(E)]
    <2>1. ASSUME NEW z \in E PROVE v[z] \in Node(E)
      <3> DEFINE l == f[t[b[z]].left]
                 r == f[t[b[z]].right]
                 a == f[t[b[z]].parent]
                 e == IF z = q THEN n ELSE t[b[z]].size
      <3>1. v[z] = [left |-> l, right |-> r, parent |-> a, size |-> e]
        BY <1>3
      <3>2. l \in E \cup {Nil} /\ r \in E \cup {Nil} /\ a \in E \cup {Nil} /\ e \in Nat
        BY <1>1, <1>7, <1>8
      <3> HIDE DEF l, r, a, e
      <3> QED BY <3>1, <3>2 DEF Node
    <2> QED BY <2>1, <1>2
  <1>10. v[Root].left = Nil /\ v[Root].parent = Nil /\ v[Root].size = 0
    <2>1. t[Root].left = Nil /\ t[Root].parent = Nil /\ t[Root].size = 0
      BY <1>0 DEF Linked
    <2> QED BY <2>1, <1>1, <1>4, <1>6
  <1>11. ASSUME NEW z \in E, NEW w \in D PROVE v[z].left = f[w] <=> t[b[z]].left = w
    BY <1>1, <1>6, <1>7, <1>8
  <1>12. ASSUME NEW z \in E, NEW w \in D PROVE v[z].right = f[w] <=> t[b[z]].right = w
    BY <1>1, <1>6, <1>7, <1>8
  <1>13. ASSUME NEW z \in E \ {Root}
         PROVE  v[z].parent \in E /\ v[z].size > 0 /\ (z = v[v[z].parent].left \/ z = v[v[z].parent].right)
    <2>1. b[z] \in D /\ b[z] # Root
      BY <1>1
    <2>2. t[b[z]].parent \in D /\ t[b[z]].size > 0 /\ (b[z] = t[t[b[z]].parent].left \/ b[z] = t[t[b[z]].parent].right)
      BY <2>1, <1>0 DEF Linked
    <2> DEFINE a == t[b[z]].parent
    <2>3. v[z].parent = f[a] /\ f[a] \in E /\ b[f[a]] = a /\ f[b[z]] = z
      BY <2>2, <1>1, <1>6
    <2>4. z = v[f[a]].left \/ z = v[f[a]].right
      BY <2>1, <2>2, <2>3, <1>11, <1>12
    <2>5. v[z].size > 0
      BY <2>2, <1>6
    <2> QED BY <2>3, <2>4, <2>5
  <1>14. ASSUME NEW z \in E
         PROVE  /\ v[z].left # Nil => v[v[z].left].parent = z
                /\ v[z].right # Nil => v[v[z].right].parent = z
                /\ v[z].left # Nil => v[z].left # v[z].right
    <2> DEFINE y == b[z]
    <2>1. y \in D /\ f[y] = z
      BY <1>1
    <2>2. /\ t[y].left # Nil => t[t[y].left].parent = y
          /\ t[y].right # Nil => t[t[y].right].parent = y
          /\ t[y].left # Nil => t[y].left # t[y].right
      BY <2>1, <1>0 DEF Linked
    <2>3. v[z].left = f[t[y].left] /\ v[z].right = f[t[y].right]
          /\ t[y].left \in D \cup {Nil} /\ t[y].right \in D \cup {Nil}
      BY <2>1, <1>6, <1>7
    <2> HIDE DEF y
    <2>4. ASSUME NEW w \in D, t[w].parent = y PROVE v[f[w]].parent = z
      BY <2>1, <2>4, <1>1, <1>6
    <2>5. v[z].left # Nil => t[y].left \in D /\ v[v[z].left].parent = z
      BY <2>2, <2>3, <2>4, <1>8
    <2>6. v[z].right # Nil => v[v[z].right].parent = z
      BY <2>2, <2>3, <2>4, <1>8
    <2>7. v[z].left # Nil => v[z].left # v[z].right
      BY <2>2, <2>3, <1>1, <1>8
    <2> QED BY <2>5, <2>6, <2>7
  <1>15. Linked(v)
    BY <1>1, <1>2, <1>5, <1>9, <1>10, <1>13, <1>14 DEF Linked
  <1>16. over \in [D -> SUBSET D]
    BY <1>0 DEF Rooted
  <1>17. \A z \in E : o[z] \in SUBSET E /\ \A w : w \in o[z] <=> w \in E /\ b[w] \in over[b[z]]
    OBVIOUS
  <1>18. o \in [E -> SUBSET E]
    OBVIOUS
  <1> HIDE DEF o
  <1>19. \A z \in E : \A w \in D : f[w] \in o[z] <=> w \in over[b[z]]
    BY <1>1, <1>17
  <1>20. \A z \in E : \A w \in D \cup {Nil} : f[w] \in o[z] <=> w \in over[b[z]]
    BY <1>1, <1>16, <1>17, <1>19
  <1>21. o[Root] = {Root}
    <2>1. over[Root] = {Root}
      BY <1>0 DEF Rooted
    <2>2. \A w : w \in o[Root] <=> w = Root
      BY <2>1, <1>1, <1>17
    <2> QED BY <2>2
  <1>22. ASSUME NEW z \in E \ {Root} PROVE z \notin o[v[z].parent] /\ o[z] = o[v[z].parent] \cup {z}
    <2> DEFINE y == b[z]
               a == t[y].parent
    <2>1. y \in D /\ y # Root /\ f[y] = z
      BY <1>1
    <2>2. a \in D /\ y \notin over[a] /\ over[y] = over[a] \cup {y}
      BY <2>1, <1>0 DEF Linked, Rooted
    <2>3. v[z].parent = f[a] /\ f[a] \in E /\ b[f[a]] = a
      BY <2>2, <1>1, <1>6
    <2> HIDE DEF y, a
    <2>4. z \notin o[f[a]]
      BY <2>1, <2>2, <2>3, <1>19
    <2>5. \A w : w \in o[z] <=> w \in o[f[a]] \cup {z}
      <3>1. ASSUME NEW w \in E PROVE w \in o[z] <=> w \in o[f[a]] \cup {z}
        <4>1. (b[w] = y) <=> (w = z)
          BY <2>1, <1>1 DEF y
        <4>2. w \in o[z] <=> b[w] \in over[y]
          BY <1>17 DEF y
        <4>3. w \in o[f[a]] <=> b[w] \in over[a]
          BY <2>3, <1>17
        <4> QED BY <4>1, <4>2, <4>3, <2>2
      <3>2. o[z] \subseteq E /\ o[f[a]] \subseteq E
        BY <2>3, <1>17
      <3> QED BY <3>1, <3>2
    <2> QED BY <2>3, <2>4, <2>5
  <1>23. ASSUME NEW z \in E, NEW y \in o[z]
         PROVE  /\ o[y] \subseteq o[z]
                /\ y # z => z \notin o[y] /\ (v[y].left \in o[z] \/ v[y].right \in o[z])
    <2>1. y \in E /\ b[y] \in over[b[z]] /\ b[z] \in D /\ b[y] \in D
      BY <1>1, <1>17
    <2>2. /\ over[b[y]] \subseteq over[b[z]]
          /\ b[y] # b[z] => b[z] \notin over[b[y]] /\ (t[b[y]].left \in over[b[z]] \/ t[b[y]].right \in over[b[z]])
      BY <2>1, <1>0 DEF Rooted
    <2>3. y # z => b[y] # b[z]
      BY <2>1, <1>1
    <2>4. o[y] \subseteq o[z]
      BY <2>1, <2>2, <1>17
    <2>5. b[z] \notin over[b[y]] => z \notin o[y]
      BY <2>1, <1>17
    <2>6. /\ t[b[y]].left \in over[b[z]] => v[y].left \in o[z]
          /\ t[b[y]].right \in over[b[z]] => v[y].right \in o[z]
      BY <2>1, <1>6, <1>7, <1>20
    <2> QED BY <2>2, <2>3, <2>4, <2>5, <2>6
  <1>24. Rooted(v, o)
    BY <1>2, <1>18, <1>21, <1>22, <1>23 DEF Rooted
  <1>25. ASSUME NEW y \in E, NEW z \in E
         PROVE  /\ v[y].left \in o[z] => v[z].size <= v[y].size
                /\ v[y].right \in o[z] => v[z].size > v[y].size
    <2>1. b[y] \in D /\ b[z] \in D
      BY <1>1
    <2>2. /\ v[y].left \in o[z] <=> t[b[y]].left \in over[b[z]]
          /\ v[y].right \in o[z] <=> t[b[y]].right \in over[b[z]]
      BY <2>1, <1>6, <1>7, <1>20
    <2>3. /\ t[b[y]].left \in over[b[z]] => t[b[z]].size <= t[b[y]].size
          /\ t[b[y]].right \in over[b[z]] => t[b[z]].size > t[b[y]].size
      BY <2>1, <1>0 DEF Ordered
    <2>4. CASE y # q /\ z # q
      <3>1. v[y].size = t[b[y]].size /\ v[z].size = t[b[z]].size
        BY <2>4, <1>6
      <3> QED BY <3>1, <2>2, <2>3
    <2>5. CASE y = q /\ z # q
      <3>1. v[y].size = n /\ v[z].size = t[b[z]].size /\ b[y] = p
        BY <2>5, <1>4, <1>6
      <3>2. /\ t[p].left \in over[b[z]] => t[b[z]].size <= n
            /\ t[p].right \in over[b[z]] => t[b[z]].size > n
        BY <2>1 DEF Suits
      <3> QED BY <3>1, <3>2, <2>2
    <2>6. CASE y # q /\ z = q
      <3>1. v[y].size = t[b[y]].size /\ v[z].size = n /\ b[z] = p
        BY <2>6, <1>4, <1>6
      <3>2. /\ t[b[y]].left \in over[p] => n <= t[b[y]].size
            /\ t[b[y]].right \in over[p] => n > t[b[y]].size
        BY <2>1 DEF Suits
      <3> QED BY <3>1, <3>2, <2>2
    <2>7. CASE y = q /\ z = q
      <3>1. t[p].left \notin over[p] /\ t[p].right \notin over[p]
        <4>1. ASSUME NEW w \in over[p], t[w].parent = p PROVE FALSE
          <5>1. w \in D /\ p \in D
            BY <1>4, <1>16
          <5>2. w # Root
            BY <4>1, <1>0, <1>1, <1>4 DEF Linked
          <5>3. over[w] = over[p] \cup {w} /\ w \notin over[p]
            BY <4>1, <5>1, <5>2, <1>0 DEF Rooted
          <5> QED BY <4>1, <5>3
        <4>2. Nil \notin over[p]
          BY <1>1, <1>4, <1>16
        <4>3. /\ t[p].left # Nil => t[t[p].left].parent = p
              /\ t[p].right # Nil => t[t[p].right].parent = p
          BY <1>0, <1>4 DEF Linked
        <4> QED BY <4>1, <4>2, <4>3
      <3>2. b[y] = p /\ b[z] = p
        BY <2>7, <1>4
      <3> QED BY <2>2, <3>1, <3>2
    <2> QED BY <2>4, <2>5, <2>6, <2>7
  <1>26. Ordered(v, o)
    BY <1>2, <1>25 DEF Ordered
  <1> QED BY <1>15, <1>24, <1>26 DEF Tree

\* The predecessor of p: the rightmost node to the left of it.
LEMMA Predecessor ==
  ASSUME NEW t, NEW over, Tree(t, over), NEW p \in DOMAIN t \ {Root}, t[p].left # Nil,
         NEW q, q = Walk(t, t[p].left, Rights(t))
  PROVE  /\ q \in DOMAIN t \ {Root, p} /\ t[q].right = Nil
         /\ t[p].left \in over[q] /\ p \in over[q]
         /\ \A z \in DOMAIN t : t[p].left \in over[z] => t[z].size <= t[q].size
  <1> DEFINE D == DOMAIN t
             N == Cardinality(D)
             l == t[p].left
             child == Rights(t)
             d == Depth(over)
             S == {y \in D : l \in over[y] /\ \A z \in D : l \in over[z] => y \in over[z] \/ t[z].size <= t[y].size}
  <1>0. Linked(t) /\ Rooted(t, over) /\ Ordered(t, over) /\ Nil \notin D /\ over \in [D -> SUBSET D]
    BY DEF Tree, Linked, Rooted
  <1>1. N \in Nat
    BY <1>0, FS_CardinalityType DEF Linked
  <1>2. child \in [D -> D \cup {Nil}] /\ \A y \in D : child[y] = t[y].right
    BY <1>0, NodeTypes DEF Rights
  <1>3. d \in [D -> 0..N - 1] /\ \A z \in D \ {Root} : d[z] = d[t[z].parent] + 1
    BY <1>0, <1>1, Depths
  <1>4. ASSUME NEW y \in D, child[y] # Nil
        PROVE  /\ child[y] \in D \ {Root} /\ t[child[y]].parent = y /\ t[y].right = child[y]
               /\ over[child[y]] = over[y] \cup {child[y]}
    <2>1. child[y] \in D /\ t[y].right = child[y]
      BY <1>2, <1>4
    <2>2. t[child[y]].parent = y
      BY <1>0, <1>2, <1>4 DEF Linked
    <2>3. child[y] # Root
      BY <1>0, <2>2, NilElsewhere DEF Linked
    <2>4. over[child[y]] = over[y] \cup {child[y]}
      BY <2>1, <2>2, <2>3, <1>0 DEF Rooted
    <2> QED BY <2>1, <2>2, <2>3, <2>4
  <1>5. ASSUME NEW y \in D, child[y] # Nil PROVE d[child[y]] > d[y]
    <2>1. d[child[y]] = d[y] + 1 /\ d[y] \in Int
      BY <1>4, <1>5, <1>3
    <2> QED BY <2>1
  <1>6. l \in D /\ t[l].parent = p /\ l # Root /\ over[l] = over[p] \cup {l} /\ p \in over[p]
    <2>1. l \in D
      BY <1>0, NodeTypes
    <2>2. t[l].parent = p
      BY <1>0 DEF Linked
    <2>3. l # Root
      BY <2>2, <1>0, NilElsewhere DEF Linked
    <2> QED BY <2>1, <2>2, <2>3, <1>0 DEF Rooted
  <1>7. child[q] = Nil
    <2> HIDE DEF d, child, N, l
    <2>1. N = Cardinality(D) /\ q = Walk(t, l, child)
      BY DEF N, child, l
    <2> QED BY <2>1, <1>0, <1>1, <1>2, <1>3, <1>5, <1>6, WalkEnds
  <1>8. l \in S
    BY <1>6
  <1>9. ASSUME NEW y \in S, child[y] # Nil PROVE child[y] \in S
    <2> DEFINE r == child[y]
    <2>1. y \in D /\ r \in D /\ t[y].right = r /\ over[r] = over[y] \cup {r} /\ l \in over[y]
      BY <1>4, <1>9
    <2>2. t[y].size \in Nat /\ t[r].size \in Nat /\ \A z \in D : t[z].size \in Nat
      BY <2>1, <1>0, NodeTypes
    <2>3. t[r].size > t[y].size
      BY <2>1, <1>0 DEF Ordered
    <2> HIDE DEF r
    <2>4. ASSUME NEW z \in D, l \in over[z] PROVE r \in over[z] \/ t[z].size <= t[r].size
      <3>1. y \in over[z] \/ t[z].size <= t[y].size
        BY <2>4
      <3>2. CASE t[z].size <= t[y].size
        BY <3>2, <2>2, <2>3
      <3>3. CASE y \in over[z] /\ z # y
        <4>1. t[y].left \in over[z] \/ r \in over[z]
          BY <3>3, <2>1, <1>0 DEF Rooted
        <4>2. t[y].left \in over[z] => t[z].size <= t[y].size
          BY <2>1, <1>0 DEF Ordered
        <4> QED BY <4>1, <4>2, <2>2, <2>3
      <3>4. CASE z = y
        BY <3>4, <2>2, <2>3
      <3> QED BY <3>1, <3>2, <3>3, <3>4
    <2>5. r \in S
      BY <2>1, <2>4
    <2> QED BY <2>5 DEF r
  <1>10. q \in S
    <2>1. S \in SUBSET D
      OBVIOUS
    <2> HIDE DEF S, child, l
    <2>2. q = Walk(t, l, child)
      BY DEF child, l
    <2> QED BY <2>1, <2>2, <1>0, <1>1, <1>2, <1>6, <1>8, <1>9, WalkKeeps
  <1>11. q \in D /\ l \in over[q] /\ t[q].right = Nil
    BY <1>2, <1>7, <1>10
  <1>12. over[l] \subseteq over[q]
    BY <1>0, <1>11 DEF Rooted
  <1>13. p \in over[q]
    BY <1>6, <1>12
  <1>14. q # p
    <2>1. l \notin over[p]
      BY <1>0, <1>6 DEF Rooted
    <2> QED BY <2>1, <1>11
  <1>15. q # Root
    <2>1. over[Root] = {Root}
      BY <1>0 DEF Rooted
    <2> QED BY <2>1, <1>13
  <1>16. ASSUME NEW z \in D, l \in over[z] PROVE t[z].size <= t[q].size
    <2>1. q \in over[z] \/ t[z].size <= t[q].size
      BY <1>10, <1>16
    <2>2. CASE q \in over[z] /\ z # q
      <3>1. t[q].left \in over[z] \/ t[q].right \in over[z]
        BY <2>2, <1>0 DEF Rooted
      <3>2. t[q].right \notin over[z]
        BY <1>0, <1>11
      <3> QED BY <3>1, <3>2, <1>0, <1>11 DEF Ordered
    <2>3. CASE z = q
      <3>1. t[q].size \in Nat
        BY <1>0, <1>11, NodeTypes
      <3> QED BY <2>3, <3>1
    <2> QED BY <2>1, <2>2, <2>3
  <1> QED BY <1>11, <1>13, <1>14, <1>15, <1>16

\* p's place suits its predecessor q once q is taken out.
LEMMA PredecessorSuits ==
  ASSUME NEW t, NEW over, Tree(t, over), NEW p \in DOMAIN t \ {Root},
         NEW q \in DOMAIN t \ {Root, p}, t[q].right = Nil, t[p].left \in over[q], p \in over[q],
         \A z \in DOMAIN t : t[p].left \in over[z] => t[z].size <= t[q].size,
         NEW cut, Spliced(cut, t, q), NEW o, o = [z \in DOMAIN t \ {q} |-> over[z] \ {q}]
  PROVE  Suits(cut, o, p, t[q].size)
  <1> DEFINE D == DOMAIN t
             E == D \ {q}
             c == IF t[q].left = Nil THEN t[q].right ELSE t[q].left
             n == t[q].size
  <1>0. Linked(t) /\ Rooted(t, over) /\ Ordered(t, over) /\ over \in [D -> SUBSET D]
    BY DEF Tree, Rooted
  <1>1. \A z \in D : c \in over[z] => q \in over[z]
    BY SpliceFacts
  <1>2. DOMAIN cut = E /\ p \in E
    BY DEF Spliced
  <1>3. \A y \in E : cut[y] = [left |-> IF t[y].left = q THEN c ELSE t[y].left,
                               right |-> IF t[y].right = q THEN c ELSE t[y].right,
                               parent |-> IF t[y].parent = q THEN t[q].parent ELSE t[y].parent,
                               size |-> t[y].size]
    BY DEF Spliced
  <1> HIDE DEF c
  <1>4. ASSUME NEW y \in E
        PROVE  /\ cut[y].left = (IF t[y].left = q THEN c ELSE t[y].left)
               /\ cut[y].right = (IF t[y].right = q THEN c ELSE t[y].right)
               /\ cut[y].size = t[y].size
    <2>1. cut[y] = [left |-> IF t[y].left = q THEN c ELSE t[y].left,
                    right |-> IF t[y].right = q THEN c ELSE t[y].right,
                    parent |-> IF t[y].parent = q THEN t[q].parent ELSE t[y].parent,
                    size |-> t[y].size]
      BY <1>3
    <2> QED BY <2>1
  <1>5. \A z \in E : o[z] = over[z] \ {q}
    OBVIOUS
  <1>6. ASSUME NEW y \in E, NEW z \in E
        PROVE  /\ cut[y].left \in o[z] => t[y].left \in over[z]
               /\ cut[y].right \in o[z] => t[y].right \in over[z]
    BY <1>1, <1>4, <1>5
  <1>7. over[p] \subseteq over[q]
    BY <1>0 DEF Rooted
  <1>8. n \in Nat /\ \A z \in D : t[z].size \in Nat
    BY <1>0, NodeTypes
  <1>9. n <= t[p].size
    BY <1>0 DEF Ordered
  <1>10. ASSUME NEW y \in E
         PROVE  /\ cut[p].left \in o[y] => cut[y].size <= n
                /\ cut[p].right \in o[y] => cut[y].size > n
                /\ cut[y].left \in o[p] => n <= cut[y].size
                /\ cut[y].right \in o[p] => n > cut[y].size
    <2>1. cut[p].left \in o[y] => cut[y].size <= n
      BY <1>2, <1>4, <1>6
    <2>2. cut[p].right \in o[y] => cut[y].size > n
      <3>1. cut[p].right \in o[y] => t[y].size > t[p].size
        BY <1>0, <1>2, <1>6 DEF Ordered
      <3>2. t[y].size > t[p].size => t[y].size > n
        BY <1>8, <1>9
      <3> QED BY <3>1, <3>2, <1>4
    <2>3. cut[y].left \in o[p] => n <= cut[y].size
      <3>1. cut[y].left \in o[p] => t[y].left \in over[q]
        BY <1>2, <1>6, <1>7
      <3> QED BY <3>1, <1>0, <1>4 DEF Ordered
    <2>4. cut[y].right \in o[p] => n > cut[y].size
      <3>1. cut[y].right \in o[p] => t[y].right \in over[q]
        BY <1>2, <1>6, <1>7
      <3> QED BY <3>1, <1>0, <1>4 DEF Ordered
    <2> QED BY <2>1, <2>2, <2>3, <2>4
  <1> QED BY <1>2, <1>10 DEF Suits

\* What remove_tree_node makes of the rest when the predecessor is out.
Takeover(cut, p, q, node) ==
  LET back == Put(Replace(Put(cut, q, node), p, q), q, [cut[p] EXCEPT !.size = node.size])
      moved == [y \in DOMAIN back |->
                  IF y \in {cut[p].left, cut[p].right} THEN [back[y] EXCEPT !.parent = q] ELSE back[y]]
  IN Drop(moved, p)

\* The end of remove_tree_node puts the predecessor in the place of the node.
LEMMA TakeoverRenames ==
  ASSUME NEW cut, Linked(cut), NEW p \in DOMAIN cut \ {Root}, cut[p].parent # p,
         NEW q, q \notin DOMAIN cut, q # Nil, NEW node,
         node = [left |-> node.left, right |-> node.right, parent |-> node.parent, size |-> node.size],
         node.left # p, node.right # p
  PROVE  Renamed(Takeover(cut, p, q, node), cut, p, q, node.size)
  <1> DEFINE D == DOMAIN cut
             w == Put(cut, q, node)
             up == cut[p].parent
             s == Slot(w, up, p, q)
             r == [s EXCEPT ![q].parent = up]
             new == [cut[p] EXCEPT !.size = node.size]
             back == Put(r, q, new)
             moved == [y \in DOMAIN back |->
                         IF y \in {cut[p].left, cut[p].right} THEN [back[y] EXCEPT !.parent = q] ELSE back[y]]
             v == Drop(moved, p)
  <1>0. /\ Plain(cut) /\ Nil \notin D /\ p \in D /\ q # p
        /\ Leads(cut, up, p)
        /\ \A y \in D : cut[y].parent = p <=> y # Nil /\ (cut[p].left = y \/ cut[p].right = y)
        /\ cut[p].left \in D \cup {Nil} /\ cut[p].right \in D \cup {Nil}
    <2>1. Plain(cut) /\ Nil \notin D /\ p \in D /\ q # p
      BY DEF Linked, Node, Plain
    <2>2. Leads(cut, up, p) /\ \A y \in D : cut[y].parent = p <=> y # Nil /\ (cut[p].left = y \/ cut[p].right = y)
      <3> HIDE DEF w, s, r, new, back, moved, v
      <3> QED BY LedTo
    <2> QED BY <2>1, <2>2, NodeTypes
  <1>1. w = [y \in D \cup {q} |-> IF y = q THEN node ELSE cut[y]]
    BY DEF Put
  <1> HIDE DEF w
  <1>2. DOMAIN w = D \cup {q} /\ w[q] = node /\ \A y \in D : w[y] = cut[y]
    BY <1>1
  <1>3. Plain(w)
    <2>1. w = [y \in DOMAIN w |-> w[y]]
      BY <1>1
    <2>2. ASSUME NEW y \in D \cup {q}
          PROVE  w[y] = [left |-> w[y].left, right |-> w[y].right, parent |-> w[y].parent, size |-> w[y].size]
      <3>1. CASE y = q
        BY <3>1, <1>2
      <3>2. CASE y \in D
        <4>1. cut[y] = [left |-> cut[y].left, right |-> cut[y].right, parent |-> cut[y].parent, size |-> cut[y].size]
          BY <3>2, <1>0 DEF Plain
        <4> QED BY <3>2, <4>1, <1>2
      <3> QED BY <3>1, <3>2
    <2> QED BY <2>1, <2>2, <1>2 DEF Plain
  <1>4. Leads(w, up, p) /\ up \in D
    BY <1>0, <1>2 DEF Leads
  <1>5. Takeover(cut, p, q, node) = v
    <2>1. w[p].parent = up
      BY <1>0, <1>2
    <2>2. Replace(w, p, q) = r
      BY <2>1 DEF Replace, Slot
    <2> HIDE DEF r, new
    <2> QED BY <2>2 DEF Takeover, w, new
  <1> HIDE DEF up
  <1>6. /\ DOMAIN s = D \cup {q}
        /\ \A y \in D : s[y] = [left |-> IF cut[y].left = p THEN q ELSE cut[y].left,
                                right |-> IF cut[y].right = p THEN q ELSE cut[y].right,
                                parent |-> cut[y].parent, size |-> cut[y].size]
    <2>1. /\ DOMAIN s = DOMAIN w
          /\ \A y \in DOMAIN w : s[y] = [left |-> IF w[y].left = p THEN q ELSE w[y].left,
                                         right |-> IF w[y].right = p THEN q ELSE w[y].right,
                                         parent |-> w[y].parent, size |-> w[y].size]
      <3> HIDE DEF r, new, back, moved, v
      <3> QED BY <1>3, <1>4, SlotOf
    <2> HIDE DEF s
    <2> QED BY <2>1, <1>2, ZenonT(60), SMTT(30)
  <1> HIDE DEF s
  <1>7. DOMAIN r = D \cup {q} /\ \A y \in D : r[y] = s[y]
    BY <1>6
  <1> HIDE DEF r
  <1>8. back = [y \in D \cup {q} |-> IF y = q THEN new ELSE r[y]]
    BY <1>7 DEF Put
  <1> HIDE DEF back
  <1>9. DOMAIN back = D \cup {q} /\ back[q] = new /\ \A y \in D : back[y] = s[y]
    BY <1>7, <1>8
  <1>10. new = [left |-> cut[p].left, right |-> cut[p].right, parent |-> cut[p].parent, size |-> node.size]
    <2>1. cut[p] = [left |-> cut[p].left, right |-> cut[p].right, parent |-> cut[p].parent, size |-> cut[p].size]
      BY <1>0 DEF Plain
    <2> DEFINE a == cut[p].left
               b == cut[p].right
               d == cut[p].parent
               e == cut[p].size
               k == cut[p]
               n == node.size
    <2>2. k = [left |-> a, right |-> b, parent |-> d, size |-> e] /\ new = [k EXCEPT !.size = n]
      BY <2>1
    <2> HIDE DEF a, b, d, e, k, n, new
    <2>3. new = [left |-> a, right |-> b, parent |-> d, size |-> n]
      BY <2>2
    <2> QED BY <2>3 DEF a, b, d, n
  <1> HIDE DEF new
  <1>11. DOMAIN moved = D \cup {q} /\ moved = [y \in D \cup {q} |-> moved[y]]
    BY <1>9
  <1>12. moved[q] = new
    <2>1. q \notin {cut[p].left, cut[p].right}
      BY <1>0
    <2> QED BY <2>1, <1>9
  <1>13. ASSUME NEW y \in D
         PROVE  moved[y] = [left |-> IF cut[y].left = p THEN q ELSE cut[y].left,
                            right |-> IF cut[y].right = p THEN q ELSE cut[y].right,
                            parent |-> IF cut[y].parent = p THEN q ELSE cut[y].parent,
                            size |-> cut[y].size]
    <2>1. back[y] = [left |-> IF cut[y].left = p THEN q ELSE cut[y].left,
                     right |-> IF cut[y].right = p THEN q ELSE cut[y].right,
                     parent |-> cut[y].parent, size |-> cut[y].size]
      BY <1>6, <1>9
    <2>2. y \in {cut[p].left, cut[p].right} <=> cut[y].parent = p
      BY <1>0
    <2>3. CASE cut[y].parent = p
      <3> DEFINE a == IF cut[y].left = p THEN q ELSE cut[y].left
                 b == IF cut[y].right = p THEN q ELSE cut[y].right
                 d == cut[y].parent
                 e == cut[y].size
                 k == back[y]
      <3>1. k = [left |-> a, right |-> b, parent |-> d, size |-> e]
        BY <2>1
      <3>2. moved[y] = [k EXCEPT !.parent = q]
        BY <2>2, <2>3, <1>9
      <3> DEFINE m == moved[y]
      <3>3. m = [k EXCEPT !.parent = q]
        BY <3>2
      <3> HIDE DEF a, b, d, e, k, m
      <3>4. m = [left |-> a, right |-> b, parent |-> q, size |-> e]
        BY <3>1, <3>3
      <3> QED BY <3>4, <2>3 DEF m, a, b, e
    <2>4. CASE cut[y].parent # p
      <3>1. moved[y] = back[y]
        BY <2>2, <2>4, <1>9
      <3> QED BY <2>1, <2>4, <3>1
    <2> QED BY <2>3, <2>4
  <1> HIDE DEF moved
  <1>14. v = [y \in (D \ {p}) \cup {q} |-> moved[y]]
    <2>1. DOMAIN moved \ {p} = (D \ {p}) \cup {q}
      BY <1>0, <1>11
    <2> QED BY <2>1 DEF Drop
  <1> HIDE DEF v
  <1>15. /\ DOMAIN v = (D \ {p}) \cup {q} /\ v = [y \in DOMAIN v |-> v[y]]
         /\ v[q] = new /\ \A y \in D \ {p} : v[y] = moved[y]
    BY <1>12, <1>14
  <1>16. Renamed(v, cut, p, q, node.size)
    BY <1>10, <1>13, <1>15 DEF Renamed
  <1> QED BY <1>5, <1>16

\* u is a tree, of the nodes of t but p.
Removed(u, t, p) ==
  /\ \E o : Tree(u, o)
  /\ DOMAIN u = DOMAIN t \ {p}
  /\ \A y \in DOMAIN u : u[y].size = t[y].size

\* A node less: the tree stays a search tree, the other nodes keep their sizes.
LEMMA RemoveTree ==
  ASSUME NEW t, NEW over, Tree(t, over), NEW p \in DOMAIN t \ {Root}
  PROVE  Removed(remove_tree_node(t, p), t, p)
  <1> DEFINE u == remove_tree_node(t, p)
  <1>0. Linked(t) /\ Rooted(t, over) /\ Nil \notin DOMAIN t
    BY DEF Tree, Linked
  <1>1. \A y \in DOMAIN t \ {Root} : t[y].parent # y
    <2>1. \A y \in DOMAIN t \ {Root} : y \notin over[t[y].parent] /\ y \in over[y]
      BY <1>0 DEF Rooted
    <2> QED BY <2>1
  <1>2. ASSUME NEW x \in DOMAIN t \ {Root}, t[x].left = Nil \/ t[x].right = Nil, NEW s, s = Splice(t, x)
        PROVE  /\ Spliced(s, t, x) /\ DOMAIN s = DOMAIN t \ {x}
               /\ Tree(s, [z \in DOMAIN t \ {x} |-> over[z] \ {x}])
               /\ \A y \in DOMAIN s : s[y].size = t[y].size
    <2>1. Spliced(s, t, x)
      BY <1>0, <1>1, <1>2, SpliceSpliced
    <2>2. Linked(s)
      BY <1>2, <2>1, SplicedLinked
    <2> DEFINE o == [z \in DOMAIN t \ {x} |-> over[z] \ {x}]
    <2>3. Rooted(s, o) /\ Ordered(s, o)
      BY <1>2, <2>1, SplicedRooted
    <2>4. DOMAIN s = DOMAIN t \ {x}
      BY <2>1 DEF Spliced
    <2>5. ASSUME NEW y \in DOMAIN s PROVE s[y].size = t[y].size
      <3> DEFINE c == IF t[x].left = Nil THEN t[x].right ELSE t[x].left
      <3>1. s[y] = [left |-> IF t[y].left = x THEN c ELSE t[y].left,
                    right |-> IF t[y].right = x THEN c ELSE t[y].right,
                    parent |-> IF t[y].parent = x THEN t[x].parent ELSE t[y].parent,
                    size |-> t[y].size]
        BY <2>1 DEF Spliced
      <3> QED BY <3>1
    <2> HIDE DEF o
    <2>6. Tree(s, o)
      BY <2>2, <2>3 DEF Tree
    <2> QED BY <2>1, <2>4, <2>5, <2>6 DEF o
  <1>3. CASE t[p].left = Nil \/ t[p].right = Nil
    <2>1. u = Splice(t, p)
      BY <1>3 DEF remove_tree_node
    <2> HIDE DEF u
    <2>2. (\E o : Tree(u, o)) /\ DOMAIN u = DOMAIN t \ {p} /\ \A y \in DOMAIN u : u[y].size = t[y].size
      BY <2>1, <1>2, <1>3
    <2>3. Removed(u, t, p)
      BY <2>2 DEF Removed
    <2> QED BY <2>3 DEF u
  <1>4. CASE ~(t[p].left = Nil \/ t[p].right = Nil)
    <2> DEFINE q == Walk(t, t[p].left, Rights(t))
               cut == Splice(t, q)
               o == [z \in DOMAIN t \ {q} |-> over[z] \ {q}]
               node == t[q]
    <2>1. u = Takeover(cut, p, q, node)
      BY <1>4 DEF remove_tree_node, Takeover
    <2>2. /\ q \in DOMAIN t \ {Root, p} /\ t[q].right = Nil
          /\ t[p].left \in over[q] /\ p \in over[q]
          /\ \A z \in DOMAIN t : t[p].left \in over[z] => t[z].size <= t[q].size
      BY <1>4, Predecessor
    <2> HIDE DEF u, q
    <2>3. /\ Spliced(cut, t, q) /\ DOMAIN cut = DOMAIN t \ {q} /\ Tree(cut, o)
          /\ \A y \in DOMAIN cut : cut[y].size = t[y].size
      BY <2>2, <1>2
    <2> HIDE DEF cut
    <2>4. Suits(cut, o, p, t[q].size)
      BY <2>2, <2>3, PredecessorSuits
    <2>5. p \in DOMAIN cut \ {Root} /\ q \notin DOMAIN cut /\ q # Nil
      BY <1>0, <2>2, <2>3
    <2>6. Linked(cut) /\ Rooted(cut, o)
      BY <2>3 DEF Tree
    <2>7. cut[p].parent # p
      <3>1. p \notin o[cut[p].parent] /\ p \in o[p]
        <4> HIDE DEF o
        <4> QED BY <2>5, <2>6 DEF Rooted
      <3> QED BY <3>1
    <2>8. /\ node = [left |-> node.left, right |-> node.right, parent |-> node.parent, size |-> node.size]
          /\ node.size \in Nat /\ node.size > 0
      BY <1>0, <2>2, NodeTypes DEF Node, Linked
    <2>9. node.left # p /\ node.right # p
      <3>1. ASSUME t[p].parent = q PROVE FALSE
        <4>1. over[p] = over[q] \cup {p} /\ p \notin over[q]
          BY <3>1, <1>0 DEF Rooted
        <4> QED BY <4>1, <2>2
      <3> QED BY <3>1, <1>0, <2>2 DEF Linked
    <2>10. t[q].size = node.size
      OBVIOUS
    <2> HIDE DEF node, o
    <2>11. Renamed(u, cut, p, q, node.size)
      BY <2>1, <2>5, <2>6, <2>7, <2>8, <2>9, TakeoverRenames
    <2>12. \E b : Tree(u, b)
      BY <2>3, <2>4, <2>5, <2>8, <2>10, <2>11, RenamedTree
    <2>13. DOMAIN u = DOMAIN t \ {p}
      BY <2>2, <2>3, <2>11 DEF Renamed
    <2>14. ASSUME NEW y \in DOMAIN u PROVE u[y].size = t[y].size
      <3>1. CASE y = q
        <4>1. u[q] = [left |-> cut[p].left, right |-> cut[p].right, parent |-> cut[p].parent, size |-> node.size]
          BY <2>11 DEF Renamed
        <4> QED BY <3>1, <4>1, <2>10
      <3>2. CASE y # q
        <4>1. y \in DOMAIN cut \ {p}
          BY <3>2, <2>3, <2>13
        <4>2. u[y] = [left |-> IF cut[y].left = p THEN q ELSE cut[y].left,
                      right |-> IF cut[y].right = p THEN q ELSE cut[y].right,
                      parent |-> IF cut[y].parent = p THEN q ELSE cut[y].parent,
                      size |-> cut[y].size]
          BY <4>1, <2>11 DEF Renamed
        <4>3. u[y].size = cut[y].size
          BY <4>2
        <4> QED BY <4>1, <4>3, <2>3
      <3> QED BY <3>1, <3>2
    <2>15. Removed(u, t, p)
      BY <2>12, <2>13, <2>14 DEF Removed
    <2> QED BY <2>15 DEF u
  <1> QED BY <1>3, <1>4

-----------------------------------------------------------------------------
(* The best fit.                                                           *)

\* The root is above every node.
LEMMA RootAbove ==
  ASSUME NEW t, NEW over, Linked(t), Rooted(t, over), NEW z \in DOMAIN t
  PROVE  Root \in over[z]
  <1> DEFINE child == Parents(t)
             S == over[z]
  <1>1. Cardinality(DOMAIN t) \in Nat
    BY FS_CardinalityType DEF Linked
  <1>2. child \in [DOMAIN t -> DOMAIN t \cup {Nil}] /\ \A y \in DOMAIN t : child[y] = t[y].parent
    BY NodeTypes DEF Parents
  <1>3. S \in SUBSET DOMAIN t /\ z \in S
    BY DEF Rooted
  <1>4. ASSUME NEW y \in S, child[y] # Nil PROVE child[y] \in S
    <2>1. y \in DOMAIN t /\ y # Root /\ child[y] = t[y].parent
      BY <1>2, <1>3, <1>4 DEF Linked
    <2>2. t[y].parent \in DOMAIN t /\ over[y] = over[t[y].parent] \cup {y} /\ over[y] \subseteq over[z]
      BY <2>1 DEF Rooted, Linked
    <2>3. t[y].parent \in over[t[y].parent]
      BY <2>2 DEF Rooted
    <2> QED BY <2>1, <2>2, <2>3
  <1>5. Walk(t, z, child) = Root
    BY ClimbToRoot
  <1> HIDE DEF child, S
  <1>6. Walk(t, z, child) \in S
    BY <1>1, <1>2, <1>3, <1>4, WalkKeeps
  <1> QED BY <1>5, <1>6 DEF S

\* A step of BestNode from the node s[1], with s[2] the best so far.
Look(t, n, s) ==
  CASE s[1] = Nil -> s
    [] s[1] # Nil /\ t[s[1]].size < n -> <<t[s[1]].right, s[2]>>
    [] OTHER -> <<t[s[1]].left, s[1]>>

Looks(t, n, f) ==
  [k \in 0..Cardinality(DOMAIN t) |->
     IF k = 0 THEN <<t[Root].right, Nil>>
     ELSE LET y == f[k - 1][1] IN
          CASE y = Nil -> f[k - 1]
            [] y # Nil /\ t[y].size < n -> <<t[y].right, f[k - 1][2]>>
            [] OTHER -> <<t[y].left, y>>]

\* What is large enough is at least as large as the best so far, or below s[1].
Hunted(t, over, n, s) ==
  /\ s[1] \in (DOMAIN t \ {Root}) \cup {Nil} /\ s[2] \in (DOMAIN t \ {Root}) \cup {Nil}
  /\ s[2] # Nil => t[s[2]].size >= n
  /\ s[1] # Nil /\ s[2] # Nil => t[s[2]].left \in over[s[1]]
  /\ \A z \in DOMAIN t \ {Root} : t[z].size >= n =>
       \/ s[2] # Nil /\ t[s[2]].size <= t[z].size
       \/ s[1] # Nil /\ s[1] \in over[z]

\* A child of a node.
LEMMA Child ==
  ASSUME NEW t, NEW over, Linked(t), Rooted(t, over), NEW y \in DOMAIN t, NEW c,
         c = t[y].left \/ c = t[y].right, c # Nil
  PROVE  c \in DOMAIN t \ {Root} /\ t[c].parent = y /\ over[c] = over[y] \cup {c}
  <1>1. c \in DOMAIN t
    BY NodeTypes
  <1>2. t[c].parent = y
    BY DEF Linked
  <1>3. c # Root
    BY <1>2, NilElsewhere DEF Linked
  <1> QED BY <1>1, <1>2, <1>3 DEF Rooted

\* A step of BestNode keeps what is large enough in sight.
LEMMA LookHunted ==
  ASSUME NEW t, NEW over, Tree(t, over), NEW n \in Nat, NEW s, Hunted(t, over, n, s), s[1] # Nil
  PROVE  LET u == Look(t, n, s) IN
         Hunted(t, over, n, u) /\ (u[1] # Nil => t[u[1]].parent = s[1])
  <1> DEFINE D == DOMAIN t
             y == s[1]
             b == s[2]
             u == Look(t, n, s)
  <1>0. /\ Linked(t) /\ Rooted(t, over) /\ Nil \notin D /\ over \in [D -> SUBSET D]
        /\ y \in D \ {Root} /\ y # Nil /\ b \in (D \ {Root}) \cup {Nil} /\ t[y].size \in Nat
    BY NodeTypes DEF Tree, Linked, Rooted, Hunted
  <1>1. /\ b # Nil => t[b].size >= n /\ t[b].size \in Nat /\ t[b].left \in over[y] /\ t[y].size <= t[b].size
        /\ \A z \in D \ {Root} : t[z].size >= n => (b # Nil /\ t[b].size <= t[z].size) \/ y \in over[z]
    <2>1. b # Nil => t[b].size >= n /\ t[b].left \in over[y] /\ b \in D
      BY <1>0 DEF Hunted
    <2>2. b # Nil => t[y].size <= t[b].size /\ t[b].size \in Nat
      BY <1>0, <2>1, NodeTypes DEF Tree, Ordered
    <2>3. \A z \in D \ {Root} : t[z].size >= n => (b # Nil /\ t[b].size <= t[z].size) \/ y \in over[z]
      BY DEF Hunted
    <2> QED BY <2>1, <2>2, <2>3
  <1>2. ASSUME NEW z \in D, y \in over[z], z # y
        PROVE  \/ t[y].left \in over[z] /\ t[y].left # Nil /\ t[z].size <= t[y].size
               \/ t[y].right \in over[z] /\ t[y].right # Nil /\ t[z].size > t[y].size
    <2>1. t[y].left \in over[z] \/ t[y].right \in over[z]
      BY <1>0, <1>2 DEF Rooted
    <2>2. Nil \notin over[z]
      BY <1>0
    <2> QED BY <1>0, <2>1, <2>2 DEF Tree, Ordered
  <1>3. \A z \in D : t[z].size \in Nat
    BY <1>0, NodeTypes
  <1>4. CASE t[y].size < n
    <2>1. u = <<t[y].right, b>>
      BY <1>0, <1>4 DEF Look
    <2> HIDE DEF u
    <2>2. u[1] = t[y].right /\ u[2] = b
      BY <2>1
    <2>3. u[1] \in (D \ {Root}) \cup {Nil} /\ (u[1] # Nil => t[u[1]].parent = y /\ over[u[1]] = over[y] \cup {u[1]})
      BY <2>2, <1>0, Child
    <2>4. u[1] # Nil /\ u[2] # Nil => t[u[2]].left \in over[u[1]]
      BY <2>2, <2>3, <1>1
    <2>5. ASSUME NEW z \in D \ {Root}, t[z].size >= n, ~(u[2] # Nil /\ t[u[2]].size <= t[z].size)
          PROVE  u[1] # Nil /\ u[1] \in over[z]
      <3>1. y \in over[z]
        BY <2>2, <2>5, <1>1
      <3>2. z # y
        BY <2>5, <1>4, <1>3
      <3>3. ~(t[z].size <= t[y].size)
        BY <2>5, <1>4, <1>3, <1>0
      <3> QED BY <3>1, <3>2, <3>3, <2>2, <1>2
    <2> HIDE DEF y, b
    <2>6. Hunted(t, over, n, u)
      BY <1>0, <1>1, <2>2, <2>3, <2>4, <2>5 DEF Hunted
    <2> QED BY <2>3, <2>6 DEF u, y
  <1>5. CASE ~(t[y].size < n)
    <2>1. u = <<t[y].left, y>>
      BY <1>0, <1>5 DEF Look
    <2> HIDE DEF u
    <2>2. u[1] = t[y].left /\ u[2] = y
      BY <2>1
    <2>3. u[1] \in (D \ {Root}) \cup {Nil} /\ (u[1] # Nil => t[u[1]].parent = y /\ over[u[1]] = over[y] \cup {u[1]})
      BY <2>2, <1>0, Child
    <2>4. u[1] # Nil => t[u[2]].left \in over[u[1]]
      BY <2>2, <2>3
    <2>5. ASSUME NEW z \in D \ {Root}, t[z].size >= n, ~(t[y].size <= t[z].size)
          PROVE  u[1] # Nil /\ u[1] \in over[z]
      <3>1. y \in over[z]
        BY <2>5, <1>1, <1>3, <1>0
      <3>2. z # y
        BY <2>5, <1>3
      <3>3. ~(t[z].size > t[y].size)
        BY <2>5, <1>3, <1>0
      <3> QED BY <3>1, <3>2, <3>3, <2>2, <1>2
    <2>6. t[y].size >= n
      BY <1>0, <1>5
    <2> HIDE DEF y, b
    <2>7. Hunted(t, over, n, u)
      BY <1>0, <2>2, <2>3, <2>4, <2>5, <2>6 DEF Hunted
    <2> QED BY <2>3, <2>7 DEF u, y
  <1> QED BY <1>4, <1>5

Looked(f, t, n, N) ==
  /\ BestNode(t, n) = f[N][2] /\ f[0] = <<t[Root].right, Nil>>
  /\ \A k \in 1..N : f[k] = Look(t, n, f[k - 1])

\* The recursion of BestNode, as a function with its equations.
LEMMA LooksRun ==
  ASSUME NEW t, Linked(t), NEW n \in Nat, NEW N \in Nat, N = Cardinality(DOMAIN t)
  PROVE  \E f : Looked(f, t, n, N)
  <1> DEFINE E == DOMAIN t \cup {Nil}
             V == E \X E
             G == [x \in (1..N) \X V |-> Look(t, n, x[2])]
             v0 == <<t[Root].right, Nil>>
  <1>0. v0 \in V
    BY NodeTypes DEF Linked
  <1>1. ASSUME NEW i \in 1..N, NEW v \in V PROVE G[<<i, v>>] = Look(t, n, v) /\ G[<<i, v>>] \in V
    <2>1. G[<<i, v>>] = Look(t, n, v)
      OBVIOUS
    <2>2. v[1] \in E /\ v[2] \in E
      OBVIOUS
    <2>3. Look(t, n, v) \in V
      <3>1. CASE v[1] = Nil
        BY <3>1 DEF Look
      <3>2. CASE v[1] # Nil
        <4>1. v[1] \in DOMAIN t /\ t[v[1]].left \in E /\ t[v[1]].right \in E
          BY <3>2, <2>2, NodeTypes
        <4>2. CASE t[v[1]].size < n
          BY <4>1, <4>2, <3>2, <2>2 DEF Look
        <4>3. CASE ~(t[v[1]].size < n)
          BY <4>1, <4>3, <3>2, <2>2 DEF Look
        <4> QED BY <4>2, <4>3
      <3> QED BY <3>1, <3>2
    <2> QED BY <2>1, <2>3
  <1> HIDE DEF G, v0, V
  <1>2. StaysIn(G, N, V)
    BY <1>1, Zenon DEF StaysIn
  <1>3. PICK f \in [0..N -> V] : Carries(f, v0, G, N)
    BY <1>0, <1>2, PrimRec
  <1>4. f[0] = v0 /\ \A k \in 1..N : f[k] = Look(t, n, f[k - 1])
    <2>1. \A k \in 1..N : k - 1 \in 0..N
      OBVIOUS
    <2> QED BY <2>1, <1>1, <1>3, ZenonT(60), SMTT(30) DEF Carries
  <1>5. f = Looks(t, n, f)
    <2>1. \A k \in 0..N : k # 0 => k \in 1..N
      OBVIOUS
    <2> QED BY <2>1, <1>4 DEF Looks, Look, v0
  <1> DEFINE h == CHOOSE g : g = Looks(t, n, g)
  <1>6. BestNode(t, n) = h[N][2]
    BY DEF BestNode, Looks
  <1>7. h = Looks(t, n, h)
    BY <1>5
  <1> HIDE DEF h
  <1>8. h[0] = v0 /\ \A k \in 1..N : h[k] = Look(t, n, h[k - 1])
    <2>1. \A k \in 1..N : k \in 0..N /\ k # 0
      OBVIOUS
    <2>2. 0 \in 0..N
      OBVIOUS
    <2> QED BY <2>1, <2>2, <1>7, Zenon DEF Looks, Look, v0
  <1> QED BY <1>6, <1>8 DEF v0, Looked

\* BestNode returns a smallest of the nodes that are large enough.
LEMMA BestIsSmallest ==
  ASSUME NEW t, NEW over, Tree(t, over), NEW n \in Nat
  PROVE  LET b == BestNode(t, n) IN
         IF b = Nil THEN \A z \in DOMAIN t \ {Root} : t[z].size < n
         ELSE /\ b \in DOMAIN t \ {Root} /\ t[b].size >= n
              /\ \A z \in DOMAIN t \ {Root} : t[z].size >= n => t[b].size <= t[z].size
  <1> DEFINE D == DOMAIN t
             N == Cardinality(D)
             d == Depth(over)
             v0 == <<t[Root].right, Nil>>
             r == t[Root].right
  <1>0. Linked(t) /\ Rooted(t, over) /\ Root \in D /\ Nil \notin D /\ over \in [D -> SUBSET D]
    BY DEF Tree, Linked, Rooted
  <1>1. N \in Nat
    BY <1>0, FS_CardinalityType DEF Linked
  <1>2. d \in [D -> 0..N - 1] /\ \A z \in D \ {Root} : d[z] = d[t[z].parent] + 1
    BY <1>0, <1>1, Depths
  <1>30. PICK f : Looked(f, t, n, N)
    BY <1>0, <1>1, LooksRun
  <1>3. BestNode(t, n) = f[N][2] /\ f[0] = v0 /\ \A k \in 1..N : f[k] = Look(t, n, f[k - 1])
    BY <1>30 DEF Looked
  <1> DEFINE K == {k \in 0..N : Hunted(t, over, n, f[k]) /\ (f[k][1] # Nil => d[f[k][1]] > k)}
  <1> HIDE DEF d, N
  <1>4. 0 \in K
    <2>1. v0[1] = r /\ v0[2] = Nil
      OBVIOUS
    <2>2. r \in (D \ {Root}) \cup {Nil} /\ (r # Nil => t[r].parent = Root)
      BY <1>0, Child
    <2>3. ASSUME NEW z \in D \ {Root} PROVE r # Nil /\ r \in over[z]
      <3>1. Root \in over[z] /\ Root # z
        BY <1>0, RootAbove
      <3>2. t[Root].left \in over[z] \/ r \in over[z]
        BY <3>1, <1>0 DEF Rooted
      <3>3. t[Root].left = Nil /\ Nil \notin over[z]
        BY <1>0 DEF Linked
      <3> QED BY <3>2, <3>3
    <2> HIDE DEF v0, r
    <2>4. Hunted(t, over, n, v0)
      BY <2>1, <2>2, <2>3 DEF Hunted
    <2>5. r # Nil => d[r] > 0
      <3>1. d[Root] \in 0..N - 1
        BY <1>0, <1>2
      <3>2. r # Nil => d[r] = d[Root] + 1
        BY <2>2, <1>2
      <3> QED BY <3>1, <3>2, <1>1
    <2> QED BY <2>1, <2>4, <2>5, <1>1, <1>3
  <1>5. ASSUME NEW k \in 1..N, k - 1 \in K PROVE k \in K
    <2> DEFINE s == f[k - 1]
               u == f[k]
    <2>1. /\ Hunted(t, over, n, s) /\ (s[1] # Nil => d[s[1]] > k - 1) /\ u = Look(t, n, s) /\ k \in 0..N
          /\ (s[1] # Nil => s[1] \in D)
      BY <1>3, <1>5 DEF Hunted
    <2> HIDE DEF s, u
    <2>2. CASE s[1] = Nil
      <3>1. u = s
        BY <2>1, <2>2 DEF Look
      <3> QED BY <3>1, <2>1, <2>2 DEF u
    <2>3. CASE s[1] # Nil
      <3>1. Hunted(t, over, n, u) /\ (u[1] # Nil => t[u[1]].parent = s[1])
        BY <2>1, <2>3, LookHunted
      <3>2. u[1] # Nil => u[1] \in D \ {Root}
        BY <3>1 DEF Hunted
      <3>3. u[1] # Nil => d[u[1]] = d[s[1]] + 1
        BY <3>1, <3>2, <1>2
      <3>4. d[s[1]] \in Int /\ d[s[1]] > k - 1
        BY <2>1, <2>3, <1>2
      <3>5. u[1] # Nil => d[u[1]] > k
        BY <3>3, <3>4
      <3> QED BY <2>1, <3>1, <3>5 DEF u
    <2> QED BY <2>2, <2>3
  <1>6. N \in K
    <2> HIDE DEF K
    <2>1. \A k \in 0..N : k \in K
      BY <1>1, <1>4, <1>5, Climbs
    <2> QED BY <2>1, <1>1
  <1> DEFINE s == f[N]
             b == BestNode(t, n)
  <1>7. Hunted(t, over, n, s) /\ b = s[2] /\ (s[1] # Nil => d[s[1]] > N)
    BY <1>3, <1>6
  <1> HIDE DEF s, b, K
  <1>8. s[1] = Nil
    <2>1. s[1] # Nil => s[1] \in D
      BY <1>7 DEF Hunted
    <2>2. s[1] # Nil => d[s[1]] \in 0..N - 1
      BY <2>1, <1>2
    <2> QED BY <2>2, <1>1, <1>7
  <1>9. \A z \in D : t[z].size \in Nat
    BY <1>0, NodeTypes
  <1>10. CASE b = Nil
    <2>1. \A z \in D \ {Root} : ~(t[z].size >= n)
      BY <1>7, <1>8, <1>10 DEF Hunted
    <2>2. \A z \in D \ {Root} : t[z].size < n
      BY <2>1, <1>9
    <2> QED BY <2>2, <1>10 DEF b
  <1>11. CASE b # Nil
    <2>1. b \in D \ {Root} /\ t[b].size >= n /\ \A z \in D \ {Root} : t[z].size >= n => t[b].size <= t[z].size
      BY <1>7, <1>8, <1>11 DEF Hunted
    <2> QED BY <2>1, <1>11 DEF b
  <1> QED BY <1>10, <1>11

-----------------------------------------------------------------------------
(* The lists and the tree index the free chunks.                           *)

\* fs is a size for each free chunk.
Sized(fs) == DOMAIN fs \in SUBSET Nat /\ fs \in [DOMAIN fs -> Nat \ {0}]

Listed(normal, fs) ==
  /\ normal \in [1..NormalMax - 1 -> Seq(Nat)]
  /\ \A n \in 1..NormalMax - 1 :
       Distinct(normal[n]) /\ \A x : Occurs(normal[n], x) <=> x \in DOMAIN fs /\ fs[x] = n

Grown(t, fs) ==
  /\ \E over : Tree(t, over)
  /\ DOMAIN t = {Root} \cup {x \in DOMAIN fs : fs[x] >= NormalMax}
  /\ \A x \in DOMAIN t \ {Root} : t[x].size = fs[x]

Whole(h) == h = [chunk |-> h.chunk, normal |-> h.normal, tree |-> h.tree]

Index(h, fs) == Whole(h) /\ Sized(fs) /\ Listed(h.normal, fs) /\ Grown(h.tree, fs)

\* A function without one of its arguments.
LEMMA DropAt ==
  ASSUME NEW f, NEW x
  PROVE  /\ DOMAIN Drop(f, x) = DOMAIN f \ {x} /\ \A y \in DOMAIN f : y # x => Drop(f, x)[y] = f[y]
         /\ Drop(f, x) = [y \in DOMAIN f \ {x} |-> Drop(f, x)[y]]
  BY DEF Drop

\* Sizes without one of the chunks.
LEMMA DropSized ==
  ASSUME NEW fs, Sized(fs), NEW x
  PROVE  Sized(Drop(fs, x))
  <1> DEFINE gs == Drop(fs, x)
  <1>1. DOMAIN gs = DOMAIN fs \ {x} /\ (\A y \in DOMAIN fs : y # x => gs[y] = fs[y]) /\ gs = [y \in DOMAIN fs \ {x} |-> gs[y]]
    BY DropAt
  <1> HIDE DEF gs
  <1>2. Sized(gs)
    BY <1>1 DEF Sized
  <1> QED BY <1>2 DEF gs

\* Sizes with one more chunk.
LEMMA PutSized ==
  ASSUME NEW fs, Sized(fs), NEW x \in Nat, NEW n \in Nat \ {0}
  PROVE  Sized(Put(fs, x, n))
  <1> DEFINE gs == Put(fs, x, n)
  <1>1. /\ DOMAIN gs = DOMAIN fs \cup {x} /\ gs[x] = n /\ (\A y \in DOMAIN fs : y # x => gs[y] = fs[y])
        /\ gs = [y \in DOMAIN fs \cup {x} |-> gs[y]]
    BY DEF Put
  <1> HIDE DEF gs
  <1>2. ASSUME NEW y \in DOMAIN fs \cup {x} PROVE gs[y] \in Nat \ {0}
    BY <1>1 DEF Sized
  <1>3. Sized(gs)
    BY <1>1, <1>2 DEF Sized
  <1> QED BY <1>3 DEF gs

\* A chunk less in its list.
LEMMA DropListed ==
  ASSUME NEW normal, NEW fs, Listed(normal, fs), NEW x \in DOMAIN fs, NEW n \in 1..NormalMax - 1, fs[x] = n,
         NEW s \in Seq(Nat), Distinct(s), \A z : Occurs(s, z) <=> Occurs(normal[n], z) /\ z # x
  PROVE  Listed([normal EXCEPT ![n] = s], Drop(fs, x))
  <1> DEFINE new == [normal EXCEPT ![n] = s]
             gs == Drop(fs, x)
  <1>1. DOMAIN gs = DOMAIN fs \ {x} /\ \A y \in DOMAIN fs : y # x => gs[y] = fs[y]
    BY DropAt
  <1>2. new \in [1..NormalMax - 1 -> Seq(Nat)] /\ new[n] = s /\ \A m \in 1..NormalMax - 1 : m # n => new[m] = normal[m]
    BY DEF Listed
  <1> HIDE DEF new, gs
  <1>3. ASSUME NEW m \in 1..NormalMax - 1
        PROVE Distinct(new[m]) /\ \A z : Occurs(new[m], z) <=> z \in DOMAIN gs /\ gs[z] = m
    <2>0. Distinct(normal[m]) /\ \A z : Occurs(normal[m], z) <=> z \in DOMAIN fs /\ fs[z] = m
      BY DEF Listed
    <2>1. CASE m = n
      BY <2>0, <2>1, <1>1, <1>2
    <2>2. CASE m # n
      <3>1. fs[x] # m
        BY <2>2
      <3>2. new[m] = normal[m]
        BY <2>2, <1>2
      <3> QED BY <2>0, <3>1, <3>2, <1>1
    <2> QED BY <2>1, <2>2
  <1>4. Listed(new, gs)
    BY <1>2, <1>3 DEF Listed
  <1> QED BY <1>4 DEF new, gs

\* A small free chunk enters the list of its size.
LEMMA PutListed ==
  ASSUME NEW normal, NEW fs, Listed(normal, fs), NEW x \in Nat, x \notin DOMAIN fs, NEW n \in 1..NormalMax - 1
  PROVE  Listed([normal EXCEPT ![n] = <<x>> \o @], Put(fs, x, n))
  <1> DEFINE s == normal[n]
             r == <<x>> \o s
             new == [normal EXCEPT ![n] = r]
             gs == Put(fs, x, n)
  <1>1. DOMAIN gs = DOMAIN fs \cup {x} /\ gs[x] = n /\ \A y \in DOMAIN fs : y # x => gs[y] = fs[y]
    BY DEF Put
  <1>0. s \in Seq(Nat) /\ Distinct(s) /\ ~Occurs(s, x)
    BY DEF Listed
  <1> HIDE DEF s
  <1>2. r = With(s, 1, x)
    BY <1>0 DEF With
  <1>3. r \in Seq(Nat) /\ Distinct(r) /\ \A z : Occurs(r, z) <=> Occurs(s, z) \/ z = x
    <2>1. 1 \in 1..Len(s) + 1
      BY <1>0
    <2> HIDE DEF r
    <2> QED BY <2>1, <1>0, <1>2, InsertDistinct
  <1> HIDE DEF r
  <1>4. new \in [1..NormalMax - 1 -> Seq(Nat)] /\ new[n] = r /\ \A m \in 1..NormalMax - 1 : m # n => new[m] = normal[m]
    BY <1>3 DEF Listed
  <1> HIDE DEF new, gs
  <1>5. ASSUME NEW m \in 1..NormalMax - 1
        PROVE Distinct(new[m]) /\ \A z : Occurs(new[m], z) <=> z \in DOMAIN gs /\ gs[z] = m
    <2>0. Distinct(normal[m]) /\ \A z : Occurs(normal[m], z) <=> z \in DOMAIN fs /\ fs[z] = m
      BY DEF Listed
    <2>1. CASE m = n
      <3>1. \A z : Occurs(s, z) <=> z \in DOMAIN fs /\ fs[z] = n
        BY <2>0, <2>1 DEF s
      <3> QED BY <2>1, <3>1, <1>1, <1>3, <1>4
    <2>2. CASE m # n
      <3>2. new[m] = normal[m]
        BY <2>2, <1>4
      <3>3. gs[x] # m
        BY <2>2, <1>1
      <3> QED BY <2>0, <3>2, <3>3, <1>1
    <2> QED BY <2>1, <2>2
  <1>6. Listed(new, gs)
    BY <1>4, <1>5 DEF Listed
  <1> QED BY <1>6 DEF new, gs, r, s

\* A chunk that is not of a list's size leaves the lists as they are.
LEMMA BigListed ==
  ASSUME NEW normal, NEW fs, Listed(normal, fs), NEW x, NEW n \in Nat, n >= NormalMax
  PROVE  /\ x \notin DOMAIN fs => Listed(normal, Put(fs, x, n))
         /\ x \in DOMAIN fs /\ fs[x] = n => Listed(normal, Drop(fs, x))
  <1>0. \A m \in 1..NormalMax - 1 : m # n
    BY HeapAssumption DEF HeapAssumption
  <1>1. ASSUME x \notin DOMAIN fs PROVE Listed(normal, Put(fs, x, n))
    <2> DEFINE gs == Put(fs, x, n)
    <2>1. DOMAIN gs = DOMAIN fs \cup {x} /\ gs[x] = n /\ \A y \in DOMAIN fs : y # x => gs[y] = fs[y]
      BY DEF Put
    <2> HIDE DEF gs
    <2>2. ASSUME NEW m \in 1..NormalMax - 1
          PROVE \A z : z \in DOMAIN gs /\ gs[z] = m <=> z \in DOMAIN fs /\ fs[z] = m
      BY <1>0, <1>1, <2>1
    <2>3. Listed(normal, gs)
      BY <2>2 DEF Listed
    <2> QED BY <2>3 DEF gs
  <1>2. ASSUME x \in DOMAIN fs, fs[x] = n PROVE Listed(normal, Drop(fs, x))
    <2> DEFINE gs == Drop(fs, x)
    <2>1. DOMAIN gs = DOMAIN fs \ {x} /\ \A y \in DOMAIN fs : y # x => gs[y] = fs[y]
      BY DropAt
    <2> HIDE DEF gs
    <2>2. ASSUME NEW m \in 1..NormalMax - 1
          PROVE \A z : z \in DOMAIN gs /\ gs[z] = m <=> z \in DOMAIN fs /\ fs[z] = m
      BY <1>0, <1>2, <2>1
    <2>3. Listed(normal, gs)
      BY <2>2 DEF Listed
    <2> QED BY <2>3 DEF gs
  <1> QED BY <1>1, <1>2

\* A chunk that is too small for the tree leaves it as it is.
LEMMA SmallGrown ==
  ASSUME NEW t, NEW fs, Sized(fs), Grown(t, fs), NEW x, NEW n \in Nat, n < NormalMax
  PROVE  /\ x \notin DOMAIN fs => Grown(t, Put(fs, x, n))
         /\ x \in DOMAIN fs /\ fs[x] = n => Grown(t, Drop(fs, x))
  <1>0. NormalMax \in Nat /\ ~(n >= NormalMax)
    BY HeapAssumption DEF HeapAssumption
  <1>1. ASSUME x \notin DOMAIN fs PROVE Grown(t, Put(fs, x, n))
    <2> DEFINE gs == Put(fs, x, n)
    <2>1. DOMAIN gs = DOMAIN fs \cup {x} /\ gs[x] = n /\ \A y \in DOMAIN fs : y # x => gs[y] = fs[y]
      BY DEF Put
    <2> HIDE DEF gs
    <2>2. {y \in DOMAIN gs : gs[y] >= NormalMax} = {y \in DOMAIN fs : fs[y] >= NormalMax}
      BY <1>0, <1>1, <2>1
    <2>3. ASSUME NEW y \in DOMAIN t \ {Root} PROVE t[y].size = gs[y]
      <3>1. y \in DOMAIN fs /\ t[y].size = fs[y]
        BY DEF Grown
      <3> QED BY <3>1, <1>1, <2>1
    <2>4. Grown(t, gs)
      BY <2>2, <2>3 DEF Grown
    <2> QED BY <2>4 DEF gs
  <1>2. ASSUME x \in DOMAIN fs, fs[x] = n PROVE Grown(t, Drop(fs, x))
    <2> DEFINE gs == Drop(fs, x)
    <2>1. DOMAIN gs = DOMAIN fs \ {x} /\ \A y \in DOMAIN fs : y # x => gs[y] = fs[y]
      BY DropAt
    <2> HIDE DEF gs
    <2>2. {y \in DOMAIN gs : gs[y] >= NormalMax} = {y \in DOMAIN fs : fs[y] >= NormalMax}
      BY <1>0, <1>2, <2>1
    <2>3. ASSUME NEW y \in DOMAIN t \ {Root} PROVE t[y].size = gs[y]
      <3>1. y \in DOMAIN fs /\ fs[y] >= NormalMax /\ t[y].size = fs[y]
        BY DEF Grown
      <3> QED BY <3>1, <1>0, <1>2, <2>1
    <2>4. Grown(t, gs)
      BY <2>2, <2>3 DEF Grown
    <2> QED BY <2>4 DEF gs
  <1> QED BY <1>1, <1>2

\* A big free chunk leaves the tree.
LEMMA DropGrown ==
  ASSUME NEW t, NEW fs, Sized(fs), Grown(t, fs), NEW x \in DOMAIN fs, fs[x] >= NormalMax
  PROVE  Grown(remove_tree_node(t, x), Drop(fs, x))
  <1> DEFINE u == remove_tree_node(t, x)
             gs == Drop(fs, x)
  <1>1. DOMAIN gs = DOMAIN fs \ {x} /\ \A y \in DOMAIN fs : y # x => gs[y] = fs[y]
    BY DropAt
  <1>2. PICK over : Tree(t, over)
    BY DEF Grown
  <1>3. x \in DOMAIN t \ {Root}
    BY DEF Grown, Sized, Root
  <1>4. (\E o : Tree(u, o)) /\ DOMAIN u = DOMAIN t \ {x} /\ \A y \in DOMAIN u : u[y].size = t[y].size
    <2>1. Removed(u, t, x)
      BY <1>2, <1>3, RemoveTree
    <2> HIDE DEF u
    <2> QED BY <2>1 DEF Removed
  <1> HIDE DEF u, gs
  <1>5. DOMAIN u = {Root} \cup {y \in DOMAIN gs : gs[y] >= NormalMax}
    BY <1>1, <1>3, <1>4 DEF Grown
  <1>6. ASSUME NEW y \in DOMAIN u \ {Root} PROVE u[y].size = gs[y]
    <2>1. y \in DOMAIN t \ {Root} /\ y # x /\ u[y].size = t[y].size
      BY <1>4
    <2>2. t[y].size = fs[y] /\ y \in DOMAIN fs
      BY <2>1 DEF Grown
    <2> QED BY <2>1, <2>2, <1>1
  <1>7. Grown(u, gs)
    BY <1>4, <1>5, <1>6 DEF Grown
  <1> QED BY <1>7 DEF u, gs

\* A big free chunk enters the tree.
LEMMA PutGrown ==
  ASSUME NEW t, NEW fs, Sized(fs), Grown(t, fs), NEW x \in Nat, x \notin DOMAIN fs, NEW n \in Nat, n >= NormalMax
  PROVE  Grown(insert_tree_node(t, x, n), Put(fs, x, n))
  <1> DEFINE u == insert_tree_node(t, x, n)
             gs == Put(fs, x, n)
  <1>1. DOMAIN gs = DOMAIN fs \cup {x} /\ gs[x] = n /\ \A y \in DOMAIN fs : y # x => gs[y] = fs[y]
    BY DEF Put
  <1>2. PICK over : Tree(t, over)
    BY DEF Grown
  <1>3. x \notin DOMAIN t /\ x # Nil /\ x # Root
    BY DEF Grown, Nil, Root
  <1>30. n > 0
    BY HeapAssumption DEF HeapAssumption
  <1>4. (\E o : Tree(u, o)) /\ DOMAIN u = DOMAIN t \cup {x} /\ u[x].size = n /\ \A y \in DOMAIN t : u[y].size = t[y].size
    <2>1. Inserted(u, t, x, n)
      BY <1>2, <1>3, <1>30, InsertTree
    <2> HIDE DEF u
    <2> QED BY <2>1 DEF Inserted
  <1> HIDE DEF u, gs
  <1>5. DOMAIN u = {Root} \cup {y \in DOMAIN gs : gs[y] >= NormalMax}
    BY <1>1, <1>3, <1>4 DEF Grown
  <1>6. ASSUME NEW y \in DOMAIN u \ {Root} PROVE u[y].size = gs[y]
    <2>1. CASE y = x
      BY <2>1, <1>1, <1>4
    <2>2. CASE y # x
      <3>1. y \in DOMAIN t \ {Root} /\ u[y].size = t[y].size
        BY <2>2, <1>4
      <3>2. t[y].size = fs[y] /\ y \in DOMAIN fs
        BY <3>1 DEF Grown
      <3> QED BY <2>2, <3>1, <3>2, <1>1
    <2> QED BY <2>1, <2>2
  <1>7. Grown(u, gs)
    BY <1>4, <1>5, <1>6 DEF Grown
  <1> QED BY <1>7 DEF u, gs

\* A heap with other headers, lists or tree.
LEMMA Refit ==
  ASSUME NEW h, Whole(h), NEW v
  PROVE  /\ [h EXCEPT !.chunk = v] = [chunk |-> v, normal |-> h.normal, tree |-> h.tree]
         /\ [h EXCEPT !.normal = v] = [chunk |-> h.chunk, normal |-> v, tree |-> h.tree]
         /\ [h EXCEPT !.tree = v] = [chunk |-> h.chunk, normal |-> h.normal, tree |-> v]
  <1> DEFINE a == h.chunk
             b == h.normal
             c == h.tree
  <1>1. h = [chunk |-> a, normal |-> b, tree |-> c]
    BY DEF Whole
  <1> HIDE DEF a, b, c
  <1>2. /\ [h EXCEPT !.chunk = v] = [chunk |-> v, normal |-> b, tree |-> c]
        /\ [h EXCEPT !.normal = v] = [chunk |-> a, normal |-> v, tree |-> c]
        /\ [h EXCEPT !.tree = v] = [chunk |-> a, normal |-> b, tree |-> v]
    BY <1>1
  <1> QED BY <1>2 DEF a, b, c

\* The index does not depend on the headers.
LEMMA Reheaded ==
  ASSUME NEW h, NEW fs, Index(h, fs), NEW c, NEW u, u = [h EXCEPT !.chunk = c]
  PROVE  Index(u, fs) /\ u.chunk = c
  <1>1. u = [chunk |-> c, normal |-> h.normal, tree |-> h.tree]
    BY Refit DEF Index
  <1>2. u.chunk = c /\ u.normal = h.normal /\ u.tree = h.tree
    BY <1>1
  <1> QED BY <1>1, <1>2 DEF Index, Whole

\* unlink_hmu takes a free chunk out of the index.
LEMMA UnlinkIndexed ==
  ASSUME NEW h, NEW fs, Index(h, fs), NEW x \in DOMAIN fs, h.chunk[x].size = fs[x]
  PROVE  LET u == unlink_hmu(h, x) IN Index(u, Drop(fs, x)) /\ u.chunk = h.chunk
  <1> DEFINE u == unlink_hmu(h, x)
             n == fs[x]
             s == h.normal[n]
             found == {i \in DOMAIN s : s[i] = x}
             gs == Drop(fs, x)
  <1>0. Sized(fs) /\ Listed(h.normal, fs) /\ Grown(h.tree, fs) /\ Whole(h) /\ n \in Nat \ {0} /\ NormalMax \in Nat
    BY HeapAssumption DEF HeapAssumption, Index, Sized
  <1>1. Sized(gs)
    BY <1>0, DropSized
  <1>2. CASE n < NormalMax
    <2>1. n \in 1..NormalMax - 1
      BY <1>0, <1>2
    <2>2. s \in Seq(Nat) /\ Distinct(s) /\ Occurs(s, x)
      BY <1>0, <2>1 DEF Listed
    <2>3. DOMAIN s = 1..Len(s) /\ Len(s) \in Nat
      BY <2>2
    <2>4. found \in SUBSET Nat /\ found # {}
      <3> HIDE DEF s
      <3> QED BY <2>2, <2>3 DEF Occurs
    <2> DEFINE k == Min(found)
               r == RemoveAt(s, k)
    <2>5. k \in found
      <3>1. \E i \in found : \A j \in found : i <= j
        <4> HIDE DEF found
        <4> QED BY <2>4, Least
      <3> HIDE DEF found
      <3> QED BY <3>1 DEF Min
    <2>6. k \in 1..Len(s) /\ s[k] = x
      <3> HIDE DEF k, s
      <3> QED BY <2>3, <2>5
    <2>7. u = [h EXCEPT !.normal[n] = r]
      <3>1. HMU_IS_FC_NORMAL(n)
        BY <1>2 DEF HMU_IS_FC_NORMAL
      <3>2. h.chunk[x].size = n
        OBVIOUS
      <3> HIDE DEF n
      <3> QED BY <3>1, <3>2, <2>4 DEF unlink_hmu
    <2> HIDE DEF k, found, u
    <2>8. r = Without(s, k)
      BY DEF RemoveAt, Without
    <2>9. r \in Seq(Nat) /\ Distinct(r) /\ \A z : Occurs(r, z) <=> Occurs(s, z) /\ z # s[k]
      <3> HIDE DEF r, s
      <3> QED BY <2>2, <2>6, <2>8, RemoveDistinct
    <2> HIDE DEF r
    <2> DEFINE new == [h.normal EXCEPT ![n] = r]
    <2>10. Listed(new, gs)
      <3>1. \A z : Occurs(r, z) <=> Occurs(h.normal[n], z) /\ z # x
        BY <2>6, <2>9
      <3> HIDE DEF n
      <3>2. fs[x] = n
        BY DEF n
      <3> QED BY <1>0, <2>1, <2>9, <3>1, <3>2, DropListed
    <2>11. Grown(h.tree, gs)
      BY <1>0, <1>2, SmallGrown
    <2>12. u = [h EXCEPT !.normal = new]
      BY <2>7
    <2> HIDE DEF new, n, s
    <2>13. u = [chunk |-> h.chunk, normal |-> new, tree |-> h.tree]
      BY <2>12, <1>0, Refit
    <2>14. u.chunk = h.chunk /\ u.normal = new /\ u.tree = h.tree
      BY <2>13
    <2> HIDE DEF gs
    <2>15. Index(u, gs)
      BY <2>10, <2>11, <2>13, <2>14, <1>1 DEF Index, Whole
    <2> QED BY <2>14, <2>15 DEF u, gs
  <1>3. CASE ~(n < NormalMax)
    <2>1. n >= NormalMax
      BY <1>0, <1>3
    <2> DEFINE new == remove_tree_node(h.tree, x)
    <2>2. u = [h EXCEPT !.tree = new]
      <3>1. ~HMU_IS_FC_NORMAL(n)
        BY <1>3 DEF HMU_IS_FC_NORMAL
      <3>2. h.chunk[x].size = n
        OBVIOUS
      <3> HIDE DEF n
      <3> QED BY <3>1, <3>2 DEF unlink_hmu
    <2>3. Grown(new, gs)
      BY <1>0, <2>1, DropGrown
    <2>4. Listed(h.normal, gs)
      BY <1>0, <2>1, BigListed
    <2> HIDE DEF new, u
    <2>5. u = [chunk |-> h.chunk, normal |-> h.normal, tree |-> new]
      BY <2>2, <1>0, Refit
    <2>6. u.chunk = h.chunk /\ u.normal = h.normal /\ u.tree = new
      BY <2>5
    <2> HIDE DEF gs
    <2>7. Index(u, gs)
      BY <2>3, <2>4, <2>5, <2>6, <1>1 DEF Index, Whole
    <2> QED BY <2>6, <2>7 DEF u, gs
  <1> QED BY <1>2, <1>3

\* gci_add_fc enters a free chunk into the index and writes its header.
LEMMA AddIndexed ==
  ASSUME NEW h, NEW fs, Index(h, fs), NEW x \in Nat, x \notin DOMAIN fs, NEW n \in Nat \ {0}, NEW pin
  PROVE  LET u == gci_add_fc(h, x, n, pin) IN
         /\ Index(u, Put(fs, x, n))
         /\ u.chunk = Put(h.chunk, x, [ut |-> "fc", size |-> n,
                                       pin |-> IF x \in DOMAIN h.chunk THEN h.chunk[x].pin ELSE pin])
  <1> DEFINE u == gci_add_fc(h, x, n, pin)
             c == Put(h.chunk, x, [ut |-> "fc", size |-> n,
                                   pin |-> IF x \in DOMAIN h.chunk THEN h.chunk[x].pin ELSE pin])
             made == [h EXCEPT !.chunk = c]
             gs == Put(fs, x, n)
  <1>0. Sized(fs) /\ Listed(h.normal, fs) /\ Grown(h.tree, fs) /\ Whole(h) /\ NormalMax \in Nat
    BY HeapAssumption DEF HeapAssumption, Index
  <1>1. Sized(gs)
    BY <1>0, PutSized
  <1>2. made = [chunk |-> c, normal |-> h.normal, tree |-> h.tree]
    <2> HIDE DEF c
    <2> QED BY <1>0, Refit
  <1>3. u = IF HMU_IS_FC_NORMAL(n) THEN [made EXCEPT !.normal[n] = <<x>> \o @]
            ELSE [made EXCEPT !.tree = insert_tree_node(@, x, n)]
    BY DEF gci_add_fc
  <1> HIDE DEF u, c, made
  <1>4. made.chunk = c /\ made.normal = h.normal /\ made.tree = h.tree /\ Whole(made)
    BY <1>2 DEF Whole
  <1>5. CASE n < NormalMax
    <2>1. n \in 1..NormalMax - 1
      BY <1>0, <1>5
    <2> DEFINE new == [h.normal EXCEPT ![n] = <<x>> \o @]
    <2>2. u = [made EXCEPT !.normal = new]
      <3>1. HMU_IS_FC_NORMAL(n)
        BY <1>5 DEF HMU_IS_FC_NORMAL
      <3>2. u = [made EXCEPT !.normal[n] = <<x>> \o @]
        BY <3>1, <1>3
      <3> QED BY <3>2, <1>4
    <2>3. Listed(new, gs)
      BY <1>0, <2>1, PutListed
    <2>4. Grown(h.tree, gs)
      BY <1>0, <1>5, SmallGrown
    <2> HIDE DEF new
    <2>50. u = [chunk |-> made.chunk, normal |-> new, tree |-> made.tree]
      BY <2>2, <1>4, Refit
    <2>5. u = [chunk |-> c, normal |-> new, tree |-> h.tree]
      BY <2>50, <1>4
    <2>6. u.chunk = c /\ u.normal = new /\ u.tree = h.tree
      BY <2>5
    <2> HIDE DEF gs
    <2>7. Index(u, gs)
      BY <2>3, <2>4, <2>5, <2>6, <1>1 DEF Index, Whole
    <2> QED BY <2>6, <2>7 DEF u, gs, c
  <1>6. CASE ~(n < NormalMax)
    <2>1. n >= NormalMax
      BY <1>0, <1>6
    <2> DEFINE new == insert_tree_node(h.tree, x, n)
    <2>2. u = [made EXCEPT !.tree = new]
      <3>1. ~HMU_IS_FC_NORMAL(n)
        BY <1>6 DEF HMU_IS_FC_NORMAL
      <3>2. u = [made EXCEPT !.tree = insert_tree_node(@, x, n)]
        BY <3>1, <1>3
      <3> QED BY <3>2, <1>4
    <2>3. Grown(new, gs)
      BY <1>0, <2>1, PutGrown
    <2>4. Listed(h.normal, gs)
      BY <1>0, <2>1, BigListed
    <2> HIDE DEF new
    <2>50. u = [chunk |-> made.chunk, normal |-> made.normal, tree |-> new]
      BY <2>2, <1>4, Refit
    <2>5. u = [chunk |-> c, normal |-> h.normal, tree |-> new]
      BY <2>50, <1>4
    <2>6. u.chunk = c /\ u.normal = h.normal /\ u.tree = new
      BY <2>5
    <2> HIDE DEF gs
    <2>7. Index(u, gs)
      BY <2>3, <2>4, <2>5, <2>6, <1>1 DEF Index, Whole
    <2> QED BY <2>6, <2>7 DEF u, gs, c
  <1> QED BY <1>5, <1>6

-----------------------------------------------------------------------------
(* The chunks.                                                             *)

ChunkHeader == [ut : {"fc", "vo"}, size : Nat \ {0}, pin : BOOLEAN]

Tiling(c) ==
  /\ 0 \in DOMAIN c /\ DOMAIN c \in SUBSET (0..Size - 1) /\ c \in [DOMAIN c -> ChunkHeader]
  /\ \A x \in DOMAIN c : x + c[x].size = Size \/ x + c[x].size \in DOMAIN c
  /\ \A x, y \in DOMAIN c : y > x => y >= x + c[x].size

\* The P bits tell what is before, but for the chunks of st.
Pins(c, st) ==
  \A x, y \in DOMAIN c : x \notin st /\ y + c[y].size = x => (c[x].pin <=> c[y].ut = "vo")

\* No free chunk follows another.
Apart(c) ==
  \A x, y \in DOMAIN c : y + c[y].size = x => c[x].ut = "vo" \/ c[y].ut = "vo"

\* Chunks no smaller than a footer and a link.
Roomy(c) == \A x \in DOMAIN c : c[x].size > 1

FreeSizes(c) == [x \in {y \in DOMAIN c : c[y].ut = "fc"} |-> c[x].size]

\* The chunks of c from a to b become one from a to m and a free one from m to b;
\* the others keep all but the P bit of the one at b.
Rezoned(d, c, a, m, b) ==
  /\ a \in DOMAIN c /\ {m, b} \subseteq Nat /\ a < m /\ m <= b /\ b <= Size /\ (b = Size \/ b \in DOMAIN c)
  /\ d \in [DOMAIN d -> ChunkHeader]
  /\ \A z : z \in DOMAIN d <=> (z \in DOMAIN c /\ (z < a \/ z >= b)) \/ z = a \/ (z = m /\ m < b)
  /\ d[a].size = m - a /\ d[a].pin = c[a].pin
  /\ m < b => d[m].size = b - m /\ d[m].ut = "fc" /\ d[a].ut = "vo"
  /\ \A z \in DOMAIN c : z < a \/ z >= b =>
       d[z].size = c[z].size /\ d[z].ut = c[z].ut /\ (z # b => d[z].pin = c[z].pin)

\* What Tiling says of one chunk.
LEMMA Tiles ==
  ASSUME NEW c, Tiling(c), NEW x \in DOMAIN c
  PROVE  /\ x \in Nat /\ x < Size /\ c[x].size \in Nat \ {0} /\ c[x].ut \in {"fc", "vo"} /\ c[x].pin \in BOOLEAN
         /\ c[x] = [ut |-> c[x].ut, size |-> c[x].size, pin |-> c[x].pin]
         /\ x + c[x].size <= Size /\ (x + c[x].size = Size \/ x + c[x].size \in DOMAIN c)
         /\ x + c[x].size < Size <=> x + c[x].size \in DOMAIN c
  <1>0. Size \in Nat
    BY HeapAssumption DEF HeapAssumption
  <1>1. c[x] \in ChunkHeader /\ x \in 0..Size - 1 /\ \A y \in DOMAIN c : y \in 0..Size - 1
    BY DEF Tiling
  <1>2. c[x].size \in Nat \ {0} /\ c[x].ut \in {"fc", "vo"} /\ c[x].pin \in BOOLEAN
        /\ c[x] = [ut |-> c[x].ut, size |-> c[x].size, pin |-> c[x].pin]
    BY <1>1 DEF ChunkHeader
  <1>3. x + c[x].size = Size \/ x + c[x].size \in DOMAIN c
    BY DEF Tiling
  <1> QED BY <1>0, <1>1, <1>2, <1>3

\* Two chunks end at different places.
LEMMA OneBefore ==
  ASSUME NEW c, Tiling(c), NEW x \in DOMAIN c, NEW y \in DOMAIN c, x + c[x].size = y + c[y].size
  PROVE  x = y
  <1>1. x \in Nat /\ y \in Nat /\ c[x].size \in Nat \ {0} /\ c[y].size \in Nat \ {0}
    BY Tiles
  <1>2. (x > y => x >= y + c[y].size) /\ (y > x => y >= x + c[x].size)
    BY DEF Tiling
  <1> QED BY <1>1, <1>2

\* A chunk that is not the first has one before it.
LEMMA BeforeEnds ==
  ASSUME NEW h, Tiling(h.chunk), NEW x \in DOMAIN h.chunk, x # 0
  PROVE  Before(h, x) \in DOMAIN h.chunk /\ Before(h, x) + h.chunk[Before(h, x)].size = x
  <1> DEFINE c == h.chunk
             T == {i \in Nat : i > 0 /\ x - i \in DOMAIN c}
  <1>0. x \in Nat /\ 0 \in DOMAIN c /\ x < Size
    BY Tiles DEF Tiling
  <1>1. T \in SUBSET Nat /\ x \in T
    BY <1>0
  <1>2. PICK i \in T : \A j \in T : i <= j
    <2> HIDE DEF T
    <2> QED BY <1>1, Least
  <1> DEFINE y == x - i
  <1>3. y \in DOMAIN c /\ y < x /\ y \in Nat
    BY <1>0, <1>2, Tiles
  <1>4. /\ c[y].size \in Nat \ {0} /\ x >= y + c[y].size
        /\ y + c[y].size = Size \/ y + c[y].size \in DOMAIN c
    BY <1>0, <1>3, Tiles DEF Tiling
  <1> DEFINE e == y + c[y].size
             k == x - e
  <1>5. e \in DOMAIN c /\ e \in Nat /\ e <= x /\ e > y
    BY <1>0, <1>3, <1>4, HeapAssumption DEF HeapAssumption
  <1>6. e = x
    <2>1. ASSUME e < x PROVE FALSE
      <3>1. k \in T /\ k < i
        <4> HIDE DEF e
        <4>1. k \in Nat /\ k > 0 /\ x - k = e
          BY <1>0, <1>5, <2>1
        <4>2. k < i
          BY <1>0, <1>5, <1>3
        <4> HIDE DEF k
        <4> QED BY <4>1, <4>2, <1>5
      <3> HIDE DEF T, k
      <3>2. i \in Nat /\ k \in Nat
        BY <1>1, <1>2, <3>1
      <3> QED BY <1>2, <3>1, <3>2
    <2> HIDE DEF e
    <2> QED BY <1>0, <1>5, <2>1
  <1>7. \E z \in DOMAIN c : z + c[z].size = x
    BY <1>3, <1>6
  <1> HIDE DEF c
  <1> QED BY <1>7 DEF Before, c

\* The heap stays covered when a zone of it is cut anew.
LEMMA RezonedTiling ==
  ASSUME NEW c, Tiling(c), NEW d, NEW a, NEW m, NEW b, Rezoned(d, c, a, m, b)
  PROVE  Tiling(d)
  <1> DEFINE Old == {z \in DOMAIN c : z < a \/ z >= b}
  <1>0. Size \in Nat /\ a \in Nat /\ m \in Nat /\ b \in Nat /\ a < m /\ m <= b /\ b <= Size /\ (b = Size \/ b \in Old)
        /\ a \in DOMAIN c /\ a < Size
    BY HeapAssumption, Tiles DEF HeapAssumption, Rezoned
  <1>1. \A z \in DOMAIN d : z \in Old \/ z = a \/ (z = m /\ m < b)
    BY DEF Rezoned
  <1>2. \A z \in Old : z \in DOMAIN d /\ d[z].size = c[z].size /\ c[z].size \in Nat \ {0} /\ z \in Nat /\ z < Size
    BY Tiles DEF Rezoned
  <1>3. a \in DOMAIN d /\ (m < b => m \in DOMAIN d /\ d[m].size = b - m) /\ d[a].size = m - a
    BY DEF Rezoned
  <1>4. ASSUME NEW z \in Old, z < a
        PROVE  z + c[z].size \in DOMAIN d /\ z + c[z].size <= a
    <2>1. a >= z + c[z].size
      BY <1>0, <1>4 DEF Tiling
    <2>2. z + c[z].size \in DOMAIN c \/ z + c[z].size = Size
      BY <1>4 DEF Tiling
    <2>3. z + c[z].size \in DOMAIN c
      BY <2>1, <2>2, <1>0, <1>2
    <2>4. CASE z + c[z].size < a
      BY <2>1, <2>3, <2>4, <1>2
    <2>5. CASE z + c[z].size = a
      BY <2>1, <2>5, <1>3
    <2> QED BY <2>1, <2>4, <2>5, <1>0, <1>2
  <1>5. ASSUME NEW z \in Old, z >= b
        PROVE  (z + c[z].size \in DOMAIN d \/ z + c[z].size = Size) /\ z + c[z].size > b
    <2>1. z + c[z].size \in DOMAIN c \/ z + c[z].size = Size
      BY <1>5 DEF Tiling
    <2>2. z + c[z].size > b
      BY <1>0, <1>2, <1>5
    <2>3. z + c[z].size \in DOMAIN c => z + c[z].size \in Old
      BY <2>2, <1>0, <1>2
    <2> QED BY <2>1, <2>2, <2>3, <1>2
  <1>6. ASSUME NEW x \in DOMAIN d PROVE x + d[x].size = Size \/ x + d[x].size \in DOMAIN d
    <2>1. CASE x \in Old
      <3>1. x < a \/ x >= b
        BY <2>1
      <3> QED BY <2>1, <3>1, <1>2, <1>4, <1>5
    <2>2. CASE x = a
      <3>1. x + d[x].size = m
        BY <2>2, <1>0, <1>3
      <3>2. m < b \/ m = b
        BY <1>0
      <3> QED BY <3>1, <3>2, <1>0, <1>2, <1>3
    <2>3. CASE x = m /\ m < b
      <3>1. x + d[x].size = b
        BY <2>3, <1>0, <1>3
      <3> QED BY <3>1, <1>0, <1>2
    <2> QED BY <2>1, <2>2, <2>3, <1>1
  <1>7. ASSUME NEW x \in DOMAIN d, NEW y \in DOMAIN d, y > x PROVE y >= x + d[x].size
    <2>1. CASE x \in Old /\ x < a
      <3>1. x + d[x].size <= a /\ d[x].size = c[x].size /\ x \in DOMAIN c
        BY <2>1, <1>2, <1>4
      <3>2. CASE y \in Old
        <4>1. y \in DOMAIN c
          BY <3>2
        <4> QED BY <3>1, <4>1, <1>7 DEF Tiling
      <3>3. CASE y = a \/ y = m
        <4>1. x + d[x].size \in Int
          BY <2>1, <3>1, <1>2
        <4> QED BY <3>1, <3>3, <4>1, <1>0
      <3> QED BY <3>2, <3>3, <1>1
    <2>2. CASE x \in Old /\ x >= b
      <3>1. x \in Nat /\ x >= b /\ x \in DOMAIN c /\ d[x].size = c[x].size
        BY <2>2, <1>2
      <3>2. y \in Old
        BY <3>1, <1>0, <1>1, <1>7
      <3>3. y \in DOMAIN c
        BY <3>2
      <3> QED BY <3>1, <3>3, <1>7 DEF Tiling
    <2>3. CASE x = a
      <3>1. x + d[x].size = m
        BY <2>3, <1>0, <1>3
      <3>2. CASE y \in Old
        BY <2>3, <3>1, <3>2, <1>0, <1>2, <1>7
      <3>3. CASE y = m
        BY <3>1, <3>3, <1>0
      <3> QED BY <2>3, <3>2, <3>3, <1>0, <1>1, <1>7
    <2>4. CASE x = m /\ m < b
      <3>1. x + d[x].size = b
        BY <2>4, <1>0, <1>3
      <3>2. y \in Old
        BY <2>4, <1>0, <1>1, <1>7
      <3> QED BY <2>4, <3>1, <3>2, <1>0, <1>2, <1>7
    <2> QED BY <2>1, <2>2, <2>3, <2>4, <1>1
  <1>8. 0 \in DOMAIN d
    <2>1. 0 \in DOMAIN c
      BY DEF Tiling
    <2>2. CASE a = 0
      BY <2>2, <1>3
    <2>3. CASE a # 0
      BY <2>1, <2>3, <1>0, <1>2
    <2> QED BY <2>2, <2>3
  <1>9. DOMAIN d \in SUBSET (0..Size - 1)
    <2>1. ASSUME NEW z \in DOMAIN d PROVE z \in 0..Size - 1
      BY <1>0, <1>1, <1>2
    <2> QED BY <2>1
  <1> HIDE DEF Old
  <1> QED BY <1>6, <1>7, <1>8, <1>9 DEF Tiling, Rezoned

\* What ends at a chunk once the zone is changed.
LEMMA RezonedNext ==
  ASSUME NEW c, Tiling(c), NEW d, NEW a, NEW m, NEW b, Rezoned(d, c, a, m, b),
         NEW x \in DOMAIN d, NEW y \in DOMAIN d, y + d[y].size = x
  PROVE  \/ /\ x \in DOMAIN c /\ y \in DOMAIN c /\ y + c[y].size = x
            /\ d[y].ut = c[y].ut /\ d[x].pin = c[x].pin /\ (x = a \/ d[x].ut = c[x].ut)
         \/ x = m /\ m < b /\ y = a
         \/ x = b /\ b \in DOMAIN c /\ y = (IF m < b THEN m ELSE a) /\ d[x].ut = c[x].ut
  <1>0. Size \in Nat /\ a \in Nat /\ m \in Nat /\ b \in Nat /\ a < m /\ m <= b /\ b <= Size
        /\ a \in DOMAIN c /\ a < Size
    BY HeapAssumption, Tiles DEF HeapAssumption, Rezoned
  <1>1. /\ (x \in DOMAIN c /\ (x < a \/ x >= b)) \/ x = a \/ (x = m /\ m < b)
        /\ (y \in DOMAIN c /\ (y < a \/ y >= b)) \/ y = a \/ (y = m /\ m < b)
    BY DEF Rezoned
  <1>2. d[a].size = m - a /\ (m < b => d[m].size = b - m) /\ d[a].pin = c[a].pin
        /\ \A z \in DOMAIN c : z < a \/ z >= b =>
             d[z].size = c[z].size /\ d[z].ut = c[z].ut /\ (z # b => d[z].pin = c[z].pin)
    BY DEF Rezoned
  <1>3. \A z \in DOMAIN c : z \in Nat /\ c[z].size \in Nat \ {0} /\ (z < a => z + c[z].size <= a)
    BY <1>0, Tiles DEF Tiling
  <1>4. CASE y \in DOMAIN c /\ y < a
    <2>1. y + c[y].size = x /\ x <= a /\ d[y].ut = c[y].ut
      BY <1>2, <1>3, <1>4
    <2>2. x \in DOMAIN c /\ x # b
      BY <2>1, <1>0, <1>1
    <2>3. x < a \/ x = a
      BY <2>1, <2>2, <1>0, <1>3
    <2> QED BY <2>1, <2>2, <2>3, <1>2, <1>4
  <1>5. CASE y \in DOMAIN c /\ y >= b
    <2>1. y + c[y].size = x /\ x > b /\ d[y].ut = c[y].ut
      BY <1>0, <1>2, <1>3, <1>5
    <2>2. x \in DOMAIN c /\ x >= b
      BY <2>1, <1>0, <1>1, <1>3, <1>5
    <2> QED BY <2>1, <2>2, <1>0, <1>2, <1>5
  <1>6. CASE y = a
    <2>1. x = m
      BY <1>0, <1>2, <1>6
    <2>2. CASE m < b
      BY <2>1, <2>2, <1>6
    <2>3. CASE m = b
      <3>1. x \in DOMAIN c /\ x >= b
        BY <2>1, <2>3, <1>0, <1>1
      <3> QED BY <2>1, <2>3, <3>1, <1>0, <1>2, <1>6
    <2> QED BY <2>2, <2>3, <1>0
  <1>7. CASE y = m /\ m < b
    <2>1. x = b
      BY <1>0, <1>2, <1>7
    <2>2. x \in DOMAIN c /\ x >= b
      BY <2>1, <1>0, <1>1, <1>7
    <2> QED BY <2>1, <2>2, <1>2, <1>7
  <1> QED BY <1>1, <1>4, <1>5, <1>6, <1>7

\* The P bits of the zone and of what follows it are right, but for new.
Told(d, c, a, m, b, new) ==
  /\ m < b => m \in new \/ d[m].pin = TRUE
  /\ b \in DOMAIN c => b \in new \/ (d[b].pin <=> d[IF m < b THEN m ELSE a].ut = "vo")

\* The P bits stay true when a zone of the heap is cut anew.
LEMMA RezonedPins ==
  ASSUME NEW c, Tiling(c), NEW d, NEW a, NEW m, NEW b, Rezoned(d, c, a, m, b),
         NEW st, Pins(c, st), NEW new, \A x \in DOMAIN d : x \in st => x \in new,
         Told(d, c, a, m, b, new)
  PROVE  Pins(d, new)
  <1> SUFFICES ASSUME NEW x \in DOMAIN d, NEW y \in DOMAIN d, x \notin new, y + d[y].size = x
               PROVE  d[x].pin <=> d[y].ut = "vo"
    BY DEF Pins
  <1>1. \/ /\ x \in DOMAIN c /\ y \in DOMAIN c /\ y + c[y].size = x
           /\ d[y].ut = c[y].ut /\ d[x].pin = c[x].pin
        \/ x = m /\ m < b /\ y = a
        \/ x = b /\ b \in DOMAIN c /\ y = (IF m < b THEN m ELSE a)
    BY RezonedNext
  <1>2. m < b => d[a].ut = "vo"
    BY DEF Rezoned
  <1>3. CASE x \in DOMAIN c /\ y \in DOMAIN c /\ y + c[y].size = x /\ d[y].ut = c[y].ut /\ d[x].pin = c[x].pin
    <2>1. c[x].pin <=> c[y].ut = "vo"
      BY <1>3 DEF Pins
    <2> QED BY <2>1, <1>3
  <1>4. CASE x = m /\ m < b /\ y = a
    BY <1>2, <1>4 DEF Told
  <1>5. CASE x = b /\ b \in DOMAIN c /\ y = (IF m < b THEN m ELSE a)
    BY <1>5 DEF Told
  <1> QED BY <1>1, <1>3, <1>4, <1>5

\* No free chunk follows another when a zone of the heap is cut anew.
LEMMA RezonedApart ==
  ASSUME NEW c, Tiling(c), NEW d, NEW a, NEW m, NEW b, Rezoned(d, c, a, m, b), Apart(c),
         b \in DOMAIN c => c[b].ut = "vo" \/ d[IF m < b THEN m ELSE a].ut = "vo",
         d[a].ut = "vo" \/ \A z \in DOMAIN c : z + c[z].size = a => c[z].ut = "vo"
  PROVE  Apart(d)
  <1> SUFFICES ASSUME NEW x \in DOMAIN d, NEW y \in DOMAIN d, y + d[y].size = x
               PROVE  d[x].ut = "vo" \/ d[y].ut = "vo"
    BY DEF Apart
  <1>1. \/ /\ x \in DOMAIN c /\ y \in DOMAIN c /\ y + c[y].size = x
           /\ d[y].ut = c[y].ut /\ (x = a \/ d[x].ut = c[x].ut)
        \/ x = m /\ m < b /\ y = a
        \/ x = b /\ b \in DOMAIN c /\ y = (IF m < b THEN m ELSE a) /\ d[x].ut = c[x].ut
    BY RezonedNext
  <1>2. m < b => d[a].ut = "vo"
    BY DEF Rezoned
  <1>3. CASE x \in DOMAIN c /\ y \in DOMAIN c /\ y + c[y].size = x /\ d[y].ut = c[y].ut /\ (x = a \/ d[x].ut = c[x].ut)
    <2>1. c[x].ut = "vo" \/ c[y].ut = "vo"
      BY <1>3 DEF Apart
    <2>2. CASE x = a
      BY <2>2, <1>3
    <2>3. CASE x # a
      BY <2>1, <2>3, <1>3
    <2> QED BY <2>2, <2>3
  <1>4. CASE x = m /\ m < b /\ y = a
    BY <1>2, <1>4
  <1>5. CASE x = b /\ b \in DOMAIN c /\ y = (IF m < b THEN m ELSE a) /\ d[x].ut = c[x].ut
    BY <1>5
  <1> QED BY <1>1, <1>3, <1>4, <1>5

\* Chunks keep room for a footer when a zone of the heap is cut anew.
LEMMA RezonedRoomy ==
  ASSUME NEW c, Tiling(c), NEW d, NEW a, NEW m, NEW b, Rezoned(d, c, a, m, b), Roomy(c),
         m - a > 1, m < b => b - m > 1
  PROVE  Roomy(d)
  BY DEF Rezoned, Roomy

-----------------------------------------------------------------------------
(* The free size.                                                          *)

Below(share, f) == [i \in 0..Size |-> IF i = 0 THEN 0 ELSE f[i - 1] + share[i - 1]]

Summed(f, share) ==
  /\ f \in [0..Size -> Int] /\ f[0] = 0 /\ Total(share) = f[Size]
  /\ \A k \in 1..Size : f[k] = f[k - 1] + share[k - 1]

\* The recursion of Total, as a function with its equations.
LEMMA SumRuns ==
  ASSUME NEW share \in [0..Size - 1 -> Int]
  PROVE  \E f : Summed(f, share)
  <1> DEFINE G == [x \in (1..Size) \X Int |-> x[2] + share[x[1] - 1]]
  <1>0. Size \in Nat
    BY HeapAssumption DEF HeapAssumption
  <1>1. ASSUME NEW i \in 1..Size, NEW v \in Int PROVE G[<<i, v>>] = v + share[i - 1] /\ G[<<i, v>>] \in Int
    <2>1. i - 1 \in 0..Size - 1
      BY <1>0
    <2>2. G[<<i, v>>] = v + share[i - 1]
      OBVIOUS
    <2> QED BY <2>1, <2>2
  <1> HIDE DEF G
  <1>2. StaysIn(G, Size, Int)
    BY <1>1, Zenon DEF StaysIn
  <1>3. PICK f \in [0..Size -> Int] : Carries(f, 0, G, Size)
    <2> DEFINE V == Int
               v0 == 0
    <2>1. v0 \in V /\ StaysIn(G, Size, V)
      BY <1>2
    <2> HIDE DEF V, v0
    <2>2. \E f \in [0..Size -> V] : Carries(f, v0, G, Size)
      BY <2>1, <1>0, PrimRec
    <2> QED BY <2>2 DEF V, v0
  <1>4. f[0] = 0 /\ \A k \in 1..Size : f[k] = f[k - 1] + share[k - 1]
    <2>1. \A k \in 1..Size : f[k - 1] \in Int
      BY <1>0
    <2> QED BY <2>1, <1>1, <1>3 DEF Carries
  <1>5. f = Below(share, f)
    <2>1. \A k \in 0..Size : f[k] = IF k = 0 THEN 0 ELSE f[k - 1] + share[k - 1]
      <3>1. \A k \in 0..Size : k # 0 => k \in 1..Size
        BY <1>0
      <3> QED BY <3>1, <1>4
    <2> QED BY <2>1 DEF Below
  <1> DEFINE h == CHOOSE g : g = Below(share, g)
  <1>6. Total(share) = h[Size]
    BY DEF Total, Below
  <1>7. h = Below(share, h)
    BY <1>5
  <1> HIDE DEF h
  <1>8. h[0] = 0 /\ \A k \in 1..Size : h[k] = h[k - 1] + share[k - 1]
    <2>1. \A k \in 0..Size : h[k] = IF k = 0 THEN 0 ELSE h[k - 1] + share[k - 1]
      BY <1>7 DEF Below
    <2>2. 0 \in 0..Size /\ \A k \in 1..Size : k \in 0..Size /\ k # 0
      BY <1>0
    <2> QED BY <2>1, <2>2
  <1> DEFINE S == {k \in 0..Size : h[k] \in Int}
  <1>9. \A k \in 0..Size : k \in S
    <2>1. 0 \in S
      BY <1>0, <1>8
    <2>2. ASSUME NEW k \in 1..Size, k - 1 \in S PROVE k \in S
      <3>1. share[k - 1] \in Int
        BY <1>0
      <3> QED BY <2>2, <3>1, <1>8
    <2> HIDE DEF S
    <2> QED BY <2>1, <2>2, <1>0, Climbs
  <1>10. h \in [0..Size -> Int]
    <2>1. h = [k \in 0..Size |-> h[k]]
      BY <1>7 DEF Below
    <2> QED BY <2>1, <1>9
  <1>11. Summed(h, share)
    BY <1>6, <1>8, <1>10 DEF Summed
  <1> QED BY <1>11

\* A change at one place.
SameBut(other, share, i) ==
  /\ share \in [0..Size - 1 -> Int] /\ other \in [0..Size - 1 -> Int] /\ i \in 0..Size - 1
  /\ \A j \in 0..Size - 1 : j # i => other[j] = share[j]

\* A sum changes by what one of its places changes.
LEMMA TotalAt ==
  ASSUME NEW share, NEW other, NEW i, SameBut(other, share, i)
  PROVE  Total(share) \in Int /\ Total(other) = Total(share) + other[i] - share[i]
  <1> USE DEF SameBut
  <1>0. Size \in Nat
    BY HeapAssumption DEF HeapAssumption
  <1>1. PICK f : Summed(f, share)
    BY SumRuns
  <1>2. PICK g : Summed(g, other)
    BY SumRuns
  <1> DEFINE v == other[i] - share[i]
             K == {k \in 0..Size : g[k] = f[k] + (IF k > i THEN v ELSE 0)}
  <1>3. /\ f \in [0..Size -> Int] /\ f[0] = 0 /\ Total(share) = f[Size]
        /\ \A k \in 1..Size : f[k] = f[k - 1] + share[k - 1]
    BY <1>1 DEF Summed
  <1>4. /\ g \in [0..Size -> Int] /\ g[0] = 0 /\ Total(other) = g[Size]
        /\ \A k \in 1..Size : g[k] = g[k - 1] + other[k - 1]
    BY <1>2 DEF Summed
  <1>5. 0 \in K
    BY <1>0, <1>3, <1>4
  <1>6. ASSUME NEW k \in 1..Size, k - 1 \in K PROVE k \in K
    <2>1. k - 1 \in 0..Size - 1 /\ k \in 0..Size /\ k - 1 \in 0..Size
      BY <1>0
    <2>2. share[k - 1] \in Int /\ other[k - 1] \in Int /\ f[k - 1] \in Int /\ v \in Int
      BY <2>1, <1>3
    <2>3. g[k - 1] = f[k - 1] + (IF k - 1 > i THEN v ELSE 0)
      BY <1>6
    <2>4. g[k] = g[k - 1] + other[k - 1] /\ f[k] = f[k - 1] + share[k - 1]
      BY <1>3, <1>4
    <2>5. CASE k - 1 = i
      <3>1. g[k - 1] = f[k - 1] /\ k > i
        BY <2>2, <2>3, <2>5
      <3>2. g[k] = f[k] + v
        BY <3>1, <2>2, <2>4, <2>5
      <3> QED BY <3>1, <3>2, <2>1
    <2>6. CASE k - 1 # i
      <3>1. other[k - 1] = share[k - 1]
        BY <2>1, <2>6
      <3>2. k - 1 > i <=> k > i
        BY <2>6
      <3> HIDE DEF v
      <3>3. g[k] = f[k] + (IF k > i THEN v ELSE 0)
        BY <2>2, <2>3, <2>4, <3>1, <3>2
      <3> QED BY <3>3, <2>1
    <2> QED BY <2>5, <2>6
  <1>7. Size \in K
    <2> HIDE DEF K
    <2>1. \A k \in 0..Size : k \in K
      BY <1>0, <1>5, <1>6, Climbs
    <2> QED BY <2>1, <1>0
  <1>8. Size > i
    BY <1>0
  <1>9. Total(other) = Total(share) + v
    <2> HIDE DEF v
    <2> QED BY <1>3, <1>4, <1>7, <1>8
  <1>10. Total(share) \in Int
    BY <1>0, <1>3
  <1> QED BY <1>9, <1>10

Share(fs) == [x \in 0..Size - 1 |-> IF x \in DOMAIN fs THEN fs[x] ELSE 0]

Weight(fs) == Total(Share(fs))

\* The shares are numbers.
LEMMA ShareType ==
  ASSUME NEW fs, Sized(fs)
  PROVE  Share(fs) \in [0..Size - 1 -> Int]
  BY DEF Share, Sized

\* The free size without one of the free chunks.
LEMMA DropWeight ==
  ASSUME NEW fs, Sized(fs), NEW x \in DOMAIN fs, x < Size
  PROVE  Weight(fs) \in Int /\ Weight(Drop(fs, x)) = Weight(fs) - fs[x]
  <1> DEFINE gs == Drop(fs, x)
             share == Share(fs)
             other == Share(gs)
  <1>0. Size \in Nat /\ x \in 0..Size - 1 /\ fs[x] \in Int
    BY HeapAssumption DEF HeapAssumption, Sized
  <1>1. DOMAIN gs = DOMAIN fs \ {x} /\ \A y \in DOMAIN fs : y # x => gs[y] = fs[y]
    BY DropAt
  <1>2. share \in [0..Size - 1 -> Int] /\ other \in [0..Size - 1 -> Int]
    BY DropSized, ShareType
  <1> HIDE DEF gs
  <1>3. share[x] = fs[x] /\ other[x] = 0 /\ \A j \in 0..Size - 1 : j # x => other[j] = share[j]
    BY <1>0, <1>1 DEF Share
  <1> HIDE DEF share, other
  <1>4. Total(share) \in Int /\ Total(other) = Total(share) + 0 - fs[x]
    <2>1. Total(share) \in Int /\ Total(other) = Total(share) + other[x] - share[x]
      <3>1. SameBut(other, share, x)
        BY <1>0, <1>2, <1>3 DEF SameBut
      <3> QED BY <3>1, TotalAt
    <2> QED BY <2>1, <1>3
  <1>5. Total(other) = Total(share) - fs[x]
    BY <1>0, <1>4
  <1> QED BY <1>4, <1>5 DEF Weight, share, other, gs

\* The free size with one more free chunk.
LEMMA PutWeight ==
  ASSUME NEW fs, Sized(fs), NEW x \in Nat, x < Size, x \notin DOMAIN fs, NEW n \in Nat \ {0}
  PROVE  Weight(fs) \in Int /\ Weight(Put(fs, x, n)) = Weight(fs) + n
  <1> DEFINE gs == Put(fs, x, n)
             share == Share(fs)
             other == Share(gs)
  <1>0. Size \in Nat /\ x \in 0..Size - 1
    BY HeapAssumption DEF HeapAssumption
  <1>1. DOMAIN gs = DOMAIN fs \cup {x} /\ gs[x] = n /\ \A y \in DOMAIN fs : y # x => gs[y] = fs[y]
    BY DEF Put
  <1>2. share \in [0..Size - 1 -> Int] /\ other \in [0..Size - 1 -> Int]
    BY PutSized, ShareType
  <1> HIDE DEF gs
  <1>3. share[x] = 0 /\ other[x] = n /\ \A j \in 0..Size - 1 : j # x => other[j] = share[j]
    BY <1>0, <1>1 DEF Share
  <1> HIDE DEF share, other
  <1>4. Total(share) \in Int /\ Total(other) = Total(share) + n - 0
    <2>1. Total(share) \in Int /\ Total(other) = Total(share) + other[x] - share[x]
      <3>1. SameBut(other, share, x)
        BY <1>0, <1>2, <1>3 DEF SameBut
      <3> QED BY <3>1, TotalAt
    <2> QED BY <2>1, <1>3
  <1>5. Total(other) = Total(share) + n
    BY <1>0, <1>4
  <1> QED BY <1>4, <1>5 DEF Weight, share, other, gs

-----------------------------------------------------------------------------
(* Headers rewritten.                                                      *)

Hd(ut, n, pin) == [ut |-> ut, size |-> n, pin |-> pin]

Headed(c) == c \in [DOMAIN c -> ChunkHeader]

\* A header, field by field.
LEMMA Fields ==
  ASSUME NEW c, Headed(c), NEW x \in DOMAIN c
  PROVE  c[x] = Hd(c[x].ut, c[x].size, c[x].pin) /\ c = [y \in DOMAIN c |-> c[y]]
  BY DEF Headed, ChunkHeader, Hd

\* The fields of a header made.
LEMMA HdFields ==
  ASSUME NEW ut, NEW n, NEW pin
  PROVE  Hd(ut, n, pin).ut = ut /\ Hd(ut, n, pin).size = n /\ Hd(ut, n, pin).pin = pin
  BY DEF Hd

\* One more header.
LEMMA PutHeaded ==
  ASSUME NEW c, Headed(c), NEW x, NEW ut \in {"fc", "vo"}, NEW n \in Nat \ {0}, NEW pin \in BOOLEAN
  PROVE  Headed(Put(c, x, Hd(ut, n, pin)))
  <1>1. Hd(ut, n, pin) \in ChunkHeader
    BY DEF Hd, ChunkHeader
  <1> DEFINE v == Hd(ut, n, pin)
             d == Put(c, x, v)
  <1> HIDE DEF v
  <1>2. DOMAIN d = DOMAIN c \cup {x} /\ d = [y \in DOMAIN c \cup {x} |-> IF y = x THEN v ELSE c[y]]
    BY DEF Put
  <1>3. \A y \in DOMAIN c \cup {x} : (IF y = x THEN v ELSE c[y]) \in ChunkHeader
    BY <1>1 DEF Headed, v
  <1> HIDE DEF d
  <1>4. Headed(d)
    BY <1>2, <1>3 DEF Headed
  <1> QED BY <1>4 DEF d, v

\* One header less.
LEMMA DropHeaded ==
  ASSUME NEW c, Headed(c), NEW x
  PROVE  Headed(Drop(c, x))
  <1> DEFINE d == Drop(c, x)
  <1>1. DOMAIN d = DOMAIN c \ {x} /\ d = [y \in DOMAIN c \ {x} |-> c[y]]
    BY DEF Drop
  <1> HIDE DEF d
  <1>2. Headed(d)
    BY <1>1 DEF Headed
  <1> QED BY <1>2 DEF d

\* The P bit.
LEMMA Marked ==
  ASSUME NEW h, NEW fs, Index(h, fs), Headed(h.chunk), NEW x, hmu_is_in_heap(x) => x \in DOMAIN h.chunk, NEW b
  PROVE  LET u == mark_pinuse(h, x, b) IN
         /\ Index(u, fs)
         /\ u.chunk = IF hmu_is_in_heap(x) THEN Put(h.chunk, x, Hd(h.chunk[x].ut, h.chunk[x].size, b)) ELSE h.chunk
  <1> DEFINE u == mark_pinuse(h, x, b)
             c == h.chunk
  <1>1. CASE ~hmu_is_in_heap(x)
    <2>1. u = h
      BY <1>1 DEF mark_pinuse
    <2> QED BY <2>1, <1>1
  <1>2. CASE hmu_is_in_heap(x)
    <2>0. x \in DOMAIN c
      BY <1>2
    <2> DEFINE old == c[x]
               new == [old EXCEPT !.pin = b]
               d == [c EXCEPT ![x] = new]
    <2>1. u = [h EXCEPT !.chunk = d]
      BY <1>2 DEF mark_pinuse
    <2> DEFINE p == c[x].ut
               q == c[x].size
               r == c[x].pin
    <2>2. old = [ut |-> p, size |-> q, pin |-> r] /\ c = [y \in DOMAIN c |-> c[y]]
      BY <2>0, Fields DEF Hd
    <2> HIDE DEF u
    <2>3. new = [ut |-> p, size |-> q, pin |-> b]
      <3> HIDE DEF old, p, q, r
      <3> QED BY <2>2
    <2>4. new = Hd(p, q, b)
      BY <2>3 DEF Hd
    <2> HIDE DEF new
    <2>5. d = Put(c, x, new)
      <3> HIDE DEF c
      <3> QED BY <2>0, <2>2 DEF Put
    <2> HIDE DEF d
    <2>6. Index(u, fs) /\ u.chunk = d
      BY <2>1, Reheaded
    <2> QED BY <1>2, <2>4, <2>5, <2>6 DEF u
  <1> QED BY <1>1, <1>2

\* The header of an object.
Vo(h, x) == [h EXCEPT !.chunk[x].ut = "vo"]
VoSized(h, x, n) == [h EXCEPT !.chunk[x] = [ut |-> "vo", size |-> n, pin |-> @.pin]]

\* A chunk that becomes an object as it is.
LEMMA Taken1 ==
  ASSUME NEW h, NEW fs, Index(h, fs), Headed(h.chunk), NEW x \in DOMAIN h.chunk
  PROVE  /\ Index(Vo(h, x), fs)
         /\ Vo(h, x).chunk = Put(h.chunk, x, Hd("vo", h.chunk[x].size, h.chunk[x].pin))
  <1> DEFINE u == Vo(h, x)
             c == h.chunk
             old == c[x]
             new == [old EXCEPT !.ut = "vo"]
             d == [c EXCEPT ![x] = new]
             p == c[x].ut
             q == c[x].size
             r == c[x].pin
  <1>1. u = [h EXCEPT !.chunk = d]
    BY DEF Vo
  <1>2. old = [ut |-> p, size |-> q, pin |-> r] /\ c = [y \in DOMAIN c |-> c[y]]
    BY Fields DEF Hd
  <1> HIDE DEF u
  <1>3. new = [ut |-> "vo", size |-> q, pin |-> r]
    <2> HIDE DEF old, p, q, r
    <2> QED BY <1>2
  <1>4. new = Hd("vo", q, r)
    BY <1>3 DEF Hd
  <1> HIDE DEF new
  <1>5. x \in DOMAIN c
    OBVIOUS
  <1>6. d = Put(c, x, new)
    <2> HIDE DEF c
    <2> QED BY <1>2, <1>5 DEF Put
  <1> HIDE DEF d
  <1>7. Index(u, fs) /\ u.chunk = d
    BY <1>1, Reheaded
  <1> QED BY <1>4, <1>6, <1>7 DEF u

\* A chunk that becomes an object of another size.
LEMMA Taken2 ==
  ASSUME NEW h, NEW fs, Index(h, fs), Headed(h.chunk), NEW x \in DOMAIN h.chunk, NEW n
  PROVE  LET u == VoSized(h, x, n) IN
         Index(u, fs) /\ u.chunk = Put(h.chunk, x, Hd("vo", n, h.chunk[x].pin))
  <1> DEFINE u == VoSized(h, x, n)
             c == h.chunk
             old == c[x]
             new == [ut |-> "vo", size |-> n, pin |-> old.pin]
             d == [c EXCEPT ![x] = new]
             p == c[x].ut
             q == c[x].size
             r == c[x].pin
  <1>2. old = [ut |-> p, size |-> q, pin |-> r] /\ c = [y \in DOMAIN c |-> c[y]] /\ x \in DOMAIN c
    BY Fields DEF Hd
  <1>1. u = [h EXCEPT !.chunk = d]
    BY DEF VoSized
  <1> HIDE DEF u
  <1>4. new = Hd("vo", n, r)
    BY DEF Hd
  <1> HIDE DEF new
  <1>6. d = Put(c, x, new)
    <2> HIDE DEF c
    <2> QED BY <1>2 DEF Put
  <1> HIDE DEF d
  <1>7. Index(u, fs) /\ u.chunk = d
    BY <1>1, Reheaded
  <1> QED BY <1>4, <1>6, <1>7 DEF u

-----------------------------------------------------------------------------
(* A chunk taken.                                                          *)

\* The free chunks and their sizes.
LEMMA FreeOf ==
  ASSUME NEW c
  PROVE  /\ \A z : z \in DOMAIN FreeSizes(c) <=> z \in DOMAIN c /\ c[z].ut = "fc"
         /\ \A z \in DOMAIN FreeSizes(c) : FreeSizes(c)[z] = c[z].size
  BY DEF FreeSizes

\* The free chunks of a covered heap.
LEMMA FreeSized ==
  ASSUME NEW c, Tiling(c)
  PROVE  Sized(FreeSizes(c)) /\ \A z \in DOMAIN FreeSizes(c) : z < Size
  <1> DEFINE fs == FreeSizes(c)
  <1>1. \A z \in DOMAIN fs : z \in DOMAIN c /\ fs[z] = c[z].size
    BY FreeOf
  <1>2. \A z \in DOMAIN fs : z \in Nat /\ fs[z] \in Nat \ {0} /\ z < Size
    BY <1>1, Tiles
  <1>3. fs = [z \in DOMAIN fs |-> fs[z]]
    BY DEF FreeSizes
  <1> HIDE DEF fs
  <1>4. Sized(fs)
    BY <1>2, <1>3 DEF Sized
  <1> QED BY <1>2, <1>4 DEF fs

\* What has the free chunks and their sizes is FreeSizes.
LEMMA FreeIs ==
  ASSUME NEW gs, NEW d, gs = [z \in DOMAIN gs |-> gs[z]],
         \A z : z \in DOMAIN gs <=> z \in DOMAIN d /\ d[z].ut = "fc",
         \A z \in DOMAIN gs : gs[z] = d[z].size
  PROVE  gs = FreeSizes(d)
  <1> DEFINE D == {y \in DOMAIN d : d[y].ut = "fc"}
  <1>1. DOMAIN gs = D
    OBVIOUS
  <1>2. FreeSizes(d) = [z \in D |-> d[z].size]
    BY DEF FreeSizes
  <1> QED BY <1>1, <1>2

\* The chunk at x, up to b, is an object up to m, and what is left is free.
TakenFrom(u, c, x, m, b) ==
  /\ Rezoned(u.chunk, c, x, m, b) /\ u.chunk[x].ut = "vo"
  /\ m < b => u.chunk[m].pin = TRUE
  /\ b \in DOMAIN c => u.chunk[b].pin = IF m < b THEN c[b].pin ELSE TRUE
  /\ Index(u, FreeSizes(u.chunk)) /\ Weight(FreeSizes(u.chunk)) = Weight(FreeSizes(c)) - (m - x)

\* TakeFrom of a chunk with enough left for another.
LEMMA TakePart ==
  ASSUME NEW g, NEW c, c = g.chunk, Tiling(c), NEW x \in DOMAIN c, c[x].ut = "fc",
         Index(g, Drop(FreeSizes(c), x)), NEW n, c[x].size = n, NEW size \in Nat \ {0}, n >= size + Smallest
  PROVE  TakenFrom(TakeFrom(g, x, n, size), c, x, x + size, x + n)
  <1> DEFINE m == x + size
             b == x + n
             fs == FreeSizes(c)
             gs == Drop(fs, x)
             hs == Put(gs, m, n - size)
             rest == gci_add_fc(g, m, n - size, TRUE)
             mk == mark_pinuse(rest, m, TRUE)
             u == VoSized(mk, x, size)
  <1>0. Smallest \in Nat /\ Smallest > 1 /\ Size \in Nat /\ x \in Nat /\ n \in Nat \ {0} /\ b <= Size /\ x < Size
        /\ (b = Size \/ b \in DOMAIN c) /\ c[x].pin \in BOOLEAN /\ Headed(c)
    BY HeapAssumption, Tiles DEF HeapAssumption, Tiling, Headed
  <1>1. m \in Nat /\ x < m /\ m < b /\ n - size \in Nat \ {0} /\ m < Size /\ b \in Nat
    BY <1>0
  <1>2. m \notin DOMAIN c
    BY <1>0, <1>1 DEF Tiling
  <1>3. TakeFrom(g, x, n, size) = u
    BY DEF TakeFrom, VoSized
  <1>4. Sized(fs) /\ x \in DOMAIN fs /\ fs[x] = n
    BY FreeSized, FreeOf
  <1>5. DOMAIN gs = DOMAIN fs \ {x} /\ (\A y \in DOMAIN fs : y # x => gs[y] = fs[y]) /\ gs = [y \in DOMAIN gs |-> gs[y]]
    BY DEF Drop
  <1>6. m \notin DOMAIN gs
    BY <1>2, <1>5, FreeOf
  <1> HIDE DEF m
  <1>7. Index(rest, hs) /\ rest.chunk = Put(c, m, [ut |-> "fc", size |-> n - size, pin |-> TRUE])
    <2> DEFINE k == n - size
               yes == TRUE
    <2>1. k \in Nat \ {0}
      BY <1>1
    <2> HIDE DEF k, yes
    <2>2. LET r == gci_add_fc(g, m, k, yes) IN
          /\ Index(r, Put(gs, m, k))
          /\ r.chunk = Put(g.chunk, m, [ut |-> "fc", size |-> k,
                                       pin |-> IF m \in DOMAIN g.chunk THEN g.chunk[m].pin ELSE yes])
      BY <1>1, <1>6, <2>1, AddIndexed
    <2> QED BY <1>2, <2>2 DEF k, yes
  <1> DEFINE v == Hd("fc", n - size, TRUE)
             d1 == Put(c, m, v)
  <1>8. rest.chunk = d1
    BY <1>7 DEF Hd
  <1>9. Headed(d1)
    BY <1>0, <1>1, PutHeaded
  <1>10. v.ut = "fc" /\ v.size = n - size /\ v.pin = TRUE
    BY DEF Hd
  <1> HIDE DEF v, rest, hs
  <1>11. DOMAIN d1 = DOMAIN c \cup {m} /\ d1[m] = v /\ \A y \in DOMAIN c : y # m => d1[y] = c[y]
    BY DEF Put
  <1> HIDE DEF d1
  <1>12. hmu_is_in_heap(m)
    BY <1>1 DEF hmu_is_in_heap
  <1>13. Index(mk, hs) /\ mk.chunk = Put(d1, m, Hd(d1[m].ut, d1[m].size, TRUE))
    <2> DEFINE yes == TRUE
               k == mark_pinuse(rest, m, yes)
    <2>0. mk = k
      OBVIOUS
    <2> HIDE DEF yes
    <2>1. /\ Index(k, hs)
          /\ k.chunk = IF hmu_is_in_heap(m) THEN Put(rest.chunk, m, Hd(rest.chunk[m].ut, rest.chunk[m].size, yes))
                       ELSE rest.chunk
      BY <1>7, <1>8, <1>9, <1>11, <1>12, Marked
    <2> HIDE DEF mk, k
    <2> QED BY <2>0, <2>1, <1>8, <1>12 DEF yes
  <1>14. Hd(d1[m].ut, d1[m].size, TRUE) = v
    BY <1>10, <1>11 DEF Hd, v
  <1> DEFINE d2 == Put(d1, m, v)
  <1>15. DOMAIN d2 = DOMAIN c \cup {m} /\ d2[m] = v /\ \A y \in DOMAIN c : d2[y] = c[y]
    BY <1>2, <1>11 DEF Put
  <1>16. Headed(d2)
    <2>1. n - size \in Nat \ {0} /\ v = Hd("fc", n - size, TRUE)
      BY <1>1 DEF v
    <2> QED BY <2>1, <1>9, PutHeaded
  <1>17. mk.chunk = d2
    BY <1>13, <1>14
  <1> HIDE DEF mk, d2
  <1> DEFINE w == Hd("vo", size, c[x].pin)
             d == Put(d2, x, w)
  <1>18. Index(u, hs) /\ u.chunk = d
    <2>1. d2[x] = c[x] /\ x \in DOMAIN d2
      BY <1>15
    <2> HIDE DEF d, w
    <2>2. Index(u, hs) /\ u.chunk = Put(mk.chunk, x, Hd("vo", size, mk.chunk[x].pin))
      BY <2>1, <1>13, <1>16, <1>17, Taken2
    <2> QED BY <2>1, <2>2, <1>17 DEF d, w
  <1>19. w.ut = "vo" /\ w.size = size /\ w.pin = c[x].pin
    BY DEF Hd
  <1>20. Headed(d)
    BY <1>0, <1>16, PutHeaded
  <1> HIDE DEF w
  <1>21. /\ DOMAIN d = DOMAIN c \cup {m} /\ d[m] = v /\ d[x] = w
         /\ \A y \in DOMAIN c : y # x => d[y] = c[y]
    BY <1>1, <1>2, <1>15 DEF Put
  <1> HIDE DEF d
  <1>22. Rezoned(d, c, x, m, b)
    <2>1. \A z \in DOMAIN c : z \in Nat /\ (z > x => z >= b)
      BY <1>0, Tiles DEF Tiling
    <2>2. \A z : z \in DOMAIN d <=> (z \in DOMAIN c /\ (z < x \/ z >= b)) \/ z = x \/ (z = m /\ m < b)
      BY <1>0, <1>1, <1>21, <2>1
    <2>3. d[x].size = m - x /\ d[x].pin = c[x].pin /\ d[m].size = b - m /\ d[m].ut = "fc" /\ d[x].ut = "vo"
      BY <1>0, <1>10, <1>19, <1>21 DEF m
    <2>4. \A z \in DOMAIN c : z < x \/ z >= b =>
            d[z].size = c[z].size /\ d[z].ut = c[z].ut /\ (z # b => d[z].pin = c[z].pin)
      BY <1>0, <1>1, <1>21
    <2> HIDE DEF b
    <2> QED BY <1>0, <1>1, <1>20, <2>2, <2>3, <2>4 DEF Rezoned, Headed
  <1>23. hs = FreeSizes(d)
    <2>1. DOMAIN hs = DOMAIN gs \cup {m} /\ hs[m] = n - size /\ (\A y \in DOMAIN gs : hs[y] = gs[y]) /\ hs = [y \in DOMAIN hs |-> hs[y]]
      BY <1>6 DEF hs, Put
    <2>2. \A z : z \in DOMAIN fs <=> z \in DOMAIN c /\ c[z].ut = "fc"
      BY FreeOf
    <2>3. \A z \in DOMAIN fs : fs[z] = c[z].size
      BY FreeOf
    <2> HIDE DEF gs, fs
    <2>4. \A z : z \in DOMAIN hs <=> z \in DOMAIN d /\ d[z].ut = "fc"
      BY <1>2, <1>5, <1>10, <1>19, <1>21, <2>1, <2>2
    <2>5. \A z \in DOMAIN hs : hs[z] = d[z].size
      BY <1>2, <1>5, <1>10, <1>19, <1>21, <2>1, <2>2, <2>3
    <2> QED BY <2>1, <2>4, <2>5, FreeIs
  <1>24. Weight(hs) = Weight(fs) - (m - x)
    <2>1. Weight(fs) \in Int /\ Weight(gs) = Weight(fs) - n
      BY <1>0, <1>4, DropWeight
    <2>2. Sized(gs)
      BY <1>4, DropSized
    <2>3. Weight(hs) = Weight(gs) + (n - size)
      <3> HIDE DEF gs
      <3> QED BY <1>1, <1>6, <2>2, PutWeight DEF hs
    <2> QED BY <2>1, <2>3, <1>0 DEF m
  <1>25. m < b => d[m].pin = TRUE
    BY <1>10, <1>21
  <1>26. b \in DOMAIN c => d[b].pin = c[b].pin
    BY <1>0, <1>1, <1>21
  <1> HIDE DEF b, u, fs
  <1>27. TakenFrom(u, c, x, m, b)
    BY <1>1, <1>18, <1>19, <1>21, <1>22, <1>23, <1>24, <1>25, <1>26 DEF TakenFrom, fs
  <1> QED BY <1>3, <1>27 DEF m, b

\* TakeFrom of a chunk that is given whole.
LEMMA TakeWhole ==
  ASSUME NEW g, NEW c, c = g.chunk, Tiling(c), NEW x \in DOMAIN c, c[x].ut = "fc",
         Index(g, Drop(FreeSizes(c), x)), NEW n, c[x].size = n, NEW size \in Nat \ {0}, ~(n >= size + Smallest)
  PROVE  TakenFrom(TakeFrom(g, x, n, size), c, x, x + n, x + n)
  <1> DEFINE b == x + n
             fs == FreeSizes(c)
             gs == Drop(fs, x)
             mk == mark_pinuse(g, b, TRUE)
             u == Vo(mk, x)
  <1>0. Size \in Nat /\ x \in Nat /\ n \in Nat \ {0} /\ b <= Size /\ x < Size
        /\ (b < Size <=> b \in DOMAIN c) /\ c[x].pin \in BOOLEAN /\ Headed(c) /\ (b = Size \/ b \in DOMAIN c)
    BY HeapAssumption, Tiles DEF HeapAssumption, Tiling, Headed
  <1>1. b \in Nat /\ x < b /\ b # x
    BY <1>0
  <1>3. TakeFrom(g, x, n, size) = u
    BY DEF TakeFrom, Vo
  <1>4. Sized(fs) /\ x \in DOMAIN fs /\ fs[x] = n
    BY FreeSized, FreeOf
  <1>5. DOMAIN gs = DOMAIN fs \ {x} /\ (\A y \in DOMAIN fs : y # x => gs[y] = fs[y]) /\ gs = [y \in DOMAIN gs |-> gs[y]]
    BY DEF Drop
  <1> HIDE DEF b
  <1>6. hmu_is_in_heap(b) <=> b \in DOMAIN c
    BY <1>0, <1>1 DEF hmu_is_in_heap
  <1> DEFINE d2 == mk.chunk
  <1>7. Index(mk, gs) /\ d2 = IF b \in DOMAIN c THEN Put(c, b, Hd(c[b].ut, c[b].size, TRUE)) ELSE c
    <2> DEFINE yes == TRUE
               k == mark_pinuse(g, b, yes)
    <2>0. mk = k
      OBVIOUS
    <2> HIDE DEF yes
    <2>1. /\ Index(k, gs)
          /\ k.chunk = IF hmu_is_in_heap(b) THEN Put(g.chunk, b, Hd(g.chunk[b].ut, g.chunk[b].size, yes))
                       ELSE g.chunk
      BY <1>0, <1>6, Marked
    <2> HIDE DEF mk, k
    <2> QED BY <2>0, <2>1, <1>6 DEF yes
  <1> HIDE DEF mk
  <1>8. /\ DOMAIN d2 = DOMAIN c /\ Headed(d2) /\ \A y \in DOMAIN c : y # b => d2[y] = c[y]
        /\ b \in DOMAIN c => d2[b].ut = c[b].ut /\ d2[b].size = c[b].size /\ d2[b].pin = TRUE
    <2>1. CASE b \notin DOMAIN c
      BY <2>1, <1>0, <1>7
    <2>2. CASE b \in DOMAIN c
      <3> DEFINE v == Hd(c[b].ut, c[b].size, TRUE)
      <3>1. v.ut = c[b].ut /\ v.size = c[b].size /\ v.pin = TRUE
        BY DEF Hd
      <3>2. Headed(Put(c, b, v))
        <4>1. c[b].ut \in {"fc", "vo"} /\ c[b].size \in Nat \ {0}
          BY <2>2, Tiles
        <4> QED BY <4>1, <1>0, PutHeaded
      <3> HIDE DEF v, d2
      <3>3. d2 = Put(c, b, v)
        BY <2>2, <1>7 DEF v
      <3>4. DOMAIN d2 = DOMAIN c /\ d2[b] = v /\ \A y \in DOMAIN c : y # b => d2[y] = c[y]
        BY <2>2, <3>3 DEF Put
      <3> QED BY <3>1, <3>2, <3>3, <3>4
    <2> QED BY <2>1, <2>2
  <1> DEFINE w == Hd("vo", n, c[x].pin)
             d == Put(d2, x, w)
  <1>9. d2[x] = c[x] /\ x \in DOMAIN d2
    BY <1>1, <1>8
  <1>10. Index(u, gs) /\ u.chunk = d
    <2> HIDE DEF d, w
    <2>1. Index(u, gs) /\ u.chunk = Put(mk.chunk, x, Hd("vo", mk.chunk[x].size, mk.chunk[x].pin))
      <3>1. Index(mk, gs) /\ Headed(mk.chunk) /\ x \in DOMAIN mk.chunk
        BY <1>7, <1>8, <1>9, Zenon
      <3> QED BY <3>1, Taken1, Zenon
    <2> QED BY <2>1, <1>9 DEF d, w
  <1>11. w.ut = "vo" /\ w.size = n /\ w.pin = c[x].pin
    BY DEF Hd
  <1>12. Headed(d)
    BY <1>0, <1>8, PutHeaded
  <1> HIDE DEF w, d2
  <1>13. DOMAIN d = DOMAIN c /\ d[x] = w /\ \A y \in DOMAIN c : y # x => d[y] = d2[y]
    BY <1>8 DEF Put
  <1> HIDE DEF d
  <1>14. Rezoned(d, c, x, b, b)
    <2>1. \A z \in DOMAIN c : z \in Nat /\ (z > x => z >= b)
      BY <1>0, Tiles DEF Tiling, b
    <2>2. \A z : z \in DOMAIN d <=> (z \in DOMAIN c /\ (z < x \/ z >= b)) \/ z = x \/ (z = b /\ b < b)
      BY <1>0, <1>1, <1>13, <2>1
    <2>3. d[x].size = b - x /\ d[x].pin = c[x].pin
      BY <1>0, <1>11, <1>13 DEF b
    <2>4. ASSUME NEW z \in DOMAIN c, z < x \/ z >= b
          PROVE d[z].size = c[z].size /\ d[z].ut = c[z].ut /\ (z # b => d[z].pin = c[z].pin)
      <3>1. z # x
        BY <2>4, <1>0, <1>1
      <3>2. CASE z = b
        BY <3>1, <3>2, <1>8, <1>13
      <3>3. CASE z # b
        BY <3>1, <3>3, <1>8, <1>13
      <3> QED BY <3>2, <3>3
    <2>5. ~(b < b)
      BY <1>1
    <2> QED BY <1>0, <1>1, <1>12, <2>2, <2>3, <2>4, <2>5 DEF Rezoned, Headed
  <1>15. gs = FreeSizes(d)
    <2>2. \A z : z \in DOMAIN fs <=> z \in DOMAIN c /\ c[z].ut = "fc"
      BY FreeOf
    <2>3. \A z \in DOMAIN fs : fs[z] = c[z].size
      BY FreeOf
    <2>4. \A z \in DOMAIN c : z # x => d[z].ut = c[z].ut /\ d[z].size = c[z].size
      BY <1>8, <1>13
    <2> HIDE DEF gs, fs
    <2>5. \A z : z \in DOMAIN gs <=> z \in DOMAIN d /\ d[z].ut = "fc"
      BY <1>5, <1>11, <1>13, <2>2, <2>4
    <2>6. \A z \in DOMAIN gs : gs[z] = d[z].size
      BY <1>5, <1>11, <1>13, <2>2, <2>3, <2>4
    <2> QED BY <1>5, <2>5, <2>6, FreeIs
  <1>16. Weight(gs) = Weight(fs) - (b - x)
    <2>1. Weight(fs) \in Int /\ Weight(gs) = Weight(fs) - n
      BY <1>0, <1>4, DropWeight
    <2>2. b - x = n
      BY <1>0 DEF b
    <2> QED BY <2>1, <2>2
  <1>17. b \in DOMAIN c => d[b].pin = TRUE
    BY <1>1, <1>8, <1>13
  <1>18. ~(b < b)
    BY <1>1
  <1> HIDE DEF u, fs, gs
  <1>19. TakenFrom(u, c, x, b, b)
    BY <1>1, <1>10, <1>11, <1>13, <1>14, <1>15, <1>16, <1>17, <1>18 DEF TakenFrom, fs
  <1> QED BY <1>3, <1>19 DEF b

\* What TakeFrom makes of a chunk.
Served(u, c, x, size) ==
  \E m \in Nat : /\ TakenFrom(u, c, x, m, x + c[x].size)
                 /\ m - x >= size /\ (m < x + c[x].size => x + c[x].size - m >= Smallest)

\* TakeFrom gives the size asked for, and leaves nothing smaller than a chunk.
LEMMA TakeServes ==
  ASSUME NEW g, NEW c, c = g.chunk, Tiling(c), NEW x \in DOMAIN c, c[x].ut = "fc",
         Index(g, Drop(FreeSizes(c), x)), NEW n, c[x].size = n, NEW size \in Nat \ {0}, n >= size
  PROVE  Served(TakeFrom(g, x, n, size), c, x, size)
  <1>0. x \in Nat /\ n \in Nat \ {0} /\ Smallest \in Nat /\ Smallest > 1
    BY HeapAssumption, Tiles DEF HeapAssumption
  <1> DEFINE u == TakeFrom(g, x, n, size)
  <1>1. CASE n >= size + Smallest
    <2> DEFINE m == x + size
    <2>1. TakenFrom(u, c, x, m, x + n)
      BY <1>1, TakePart
    <2>2. m \in Nat /\ m - x >= size /\ x + n - m >= Smallest
      BY <1>0, <1>1
    <2> HIDE DEF m, u
    <2> QED BY <2>1, <2>2 DEF Served, u
  <1>2. CASE ~(n >= size + Smallest)
    <2> DEFINE m == x + n
    <2>1. TakenFrom(u, c, x, m, m)
      BY <1>2, TakeWhole
    <2>2. m \in Nat /\ m - x >= size /\ ~(m < m)
      BY <1>0
    <2> HIDE DEF u
    <2>3. m = x + c[x].size
      OBVIOUS
    <2> HIDE DEF m
    <2> QED BY <2>1, <2>2, <2>3 DEF Served, u
  <1> QED BY <1>1, <1>2

-----------------------------------------------------------------------------
(* A request served.                                                       *)

Need(req) == IF req < Smallest THEN Smallest ELSE req

\* at is one of the smallest free chunks of the size, or none is large enough.
Smallfit(c, at, size) ==
  /\ at = Nil => \A z \in DOMAIN c : c[z].ut = "fc" => c[z].size < size
  /\ at # Nil =>
       /\ at \in DOMAIN c /\ c[at].ut = "fc" /\ c[at].size >= size
       /\ \A z \in DOMAIN c : c[z].ut = "fc" /\ c[z].size >= size => c[at].size <= c[z].size

\* The head of a list of alloc_hmu is a free chunk of its size, and leaves the index.
LEMMA SmallTaken ==
  ASSUME NEW h, NEW fs, Index(h, fs), NEW n \in 1..NormalMax - 1, h.normal[n] # <<>>
  PROVE  LET g == [h EXCEPT !.normal[n] = Tail(@)]
             x == Head(h.normal[n])
         IN  x \in DOMAIN fs /\ fs[x] = n /\ Index(g, Drop(fs, x)) /\ g.chunk = h.chunk
  <1> DEFINE s == h.normal[n]
             x == Head(s)
             r == Tail(s)
             g == [h EXCEPT !.normal[n] = Tail(@)]
             gs == Drop(fs, x)
             new == [h.normal EXCEPT ![n] = r]
  <1>0. Sized(fs) /\ Listed(h.normal, fs) /\ Grown(h.tree, fs) /\ Whole(h) /\ NormalMax \in Nat /\ n \in Nat /\ n < NormalMax
    BY HeapAssumption DEF HeapAssumption, Index
  <1>1. s \in Seq(Nat) /\ Distinct(s) /\ s # <<>>
    BY <1>0 DEF Listed
  <1> HIDE DEF s
  <1>2. r \in Seq(Nat) /\ Distinct(r) /\ Occurs(s, x) /\ \A z : Occurs(r, z) <=> Occurs(s, z) /\ z # x
    BY <1>1, TailDistinct
  <1> HIDE DEF r, x
  <1>3. x \in DOMAIN fs /\ fs[x] = n
    BY <1>0, <1>2 DEF Listed, s
  <1>4. Listed(new, gs)
    <2>1. \A z : Occurs(r, z) <=> Occurs(h.normal[n], z) /\ z # x
      BY <1>2 DEF s
    <2> QED BY <1>0, <1>2, <1>3, <2>1, DropListed
  <1>5. Grown(h.tree, gs)
    BY <1>0, <1>3, SmallGrown
  <1>6. g = [h EXCEPT !.normal = new]
    BY DEF r, s
  <1>7. Sized(gs)
    BY <1>0, DropSized
  <1> HIDE DEF g, new, gs
  <1>8. g = [chunk |-> h.chunk, normal |-> new, tree |-> h.tree]
    BY <1>0, <1>6, Refit
  <1>9. g.chunk = h.chunk /\ g.normal = new /\ g.tree = h.tree
    BY <1>8
  <1>10. Index(g, gs)
    BY <1>4, <1>5, <1>7, <1>8, <1>9 DEF Index, Whole
  <1> QED BY <1>3, <1>9, <1>10 DEF g, gs, x, s

\* A node of the tree is a big free chunk, and leaves the index.
LEMMA BigTaken ==
  ASSUME NEW h, NEW fs, Index(h, fs), NEW x \in DOMAIN fs, fs[x] >= NormalMax
  PROVE  LET g == [h EXCEPT !.tree = remove_tree_node(@, x)]
         IN  Index(g, Drop(fs, x)) /\ g.chunk = h.chunk
  <1> DEFINE g == [h EXCEPT !.tree = remove_tree_node(@, x)]
             gs == Drop(fs, x)
             new == remove_tree_node(h.tree, x)
  <1>0. Sized(fs) /\ Listed(h.normal, fs) /\ Grown(h.tree, fs) /\ Whole(h)
    BY DEF Index
  <1>1. fs[x] \in Nat
    BY <1>0 DEF Sized
  <1>2. Grown(new, gs)
    BY <1>0, DropGrown
  <1>3. Listed(h.normal, gs)
    BY <1>0, <1>1, BigListed
  <1>4. Sized(gs)
    BY <1>0, DropSized
  <1>5. g = [h EXCEPT !.tree = new]
    OBVIOUS
  <1> HIDE DEF g, gs, new
  <1>6. g = [chunk |-> h.chunk, normal |-> h.normal, tree |-> new]
    BY <1>0, <1>5, Refit
  <1>7. g.chunk = h.chunk /\ g.normal = h.normal /\ g.tree = new
    BY <1>6
  <1>8. Index(g, gs)
    BY <1>2, <1>3, <1>4, <1>6, <1>7 DEF Index, Whole
  <1> QED BY <1>7, <1>8 DEF g, gs

\* What alloc_hmu does: a smallest fit, and nothing when there is none.
LEMMA AllocServes ==
  ASSUME NEW h, Tiling(h.chunk), Index(h, FreeSizes(h.chunk)), NEW req \in Nat
  PROVE  LET r == alloc_hmu(h, req) IN
         /\ Smallfit(h.chunk, r.at, Need(req))
         /\ r.at = Nil => r.hp = h
         /\ r.at # Nil => Served(r.hp, h.chunk, r.at, Need(req))
  <1> DEFINE c == h.chunk
             fs == FreeSizes(c)
             size == Need(req)
             lists == {n \in size..NormalMax - 1 : h.normal[n] # <<>>}
             n == Min(lists)
             small == Head(h.normal[n])
             big == BestNode(h.tree, size)
             gSmall == [h EXCEPT !.normal[n] = Tail(@)]
             gBig == [h EXCEPT !.tree = remove_tree_node(@, big)]
             r == alloc_hmu(h, req)
  <1>0. size \in Nat \ {0} /\ NormalMax \in Nat /\ Sized(fs) /\ Listed(h.normal, fs) /\ Grown(h.tree, fs)
    BY HeapAssumption DEF HeapAssumption, Need, Index
  <1>1. /\ \A z : z \in DOMAIN fs <=> z \in DOMAIN c /\ c[z].ut = "fc"
        /\ \A z \in DOMAIN fs : fs[z] = c[z].size /\ fs[z] \in Nat \ {0} /\ z \in Nat
    BY <1>0, FreeOf DEF Sized
  <1>2. PICK over : Tree(h.tree, over)
    BY <1>0 DEF Grown
  <1>3. IF big = Nil THEN \A z \in DOMAIN h.tree \ {Root} : h.tree[z].size < size
        ELSE /\ big \in DOMAIN h.tree \ {Root} /\ h.tree[big].size >= size
             /\ \A z \in DOMAIN h.tree \ {Root} : h.tree[z].size >= size => h.tree[big].size <= h.tree[z].size
    BY <1>0, <1>2, BestIsSmallest
  <1>4. r = CASE HMU_IS_FC_NORMAL(size) /\ lists # {} ->
                   [at |-> small, hp |-> TakeFrom(gSmall, small, n, size)]
              [] ~(HMU_IS_FC_NORMAL(size) /\ lists # {}) /\ big # Nil ->
                   [at |-> big, hp |-> TakeFrom(gBig, big, h.tree[big].size, size)]
              [] OTHER -> [at |-> Nil, hp |-> h]
    BY DEF alloc_hmu, Need
  <1> HIDE DEF r, size, big, fs
  \* A free chunk of the size that belongs to a list is in one.
  <1>5. ASSUME NEW z \in DOMAIN fs, fs[z] >= size, fs[z] < NormalMax
        PROVE  HMU_IS_FC_NORMAL(size) /\ fs[z] \in lists
    <2>1. fs[z] \in size..NormalMax - 1 /\ fs[z] \in 1..NormalMax - 1 /\ size < NormalMax
      BY <1>0, <1>1, <1>5
    <2>2. h.normal[fs[z]] \in Seq(Nat) /\ Occurs(h.normal[fs[z]], z)
      BY <1>0, <2>1 DEF Listed
    <2>3. h.normal[fs[z]] # <<>>
      BY <2>2 DEF Occurs
    <2> QED BY <2>1, <2>3 DEF HMU_IS_FC_NORMAL
  <1>6. \A z \in DOMAIN fs : fs[z] >= NormalMax => z \in DOMAIN h.tree \ {Root} /\ h.tree[z].size = fs[z]
    BY <1>0, <1>1 DEF Grown, Root
  <1>7. CASE HMU_IS_FC_NORMAL(size) /\ lists # {}
    <2>1. lists \in SUBSET Nat
      BY <1>0
    <2>2. n \in lists /\ \A k \in lists : n <= k
      <3> HIDE DEF lists
      <3>1. \E i \in lists : \A j \in lists : i <= j
        BY <1>7, <2>1, Least
      <3> QED BY <3>1 DEF Min
    <2>3. r = [at |-> small, hp |-> TakeFrom(gSmall, small, n, size)]
      <3> HIDE DEF lists, n, small, gSmall, gBig
      <3> QED BY <1>4, <1>7
    <2> HIDE DEF n
    <2>4. n \in 1..NormalMax - 1 /\ h.normal[n] # <<>> /\ n >= size /\ n \in Nat /\ n < NormalMax
      BY <1>0, <2>2
    <2>5. small \in DOMAIN fs /\ fs[small] = n /\ Index(gSmall, Drop(fs, small)) /\ gSmall.chunk = h.chunk
      BY <2>4, SmallTaken DEF fs
    <2> HIDE DEF small, gSmall
    <2>6. small \in DOMAIN c /\ c[small].ut = "fc" /\ c[small].size = n /\ small # Nil
      BY <1>1, <2>5 DEF Nil
    <2>7. Served(TakeFrom(gSmall, small, n, size), c, small, size)
      BY <1>0, <2>4, <2>5, <2>6, TakeServes DEF fs
    <2>8. ASSUME NEW z \in DOMAIN c, c[z].ut = "fc", c[z].size >= size PROVE n <= c[z].size
      <3>1. z \in DOMAIN fs /\ fs[z] = c[z].size /\ fs[z] \in Nat
        BY <1>1, <2>8
      <3>2. CASE fs[z] < NormalMax
        <4>1. fs[z] \in lists
          BY <3>1, <3>2, <2>8, <1>5
        <4> HIDE DEF lists
        <4> QED BY <4>1, <3>1, <2>2
      <3>3. CASE ~(fs[z] < NormalMax)
        BY <3>1, <3>3, <2>4, <1>0
      <3> QED BY <3>2, <3>3
    <2>9. r.at = small /\ r.hp = TakeFrom(gSmall, small, n, size)
      BY <2>3
    <2>10. Smallfit(c, r.at, size)
      <3> HIDE DEF c
      <3> QED BY <2>4, <2>6, <2>8, <2>9 DEF Smallfit
    <2> QED BY <2>6, <2>7, <2>9, <2>10 DEF r, size
  <1>8. CASE ~(HMU_IS_FC_NORMAL(size) /\ lists # {}) /\ big # Nil
    <2>0. \A z \in DOMAIN fs : fs[z] >= size => fs[z] >= NormalMax
      <3>1. ASSUME NEW z \in DOMAIN fs, fs[z] >= size, fs[z] < NormalMax PROVE FALSE
        BY <3>1, <1>5, <1>8
      <3> QED BY <3>1, <1>0, <1>1
    <2>1. r = [at |-> big, hp |-> TakeFrom(gBig, big, h.tree[big].size, size)]
      <3> HIDE DEF lists, n, small, gSmall, gBig
      <3> QED BY <1>4, <1>8
    <2>2. big \in DOMAIN fs /\ fs[big] = h.tree[big].size /\ fs[big] >= NormalMax /\ fs[big] >= size
      BY <1>0, <1>3, <1>8 DEF Grown
    <2>3. Index(gBig, Drop(fs, big)) /\ gBig.chunk = h.chunk
      BY <2>2, BigTaken DEF fs
    <2> HIDE DEF gBig
    <2>4. big \in DOMAIN c /\ c[big].ut = "fc" /\ c[big].size = h.tree[big].size /\ c[big].size >= size
      BY <1>1, <2>2
    <2>5. Served(TakeFrom(gBig, big, h.tree[big].size, size), c, big, size)
      BY <1>0, <2>3, <2>4, TakeServes DEF fs
    <2>6. ASSUME NEW z \in DOMAIN c, c[z].ut = "fc", c[z].size >= size PROVE c[big].size <= c[z].size
      <3>1. z \in DOMAIN fs /\ fs[z] = c[z].size
        BY <1>1, <2>6
      <3>2. z \in DOMAIN h.tree \ {Root} /\ h.tree[z].size = c[z].size
        BY <3>1, <2>0, <2>6, <1>6
      <3> QED BY <3>2, <2>4, <2>6, <1>3, <1>8
    <2>7. r.at = big /\ r.hp = TakeFrom(gBig, big, h.tree[big].size, size)
      BY <2>1
    <2>8. Smallfit(c, r.at, size)
      <3> HIDE DEF c
      <3> QED BY <1>8, <2>4, <2>6, <2>7 DEF Smallfit
    <2> QED BY <1>8, <2>5, <2>7, <2>8 DEF r, size
  <1>9. CASE ~(HMU_IS_FC_NORMAL(size) /\ lists # {}) /\ big = Nil
    <2>1. r = [at |-> Nil, hp |-> h]
      <3> HIDE DEF lists, n, small, gSmall, gBig
      <3> QED BY <1>4, <1>9
    <2>2. r.at = Nil /\ r.hp = h
      BY <2>1
    <2>3. ASSUME NEW z \in DOMAIN c, c[z].ut = "fc" PROVE c[z].size < size
      <3>1. z \in DOMAIN fs /\ fs[z] = c[z].size /\ fs[z] \in Nat
        BY <1>1, <2>3
      <3>2. CASE fs[z] < NormalMax
        BY <3>1, <3>2, <1>0, <1>5, <1>9
      <3>3. CASE ~(fs[z] < NormalMax)
        <4>1. z \in DOMAIN h.tree \ {Root} /\ h.tree[z].size = fs[z]
          BY <3>1, <3>3, <1>0, <1>6
        <4> QED BY <4>1, <3>1, <1>3, <1>9
      <3> QED BY <3>2, <3>3
    <2>4. Smallfit(c, r.at, size)
      <3> HIDE DEF c
      <3> QED BY <2>2, <2>3 DEF Smallfit
    <2> QED BY <2>2, <2>4 DEF r, size
  <1> QED BY <1>7, <1>8, <1>9

-----------------------------------------------------------------------------
(* A chunk freed.                                                          *)

FreeBefore(h, x) == IF h.chunk[x].pin THEN 0 ELSE Footer(h, x)
Merges(h, x) == FreeBefore(h, x) # 0 /\ hmu_is_in_heap(x - FreeBefore(h, x))

\* The footer of a free chunk is its size, but where it has only room for a link.
LEMMA FooterIs ==
  ASSUME NEW h, Tiling(h.chunk), Index(h, FreeSizes(h.chunk)), NEW x \in DOMAIN h.chunk, x # 0,
         h.chunk[Before(h, x)].ut = "fc"
  PROVE  /\ Footer(h, x) \in Int
         /\ h.chunk[Before(h, x)].size > 1 => Footer(h, x) = h.chunk[Before(h, x)].size
  <1> DEFINE y == Before(h, x)
             c == h.chunk
             list == h.normal[1]
             k == CHOOSE i \in DOMAIN list : list[i] = y
             fs == FreeSizes(c)
  <1>0. y \in DOMAIN c /\ c[y].size \in Nat \ {0} /\ y \in Nat
    BY BeforeEnds, Tiles
  <1>1. y \in DOMAIN fs /\ fs[y] = c[y].size
    BY <1>0, FreeOf
  <1>2. Footer(h, x) = CASE c[y].size > 1 -> c[y].size
                         [] OTHER -> IF k = Len(list) THEN 0 ELSE list[k + 1] - y
    BY DEF Footer
  <1> HIDE DEF y
  <1>3. CASE c[y].size > 1
    <2> HIDE DEF k, list
    <2> QED BY <1>0, <1>2, <1>3 DEF y
  <1>4. CASE ~(c[y].size > 1)
    <2>1. c[y].size = 1
      BY <1>0, <1>4
    <2>2. 1 \in 1..NormalMax - 1
      BY HeapAssumption DEF HeapAssumption
    <2>3. list \in Seq(Nat) /\ Occurs(list, y)
      BY <1>1, <2>1, <2>2 DEF Index, Listed
    <2> HIDE DEF list
    <2>4. DOMAIN list = 1..Len(list) /\ Len(list) \in Nat
      BY <2>3
    <2>5. \E i \in DOMAIN list : list[i] = y
      BY <2>3, <2>4 DEF Occurs
    <2>6. k \in DOMAIN list
      BY <2>5
    <2> HIDE DEF k
    <2>7. k # Len(list) => list[k + 1] \in Nat
      <3>1. k # Len(list) => k + 1 \in 1..Len(list)
        BY <2>4, <2>6
      <3> QED BY <3>1, <2>3
    <2>8. Footer(h, x) = IF k = Len(list) THEN 0 ELSE list[k + 1] - y
      BY <1>2, <1>4
    <2>9. Footer(h, x) \in Int
      BY <2>7, <2>8, <1>0
    <2> QED BY <2>9, <1>4 DEF y
  <1> QED BY <1>3, <1>4

\* FreeChunk merges with the free chunk before, and does so whenever footers have room.
LEMMA Merging ==
  ASSUME NEW h, Tiling(h.chunk), Index(h, FreeSizes(h.chunk)), NEW x \in DOMAIN h.chunk,
         h.chunk[0].pin = TRUE, ~FreeIsWild(h, x)
  PROVE  LET c == h.chunk
             low == x - FreeBefore(h, x)
         IN  /\ Merges(h, x) => /\ low \in DOMAIN c /\ c[low].ut = "fc" /\ low + c[low].size = x
                                /\ FreeBefore(h, x) = c[low].size
             /\ ~Merges(h, x) /\ c[x].pin = FALSE => ~Roomy(c)
  <1> DEFINE c == h.chunk
             y == Before(h, x)
             f == Footer(h, x)
  <1>0. c[x].pin \in BOOLEAN /\ x \in Nat /\ x < Size
    BY Tiles
  <1>1. CASE c[x].pin = TRUE
    <2>1. FreeBefore(h, x) = 0
      BY <1>1 DEF FreeBefore
    <2> QED BY <1>1, <2>1 DEF Merges
  <1>2. CASE c[x].pin = FALSE
    <2>1. x # 0
      BY <1>2
    <2>2. y \in DOMAIN c /\ y + c[y].size = x
      BY <2>1, BeforeEnds
    <2>3. c[y].ut = "fc" /\ y \in Nat /\ c[y].size \in Nat \ {0}
      <3>1. c[y].ut # "vo"
        BY <1>2 DEF FreeIsWild
      <3> QED BY <3>1, <2>2, Tiles
    <2>4. f \in Int /\ (c[y].size > 1 => f = c[y].size)
      BY <2>1, <2>3, FooterIs
    <2>5. ~(f # 0 /\ hmu_is_in_heap(x - f) /\ x - f # y)
      BY <1>2, <2>3 DEF FreeIsWild
    <2>6. FreeBefore(h, x) = f
      BY <1>2 DEF FreeBefore
    <2> HIDE DEF f, y
    <2>7. ASSUME Merges(h, x) PROVE x - f = y /\ f = c[y].size
      <3>1. x - f = y
        BY <2>5, <2>6, <2>7 DEF Merges
      <3> QED BY <3>1, <2>2, <2>3, <2>4, <1>0
    <2>8. ASSUME ~Merges(h, x) PROVE ~Roomy(c)
      <3>1. ASSUME c[y].size > 1 PROVE FALSE
        <4>1. f = c[y].size /\ f # 0
          BY <3>1, <2>3, <2>4
        <4>2. x - f = y
          BY <4>1, <2>2, <2>3
        <4>3. hmu_is_in_heap(x - f)
          BY <4>2, <2>2, <2>3, <1>0, HeapAssumption DEF hmu_is_in_heap, HeapAssumption
        <4> QED BY <4>1, <4>3, <2>6, <2>8 DEF Merges
      <3> QED BY <3>1, <2>2 DEF Roomy
    <2> QED BY <2>2, <2>3, <2>6, <2>7, <2>8
  <1> QED BY <1>0, <1>1, <1>2

\* y is out of its list or of the tree, and z has no header any more.
Joined(g, y, z) == [unlink_hmu(g, y) EXCEPT !.chunk = Drop(@, z)]

\* A free neighbour leaves the index and its header.
LEMMA JoinIndexed ==
  ASSUME NEW g, NEW gs, Index(g, gs), NEW y \in DOMAIN gs, g.chunk[y].size = gs[y], NEW z
  PROVE  Index(Joined(g, y, z), Drop(gs, y)) /\ Joined(g, y, z).chunk = Drop(g.chunk, z)
  <1> DEFINE u == unlink_hmu(g, y)
             v == Joined(g, y, z)
             d == Drop(u.chunk, z)
  <1>1. Index(u, Drop(gs, y)) /\ u.chunk = g.chunk
    BY UnlinkIndexed
  <1>2. v = [u EXCEPT !.chunk = d]
    BY DEF Joined
  <1> HIDE DEF u, v
  <1>3. d = Drop(g.chunk, z)
    BY <1>1
  <1> HIDE DEF d
  <1>4. Index(v, Drop(gs, y)) /\ v.chunk = d
    BY <1>1, <1>2, Reheaded
  <1> QED BY <1>3, <1>4 DEF v

\* What is left of the chunks c and of the free ones fs without C and without F.
Rest(g, gs, c, fs, C, F) ==
  /\ Index(g, gs) /\ Headed(g.chunk)
  /\ \A z : z \in DOMAIN g.chunk <=> z \in DOMAIN c /\ z \notin C
  /\ \A z \in DOMAIN g.chunk : g.chunk[z] = c[z]
  /\ \A z : z \in DOMAIN gs <=> z \in DOMAIN fs /\ z \notin F
  /\ \A z \in DOMAIN gs : gs[z] = fs[z]

\* What is left when one more neighbour is taken in.
LEMMA RestJoined ==
  ASSUME NEW g, NEW gs, NEW c, NEW fs, NEW C, NEW F, Rest(g, gs, c, fs, C, F),
         NEW y \in DOMAIN gs, y \in DOMAIN g.chunk, c[y].size = fs[y], NEW z
  PROVE  Rest(Joined(g, y, z), Drop(gs, y), c, fs, C \cup {z}, F \cup {y})
  <1> DEFINE v == Joined(g, y, z)
             hs == Drop(gs, y)
             d == Drop(g.chunk, z)
  <1>1. Index(v, hs) /\ v.chunk = d
    <2>1. g.chunk[y].size = gs[y]
      BY DEF Rest
    <2> QED BY <2>1, JoinIndexed DEF Rest
  <1>2. Headed(d)
    BY DropHeaded DEF Rest
  <1>3. DOMAIN d = DOMAIN g.chunk \ {z} /\ \A w \in DOMAIN d : d[w] = g.chunk[w]
    BY DEF Drop
  <1>4. DOMAIN hs = DOMAIN gs \ {y} /\ \A w \in DOMAIN hs : hs[w] = gs[w]
    BY DEF Drop
  <1> HIDE DEF v, hs, d
  <1>5. Rest(v, hs, c, fs, C \cup {z}, F \cup {y})
    BY <1>1, <1>2, <1>3, <1>4 DEF Rest
  <1> QED BY <1>5 DEF v, hs

\* The chunks from low to b are one free chunk.
Freed(u, c, low, b) ==
  /\ Rezoned(u.chunk, c, low, b, b) /\ u.chunk[low].ut = "fc"
  /\ b \in DOMAIN c => u.chunk[b].pin = FALSE
  /\ Index(u, FreeSizes(u.chunk))

\* C are the headers and F the free chunks between low and b.
Between(c, C, F, low, b) ==
  /\ low \in DOMAIN c /\ b \in Nat /\ low < b /\ (b = Size \/ b \in DOMAIN c)
  /\ \A z \in DOMAIN c : z \in C <=> low < z /\ z < b
  /\ \A z \in DOMAIN c : z \in F <=> low <= z /\ z < b /\ c[z].ut = "fc"

Ending(g, low, all) == mark_pinuse(gci_add_fc(g, low, all, TRUE), low + all, FALSE)

\* The end of FreeChunk: what was cleared is one free chunk.
LEMMA AddAndMark ==
  ASSUME NEW c, Tiling(c), NEW g, NEW gs, NEW C, NEW F, Rest(g, gs, c, FreeSizes(c), C, F),
         NEW low, NEW b, Between(c, C, F, low, b), NEW all \in Nat \ {0}, low + all = b
  PROVE  LET u == Ending(g, low, all) IN
         Freed(u, c, low, b) /\ Weight(gs) \in Int /\ Weight(FreeSizes(u.chunk)) = Weight(gs) + all
  <1> DEFINE fs == FreeSizes(c)
             add == gci_add_fc(g, low, all, TRUE)
             u == mark_pinuse(add, b, FALSE)
             hs == Put(gs, low, all)
             p == c[low].pin
             v == Hd("fc", all, p)
             d1 == Put(g.chunk, low, v)
  <1>0. /\ Size \in Nat /\ low \in DOMAIN c /\ b \in Nat /\ low < b /\ (b = Size \/ b \in DOMAIN c) /\ low \in Nat
        /\ b <= Size /\ p \in BOOLEAN /\ low < Size
    BY HeapAssumption, Tiles DEF HeapAssumption, Between
  <1>1. /\ \A z \in DOMAIN c : z \in C <=> low < z /\ z < b
        /\ \A z \in DOMAIN c : z \in F <=> low <= z /\ z < b /\ c[z].ut = "fc"
        /\ \A z \in DOMAIN c : z \in Nat /\ z < Size
    BY Tiles DEF Between
  <1>2. /\ Index(g, gs) /\ Headed(g.chunk) /\ Sized(gs)
        /\ \A z : z \in DOMAIN g.chunk <=> z \in DOMAIN c /\ z \notin C
        /\ \A z \in DOMAIN g.chunk : g.chunk[z] = c[z]
        /\ \A z : z \in DOMAIN gs <=> z \in DOMAIN fs /\ z \notin F
        /\ \A z \in DOMAIN gs : gs[z] = fs[z]
    BY DEF Rest, Index
  <1>3. /\ \A z : z \in DOMAIN fs <=> z \in DOMAIN c /\ c[z].ut = "fc"
        /\ \A z \in DOMAIN fs : fs[z] = c[z].size
    BY FreeOf
  <1> HIDE DEF fs
  <1>4. low \notin DOMAIN gs
    BY <1>0, <1>1, <1>2, <1>3
  <1>5. low \in DOMAIN g.chunk /\ g.chunk[low] = c[low]
    BY <1>0, <1>1, <1>2
  <1>6. Index(add, hs) /\ add.chunk = d1
    <2> DEFINE yes == TRUE
               r == gci_add_fc(g, low, all, yes)
    <2>0. add = r
      OBVIOUS
    <2> HIDE DEF yes
    <2>1. /\ Index(r, hs)
          /\ r.chunk = Put(g.chunk, low, [ut |-> "fc", size |-> all,
                                          pin |-> IF low \in DOMAIN g.chunk THEN g.chunk[low].pin ELSE yes])
      BY <1>0, <1>2, <1>4, AddIndexed
    <2> HIDE DEF add, r, hs
    <2> QED BY <2>0, <2>1, <1>5 DEF Hd
  <1>7. Headed(d1)
    BY <1>0, <1>2, PutHeaded
  <1>8. v.ut = "fc" /\ v.size = all /\ v.pin = p
    BY DEF Hd
  <1> HIDE DEF v, add
  <1>9. DOMAIN d1 = DOMAIN g.chunk /\ d1[low] = v /\ \A z \in DOMAIN g.chunk : z # low => d1[z] = c[z]
    BY <1>2, <1>5 DEF Put
  <1> HIDE DEF d1
  <1>10. /\ \A z : z \in DOMAIN d1 <=> z \in DOMAIN c /\ ~(low < z /\ z < b)
         /\ \A z \in DOMAIN d1 : z # low => d1[z] = c[z]
    BY <1>1, <1>2, <1>9
  <1>11. (hmu_is_in_heap(b) <=> b \in DOMAIN c) /\ (b \in DOMAIN c <=> b \in DOMAIN d1)
    BY <1>0, <1>1, <1>10 DEF hmu_is_in_heap
  <1> DEFINE d == u.chunk
  <1>12. Index(u, hs) /\ d = IF b \in DOMAIN c THEN Put(d1, b, Hd(d1[b].ut, d1[b].size, FALSE)) ELSE d1
    <2> DEFINE no == FALSE
               k == mark_pinuse(add, b, no)
    <2>0. u = k
      OBVIOUS
    <2> HIDE DEF no
    <2>1. /\ Index(k, hs)
          /\ k.chunk = IF hmu_is_in_heap(b) THEN Put(add.chunk, b, Hd(add.chunk[b].ut, add.chunk[b].size, no))
                       ELSE add.chunk
      BY <1>6, <1>7, <1>11, Marked
    <2> HIDE DEF u, k, hs
    <2> QED BY <2>0, <2>1, <1>6, <1>11 DEF no
  <1> HIDE DEF u
  <1>13. /\ DOMAIN d = DOMAIN d1 /\ Headed(d) /\ \A z \in DOMAIN d1 : z # b => d[z] = d1[z]
         /\ b \in DOMAIN c => d[b].ut = c[b].ut /\ d[b].size = c[b].size /\ d[b].pin = FALSE
    <2>1. CASE b \notin DOMAIN c
      <3>1. d = d1
        BY <2>1, <1>12
      <3> QED BY <3>1, <2>1, <1>7
    <2>2. CASE b \in DOMAIN c
      <3> DEFINE w == Hd(d1[b].ut, d1[b].size, FALSE)
      <3>0. d1[b] = c[b] /\ b \in DOMAIN d1
        BY <2>2, <1>0, <1>10, <1>11
      <3>1. w.ut = c[b].ut /\ w.size = c[b].size /\ w.pin = FALSE
        BY <3>0 DEF Hd
      <3>2. Headed(Put(d1, b, w))
        <4>1. d1[b].ut \in {"fc", "vo"} /\ d1[b].size \in Nat \ {0}
          BY <2>2, <3>0, Tiles
        <4> QED BY <4>1, <1>7, PutHeaded
      <3> HIDE DEF w, d
      <3>3. d = Put(d1, b, w)
        BY <2>2, <1>12 DEF w
      <3>4. DOMAIN d = DOMAIN d1 /\ d[b] = w /\ \A z \in DOMAIN d1 : z # b => d[z] = d1[z]
        BY <3>0, <3>3 DEF Put
      <3> QED BY <3>1, <3>2, <3>3, <3>4
    <2> QED BY <2>1, <2>2
  <1> HIDE DEF d
  <1>14. d[low] = v
    <2>1. low \in DOMAIN d1 /\ low # b
      BY <1>0, <1>5, <1>9
    <2> QED BY <2>1, <1>9, <1>13
  <1>15. \A z \in DOMAIN d : z # low => d[z].ut = c[z].ut /\ d[z].size = c[z].size /\ (z # b => d[z] = c[z])
    BY <1>10, <1>11, <1>13
  <1>16. \A z : z \in DOMAIN d <=> (z \in DOMAIN c /\ (z < low \/ z >= b)) \/ z = low
    BY <1>0, <1>1, <1>10, <1>13
  <1>17. Rezoned(d, c, low, b, b)
    <2>1. ~(b < b)
      BY <1>0
    <2>2. \A z : z \in DOMAIN d <=> (z \in DOMAIN c /\ (z < low \/ z >= b)) \/ z = low \/ (z = b /\ b < b)
      BY <1>16, <2>1
    <2>3. d[low].size = b - low /\ d[low].pin = c[low].pin
      BY <1>0, <1>8, <1>14
    <2>4. ASSUME NEW z \in DOMAIN c, z < low \/ z >= b
          PROVE d[z].size = c[z].size /\ d[z].ut = c[z].ut /\ (z # b => d[z].pin = c[z].pin)
      <3>1. z # low /\ z \in DOMAIN d
        BY <2>4, <1>0, <1>16
      <3> QED BY <3>1, <1>15
    <2> QED BY <1>0, <1>13, <2>1, <2>2, <2>3, <2>4 DEF Rezoned, Headed
  <1>18. hs = FreeSizes(d)
    <2>1. DOMAIN hs = DOMAIN gs \cup {low} /\ hs[low] = all /\ (\A y \in DOMAIN gs : hs[y] = gs[y]) /\ hs = [y \in DOMAIN hs |-> hs[y]]
      BY <1>4 DEF Put
    <2> HIDE DEF hs
    <2>2. \A z : z \in DOMAIN gs <=> z \in DOMAIN d /\ z # low /\ d[z].ut = "fc"
      <3>1. ASSUME NEW z, z \in DOMAIN gs PROVE z \in DOMAIN d /\ z # low /\ d[z].ut = "fc"
        <4>1. z \in DOMAIN c /\ c[z].ut = "fc" /\ ~(low <= z /\ z < b) /\ z \in Nat
          BY <3>1, <1>1, <1>2, <1>3
        <4>2. z \in DOMAIN d /\ z # low
          BY <4>1, <1>0, <1>16
        <4> QED BY <4>1, <4>2, <1>15
      <3>2. ASSUME NEW z, z \in DOMAIN d, z # low, d[z].ut = "fc" PROVE z \in DOMAIN gs
        <4>1. z \in DOMAIN c /\ (z < low \/ z >= b) /\ c[z].ut = "fc"
          BY <3>2, <1>15, <1>16
        <4>2. z \notin F
          BY <4>1, <1>0, <1>1
        <4> QED BY <4>1, <4>2, <1>2, <1>3
      <3> QED BY <3>1, <3>2
    <2>4. \A z : z \in DOMAIN hs <=> z \in DOMAIN d /\ d[z].ut = "fc"
      <3>1. low \in DOMAIN d /\ d[low].ut = "fc"
        BY <1>8, <1>14, <1>16
      <3> QED BY <2>1, <2>2, <3>1
    <2>5. ASSUME NEW z \in DOMAIN hs PROVE hs[z] = d[z].size
      <3>1. CASE z = low
        BY <3>1, <2>1, <1>8, <1>14
      <3>2. CASE z # low
        <4>1. z \in DOMAIN gs /\ z \in DOMAIN d
          BY <3>2, <2>1, <2>2
        <4>2. hs[z] = fs[z] /\ fs[z] = c[z].size
          BY <4>1, <2>1, <1>2, <1>3
        <4> QED BY <3>2, <4>1, <4>2, <1>15
      <3> QED BY <3>1, <3>2
    <2> QED BY <2>1, <2>4, <2>5, FreeIs
  <1>19. Weight(gs) \in Int /\ Weight(hs) = Weight(gs) + all
    BY <1>0, <1>2, <1>4, PutWeight
  <1> HIDE DEF hs
  <1>20. Freed(u, c, low, b)
    BY <1>8, <1>12, <1>13, <1>14, <1>17, <1>18 DEF Freed, d
  <1>21. Weight(FreeSizes(u.chunk)) = Weight(gs) + all
    BY <1>18, <1>19 DEF d
  <1>22. low + all = b
    OBVIOUS
  <1>23. Ending(g, low, all) = u
    BY <1>22 DEF Ending, u, add
  <1> QED BY <1>19, <1>20, <1>21, <1>23

\* The heap g after the headers and the free chunks between low and b are gone.
Cleared(g, c, low, b, w) ==
  \E gs, C, F : /\ Rest(g, gs, c, FreeSizes(c), C, F) /\ Between(c, C, F, low, b)
                /\ Weight(gs) = Weight(FreeSizes(c)) + w - (b - low)

\* A freed chunk alone.
LEMMA ClearLow ==
  ASSUME NEW h, NEW c, c = h.chunk, Tiling(c), Index(h, FreeSizes(c)), NEW x \in DOMAIN c, c[x].ut = "vo"
  PROVE  Cleared(h, c, x, x + c[x].size, c[x].size)
  <1> DEFINE fs == FreeSizes(c)
             b == x + c[x].size
             w == c[x].size
  <1>0. Size \in Nat /\ x \in Nat /\ w \in Nat \ {0} /\ b \in Nat /\ x < b /\ (b = Size \/ b \in DOMAIN c) /\ Headed(c)
    BY HeapAssumption, Tiles DEF HeapAssumption, Headed, Tiling
  <1>1. \A z \in DOMAIN c : z \in Nat /\ (z > x => z >= b)
    BY Tiles DEF Tiling
  <1>2. Rest(h, fs, c, fs, {}, {})
    BY <1>0 DEF Rest
  <1>3. Between(c, {}, {}, x, b)
    <2>1. \A z \in DOMAIN c : ~(x < z /\ z < b)
      BY <1>0, <1>1
    <2>2. \A z \in DOMAIN c : ~(x <= z /\ z < b /\ c[z].ut = "fc")
      BY <1>0, <1>1
    <2> HIDE DEF b
    <2> QED BY <1>0, <2>1, <2>2 DEF Between
  <1>4. Weight(fs) = Weight(fs) + w - (b - x)
    <2>1. Weight(fs) \in Int
      <3>1. Share(fs) \in [0..Size - 1 -> Int]
        BY FreeSized, ShareType
      <3>2. PICK f : Summed(f, Share(fs))
        BY <3>1, SumRuns
      <3> QED BY <3>2, <1>0 DEF Summed, Weight
    <2>2. b - x = w
      BY <1>0
    <2> QED BY <2>1, <2>2, <1>0
  <1> HIDE DEF fs, b, w
  <1>5. Cleared(h, c, x, b, w)
    BY <1>2, <1>3, <1>4 DEF Cleared, fs
  <1> QED BY <1>5 DEF b, w

\* The free chunk before is taken in.
LEMMA ClearBefore ==
  ASSUME NEW h, NEW c, c = h.chunk, Tiling(c), Index(h, FreeSizes(c)), NEW x \in DOMAIN c, c[x].ut = "vo",
         NEW low \in DOMAIN c, c[low].ut = "fc", low + c[low].size = x
  PROVE  Cleared(Joined(h, low, x), c, low, x + c[x].size, c[x].size)
  <1> DEFINE fs == FreeSizes(c)
             b == x + c[x].size
             w == c[x].size
             gs == Drop(fs, low)
             g == Joined(h, low, x)
  <1>0. /\ Size \in Nat /\ x \in Nat /\ w \in Nat \ {0} /\ b \in Nat /\ x < b /\ (b = Size \/ b \in DOMAIN c) /\ Headed(c)
        /\ low \in Nat /\ low < x /\ low < Size /\ c[low].size \in Nat
    BY HeapAssumption, Tiles DEF HeapAssumption, Headed, Tiling
  <1>1. \A z \in DOMAIN c : z \in Nat /\ (z > x => z >= b) /\ (z > low => z >= x)
    BY Tiles DEF Tiling
  <1>2. low \in DOMAIN fs /\ fs[low] = c[low].size /\ Sized(fs)
    BY FreeOf, FreeSized
  <1>3. Rest(h, fs, c, fs, {}, {})
    BY <1>0 DEF Rest
  <1>4. Rest(g, gs, c, fs, {} \cup {x}, {} \cup {low})
    <2> HIDE DEF fs
    <2> QED BY <1>2, <1>3, RestJoined
  <1>5. Between(c, {} \cup {x}, {} \cup {low}, low, b)
    <2>1. \A z \in DOMAIN c : z \in {} \cup {x} <=> low < z /\ z < b
      BY <1>0, <1>1
    <2>2. \A z \in DOMAIN c : z \in {} \cup {low} <=> low <= z /\ z < b /\ c[z].ut = "fc"
      BY <1>0, <1>1
    <2>3. low < b
      BY <1>0
    <2> HIDE DEF b
    <2> QED BY <1>0, <2>1, <2>2, <2>3 DEF Between
  <1>6. Weight(gs) = Weight(fs) + w - (b - low)
    <2>1. Weight(fs) \in Int /\ Weight(gs) = Weight(fs) - fs[low]
      BY <1>0, <1>2, DropWeight
    <2>2. b - low = w + fs[low]
      BY <1>0, <1>2
    <2> QED BY <2>1, <2>2, <1>0, <1>2
  <1> HIDE DEF fs, b, w, g, gs
  <1>7. Cleared(g, c, low, b, w)
    BY <1>4, <1>5, <1>6 DEF Cleared, fs
  <1> QED BY <1>7 DEF b, w, g

\* The free chunk after is taken in.
LEMMA ClearAfter ==
  ASSUME NEW g, NEW c, Tiling(c), NEW low, NEW next \in DOMAIN c, NEW w \in Int, Cleared(g, c, low, next, w),
         c[next].ut = "fc"
  PROVE  Cleared(Joined(g, next, next), c, low, next + c[next].size, w)
  <1> DEFINE fs == FreeSizes(c)
             k == Joined(g, next, next)
             b == next + c[next].size
  <1>1. PICK gs, C, F : /\ Rest(g, gs, c, fs, C, F) /\ Between(c, C, F, low, next)
                        /\ Weight(gs) = Weight(fs) + w - (next - low)
    BY DEF Cleared
  <1> DEFINE hs == Drop(gs, next)
             C2 == C \cup {next}
             F2 == F \cup {next}
  <1>0. /\ Size \in Nat /\ next \in Nat /\ c[next].size \in Nat \ {0} /\ b \in Nat /\ next < b /\ (b = Size \/ b \in DOMAIN c)
        /\ low \in DOMAIN c /\ low \in Nat /\ low < next /\ next < Size
    BY <1>1, HeapAssumption, Tiles DEF HeapAssumption, Between
  <1>2. \A z \in DOMAIN c : z \in Nat /\ (z > next => z >= b)
    BY Tiles DEF Tiling
  <1>3. next \in DOMAIN fs /\ fs[next] = c[next].size
    BY FreeOf
  <1>4. next \notin C /\ next \notin F
    BY <1>0, <1>1 DEF Between
  <1> HIDE DEF fs
  <1>5. next \in DOMAIN gs /\ next \in DOMAIN g.chunk /\ gs[next] = c[next].size /\ Sized(gs)
    BY <1>1, <1>3, <1>4 DEF Rest, Index
  <1>6. Rest(k, hs, c, fs, C2, F2)
    BY <1>1, <1>3, <1>5, RestJoined
  <1>7. Between(c, C2, F2, low, b)
    <2>1. ASSUME NEW z \in DOMAIN c PROVE z \in C2 <=> low < z /\ z < b
      <3>1. z \in C <=> low < z /\ z < next
        BY <1>1 DEF Between
      <3>2. z < b <=> z < next \/ z = next
        BY <1>0, <1>2
      <3> QED BY <3>1, <3>2, <1>0
    <2>2. ASSUME NEW z \in DOMAIN c PROVE z \in F2 <=> low <= z /\ z < b /\ c[z].ut = "fc"
      <3>1. z \in F <=> low <= z /\ z < next /\ c[z].ut = "fc"
        BY <1>1 DEF Between
      <3>2. z < b <=> z < next \/ z = next
        BY <1>0, <1>2
      <3> QED BY <3>1, <3>2, <1>0
    <2>3. low < b
      BY <1>0
    <2> HIDE DEF b, C2, F2
    <2> QED BY <1>0, <2>1, <2>2, <2>3 DEF Between
  <1>8. Weight(hs) = Weight(fs) + w - (b - low)
    <2>1. Weight(gs) \in Int /\ Weight(hs) = Weight(gs) - gs[next]
      BY <1>0, <1>5, DropWeight
    <2>2. Weight(fs) \in Int
      <3>1. Share(fs) \in [0..Size - 1 -> Int]
        BY FreeSized, ShareType DEF fs
      <3>2. PICK f : Summed(f, Share(fs))
        BY <3>1, SumRuns
      <3> QED BY <3>2, <1>0 DEF Summed, Weight
    <2>3. b - low = next - low + gs[next]
      BY <1>0, <1>5
    <2>4. gs[next] \in Int /\ next - low \in Int
      BY <1>0, <1>5
    <2> QED BY <2>1, <2>2, <2>3, <2>4, <1>1
  <1> HIDE DEF b, k, hs, C2, F2
  <1>9. Cleared(k, c, low, b, w)
    BY <1>6, <1>7, <1>8 DEF Cleared, fs
  <1> QED BY <1>9 DEF b, k

\* What FreeChunk makes of x: the neighbours that are free and found are merged.
FreedAt(h, x, low, b) ==
  /\ Freed(FreeChunk(h, x), h.chunk, low, b)
  /\ Weight(FreeSizes(FreeChunk(h, x).chunk)) = Weight(FreeSizes(h.chunk)) + h.chunk[x].size
  /\ low <= x /\ x + h.chunk[x].size <= b
  /\ Apart(h.chunk) /\ b \in DOMAIN h.chunk => h.chunk[b].ut = "vo"
  /\ (low = x /\ ~Merges(h, x)) \/ (low # x /\ h.chunk[low].ut = "fc")
  /\ \A z \in DOMAIN h.chunk : z # x /\ h.chunk[z].ut = "vo" => z < low \/ z >= b

\* What FreeChunk does to the chunks, the index and the free size.
LEMMA FreeChunkIs ==
  ASSUME NEW h, Tiling(h.chunk), Index(h, FreeSizes(h.chunk)), NEW x \in DOMAIN h.chunk, h.chunk[x].ut = "vo",
         h.chunk[0].pin = TRUE, ~FreeIsWild(h, x)
  PROVE  \E low, b : FreedAt(h, x, low, b)
  <1> DEFINE c == h.chunk
             merged == Merges(h, x)
             low == IF merged THEN x - FreeBefore(h, x) ELSE x
             left == IF merged THEN Joined(h, low, x) ELSE h
             n == c[x].size + IF merged THEN FreeBefore(h, x) ELSE 0
             next == low + n
             both == hmu_is_in_heap(next) /\ left.chunk[next].ut = "fc"
             right == IF both THEN Joined(left, next, next) ELSE left
             all == n + IF both THEN c[next].size ELSE 0
             b == low + all
             u == Ending(right, low, all)
             end == x + c[x].size
             w == c[x].size
  <1>1. FreeChunk(h, x) = u
    BY DEF FreeChunk, Joined, Merges, FreeBefore, Ending
  <1>2. /\ merged => /\ x - FreeBefore(h, x) \in DOMAIN c /\ c[x - FreeBefore(h, x)].ut = "fc"
                     /\ x - FreeBefore(h, x) + c[x - FreeBefore(h, x)].size = x
                     /\ FreeBefore(h, x) = c[x - FreeBefore(h, x)].size
    BY Merging
  <1>3. /\ low \in DOMAIN c /\ low \in Nat /\ low <= x /\ next = end /\ n \in Nat \ {0} /\ x \in Nat /\ w \in Nat \ {0}
        /\ (merged => low # x /\ c[low].ut = "fc" /\ low + c[low].size = x) /\ (~merged => low = x)
    <2>0. x \in Nat /\ w \in Nat \ {0}
      BY Tiles
    <2>1. CASE merged
      <3> DEFINE f == FreeBefore(h, x)
                 y == x - f
      <3>1. y \in DOMAIN c /\ c[y].ut = "fc" /\ y + c[y].size = x /\ f = c[y].size /\ low = y /\ n = w + f
        BY <1>2, <2>1
      <3>2. y \in Nat /\ c[y].size \in Nat \ {0}
        BY <3>1, Tiles
      <3> HIDE DEF y, f, low, n
      <3> QED BY <2>0, <2>1, <3>1, <3>2
    <2>2. CASE ~merged
      <3>1. low = x /\ n = w + 0
        BY <2>2
      <3> HIDE DEF low, n
      <3> QED BY <2>0, <2>2, <3>1
    <2> QED BY <2>1, <2>2
  <1>4. Cleared(left, c, low, end, w) /\ (end \in DOMAIN c => left.chunk[end] = c[end])
    <2> HIDE DEF n, end, low
    <2>1. Cleared(left, c, low, end, w)
      <3>1. CASE merged
        <4>1. left = Joined(h, low, x)
          BY <3>1
        <4> QED BY <3>1, <4>1, <1>3, ClearBefore DEF end
      <3>2. CASE ~merged
        <4>1. left = h /\ low = x
          BY <3>2, <1>3
        <4> QED BY <4>1, ClearLow DEF end
      <3> QED BY <3>1, <3>2
    <2> HIDE DEF left
    <2>2. PICK gs, C, F : Rest(left, gs, c, FreeSizes(c), C, F) /\ Between(c, C, F, low, end)
      BY <2>1 DEF Cleared
    <2>3. end \in DOMAIN c => end \notin C
      BY <2>2, <1>3 DEF Between, end
    <2> QED BY <2>1, <2>2, <2>3 DEF Rest
  <1>5. (hmu_is_in_heap(end) <=> end \in DOMAIN c) /\ end \in Nat /\ (end = Size \/ end \in DOMAIN c)
    BY Tiles, HeapAssumption DEF HeapAssumption, hmu_is_in_heap
  <1>6. both <=> end \in DOMAIN c /\ c[end].ut = "fc"
    <2>1. both <=> hmu_is_in_heap(end) /\ left.chunk[end].ut = "fc"
      BY <1>3
    <2> HIDE DEF both, left, end
    <2> QED BY <2>1, <1>4, <1>5
  <1>7. right = IF both THEN Joined(left, end, end) ELSE left
    BY <1>3
  <1>8. all = n + IF both THEN c[end].size ELSE 0
    BY <1>3
  <1> HIDE DEF both, left, right, all
  <1>9. /\ Cleared(right, c, low, b, w) /\ all \in Nat \ {0} /\ b = end + (IF both THEN c[end].size ELSE 0)
    <2>0. both => c[end].size \in Nat \ {0}
      BY <1>6, Tiles
    <2>1. low + n = end
      BY <1>3
    <2> HIDE DEF low, n, end
    <2>2. all \in Nat \ {0} /\ b = end + (IF both THEN c[end].size ELSE 0)
      BY <2>0, <2>1, <1>3, <1>5, <1>8
    <2> HIDE DEF b
    <2>3. CASE both
      <3>1. right = Joined(left, end, end) /\ b = end + c[end].size
        BY <2>2, <2>3, <1>7
      <3>2. Cleared(Joined(left, end, end), c, low, end + c[end].size, w)
        <4>1. w \in Int
          BY <1>3
        <4> HIDE DEF w
        <4> QED BY <4>1, <2>3, <1>4, <1>6, ClearAfter
      <3> QED BY <3>1, <3>2, <2>2
    <2>4. CASE ~both
      <3>1. right = left /\ b = end
        BY <2>2, <2>4, <1>5, <1>7
      <3> QED BY <3>1, <2>2, <1>4
    <2> QED BY <2>3, <2>4
  <1> HIDE DEF low, n, end
  <1>10. PICK gs, C, F : /\ Rest(right, gs, c, FreeSizes(c), C, F) /\ Between(c, C, F, low, b)
                         /\ Weight(gs) = Weight(FreeSizes(c)) + w - (b - low)
    BY <1>9 DEF Cleared
  <1>11. Freed(u, c, low, b) /\ Weight(gs) \in Int /\ Weight(FreeSizes(u.chunk)) = Weight(gs) + all
    <2>1. low + all = b /\ Tiling(c)
      OBVIOUS
    <2> HIDE DEF b, c
    <2> QED BY <2>1, <1>9, <1>10, AddAndMark
  <1> HIDE DEF u
  <1>12. Weight(FreeSizes(u.chunk)) = Weight(FreeSizes(c)) + w
    <2>1. Weight(FreeSizes(c)) \in Int
      <3>1. Share(FreeSizes(c)) \in [0..Size - 1 -> Int]
        BY FreeSized, ShareType
      <3>2. PICK f : Summed(f, Share(FreeSizes(c)))
        BY <3>1, SumRuns
      <3> QED BY <3>2, HeapAssumption DEF HeapAssumption, Summed, Weight
    <2>2. b - low = all /\ all \in Int /\ w \in Int
      BY <1>3, <1>9
    <2> HIDE DEF w, b
    <2> QED BY <2>1, <2>2, <1>10, <1>11
  <1>13. end <= b
    <2>1. both => c[end].size \in Nat
      BY <1>6, Tiles
    <2> HIDE DEF b
    <2> QED BY <2>1, <1>5, <1>9
  <1>14. ASSUME Apart(c), b \in DOMAIN c PROVE c[b].ut = "vo"
    <2>1. CASE both
      <3>1. b = end + c[end].size /\ end \in DOMAIN c /\ c[end].ut = "fc"
        BY <2>1, <1>6, <1>9
      <3> HIDE DEF b
      <3> QED BY <3>1, <1>14 DEF Apart
    <2>2. CASE ~both
      <3>1. b = end
        BY <2>2, <1>5, <1>9
      <3>2. c[end].ut \in {"fc", "vo"}
        BY <3>1, <1>14, Tiles
      <3> QED BY <3>1, <3>2, <2>2, <1>6, <1>14
    <2> QED BY <2>1, <2>2
  <1>15. (low = x /\ ~merged) \/ (low # x /\ c[low].ut = "fc")
    BY <1>3
  <1>16. ASSUME NEW z \in DOMAIN c, z # x, c[z].ut = "vo", z >= low PROVE z >= b
    <2>0. z \in Nat /\ low \in Nat /\ end \in Nat /\ end = x + c[x].size
      BY <1>3, <1>5, <1>16, Tiles DEF end
    <2>1. z > low
      BY <2>0, <1>3, <1>16
    <2>2. z >= x
      <3>1. CASE merged
        BY <3>1, <2>1, <1>3 DEF Tiling
      <3>2. CASE ~merged
        BY <3>2, <2>0, <2>1, <1>3
      <3> QED BY <3>1, <3>2
    <2>3. z >= end
      <3>1. z > x
        BY <2>0, <2>2, <1>3, <1>16
      <3> QED BY <3>1, <2>0 DEF Tiling
    <2>4. CASE both
      <3>1. b = end + c[end].size /\ end \in DOMAIN c /\ c[end].ut = "fc"
        BY <2>4, <1>6, <1>9
      <3>2. z > end
        BY <3>1, <2>0, <2>3, <1>16
      <3> HIDE DEF b
      <3> QED BY <3>1, <3>2 DEF Tiling
    <2>5. CASE ~both
      <3>1. b = end
        BY <2>5, <1>5, <1>9
      <3> QED BY <3>1, <2>3
    <2> QED BY <2>4, <2>5
  <1>17. \A z \in DOMAIN c : z # x /\ c[z].ut = "vo" => z < low \/ z >= b
    <2>1. \A z \in DOMAIN c : z \in Nat
      BY Tiles
    <2> HIDE DEF b
    <2> QED BY <2>1, <1>3, <1>16
  <1> HIDE DEF b
  <1>18. FreedAt(h, x, low, b)
    BY <1>1, <1>3, <1>11, <1>12, <1>13, <1>14, <1>15, <1>17 DEF FreedAt, end
  <1> QED BY <1>18

-----------------------------------------------------------------------------
(* An object grown in place.                                               *)

Shorn(h, x, next, req) == [unlink_hmu(h, next) EXCEPT !.chunk = [Drop(@, next) EXCEPT ![x].size = req]]

Enlarged(h, x, req, junk) ==
  LET old == h.chunk[x].size
      next == x + old
      both == old + h.chunk[next].size
      cut == Shorn(h, x, next, req)
  IN IF req < both THEN gci_add_fc(cut, x + req, both - req, junk) ELSE cut

GrownAt(u, c, x, m, b, w) ==
  /\ Rezoned(u.chunk, c, x, m, b) /\ u.chunk[x].ut = "vo"
  /\ b \in DOMAIN c => u.chunk[b].pin = c[b].pin
  /\ Index(u, FreeSizes(u.chunk)) /\ Weight(FreeSizes(u.chunk)) = Weight(FreeSizes(c)) - w

ShornTo(u, c, x, next, req) ==
  /\ Index(u, Drop(FreeSizes(c), next)) /\ Headed(u.chunk)
  /\ DOMAIN u.chunk = DOMAIN c \ {next} /\ u.chunk[x] = Hd("vo", req, c[x].pin)
  /\ \A z \in DOMAIN u.chunk : z # x => u.chunk[z] = c[z]

\* The first half of Grow: the next chunk is gone and the header rewritten.
LEMMA ShornIs ==
  ASSUME NEW h, NEW c, c = h.chunk, Tiling(c), Index(h, FreeSizes(c)), NEW x \in DOMAIN c, c[x].ut = "vo",
         NEW next \in DOMAIN c, next # x, c[next].ut = "fc", NEW req \in Nat \ {0}
  PROVE  ShornTo(Shorn(h, x, next, req), c, x, next, req)
  <1> DEFINE fs == FreeSizes(c)
             gs == Drop(fs, next)
             g == unlink_hmu(h, next)
             u == Shorn(h, x, next, req)
             e == Drop(g.chunk, next)
             d == [e EXCEPT ![x].size = req]
  <1>0. Headed(c) /\ c[x].pin \in BOOLEAN /\ c[x].ut = "vo"
    BY Tiles DEF Headed, Tiling
  <1>1. next \in DOMAIN fs /\ fs[next] = h.chunk[next].size
    BY FreeOf
  <1>2. Index(g, gs) /\ g.chunk = h.chunk
    <2> HIDE DEF fs
    <2> QED BY <1>1, UnlinkIndexed DEF fs
  <1>3. u = [g EXCEPT !.chunk = d]
    BY DEF Shorn
  <1> HIDE DEF g, u
  <1>4. e = Drop(c, next)
    BY <1>2
  <1>5. Headed(e) /\ DOMAIN e = DOMAIN c \ {next} /\ \A z \in DOMAIN e : e[z] = c[z]
    BY <1>0, <1>4, DropHeaded DEF Drop
  <1> HIDE DEF e
  <1>6. x \in DOMAIN e /\ e[x] = c[x]
    BY <1>5
  <1> DEFINE v == Hd("vo", req, c[x].pin)
             k == e[x]
  <1>7. [k EXCEPT !.size = req] = v
    <2> DEFINE p == c[x].size
               q == c[x].pin
    <2>1. k = [ut |-> "vo", size |-> p, pin |-> q]
      BY <1>0, <1>6, Fields DEF Hd
    <2>2. v = [ut |-> "vo", size |-> req, pin |-> q]
      BY DEF Hd
    <2> HIDE DEF k, p, q, v
    <2> QED BY <2>1, <2>2
  <1>8. d = [e EXCEPT ![x] = [k EXCEPT !.size = req]]
    OBVIOUS
  <1>9. d = [e EXCEPT ![x] = v]
    BY <1>7, <1>8
  <1>10. d = Put(e, x, v)
    <2>1. e = [z \in DOMAIN e |-> e[z]]
      BY <1>5, <1>6, Fields
    <2> HIDE DEF v, d, k
    <2> QED BY <2>1, <1>6, <1>9 DEF Put
  <1> HIDE DEF d, k
  <1>11. Headed(d)
    BY <1>0, <1>5, <1>10, PutHeaded
  <1> HIDE DEF v
  <1>12. DOMAIN d = DOMAIN e /\ d[x] = v /\ \A z \in DOMAIN e : z # x => d[z] = e[z]
    BY <1>6, <1>10 DEF Put
  <1>13. Index(u, gs) /\ u.chunk = d
    BY <1>2, <1>3, Reheaded
  <1> HIDE DEF gs
  <1>14. /\ Index(u, gs) /\ Headed(u.chunk)
         /\ DOMAIN u.chunk = DOMAIN c \ {next} /\ u.chunk[x] = v
         /\ \A z \in DOMAIN u.chunk : z # x => u.chunk[z] = c[z]
    BY <1>5, <1>11, <1>12, <1>13
  <1> QED BY <1>14 DEF u, gs, v, ShornTo

\* What Grow does to the chunks, the index and the free size.
LEMMA GrowIs ==
  ASSUME NEW h, NEW c, c = h.chunk, Tiling(c), Index(h, FreeSizes(c)), NEW x \in DOMAIN c, c[x].ut = "vo",
         x + c[x].size \in DOMAIN c, c[x + c[x].size].ut = "fc", NEW junk \in BOOLEAN,
         NEW req \in Nat, req > c[x].size, req <= c[x].size + c[x + c[x].size].size
  PROVE  GrownAt(Enlarged(h, x, req, junk), c, x, x + req, x + (c[x].size + c[x + c[x].size].size), req - c[x].size)
  <1> DEFINE old == c[x].size
             next == x + old
             more == c[next].size
             both == old + more
             m == x + req
             b == x + both
             fs == FreeSizes(c)
             gs == Drop(fs, next)
             cut == Shorn(h, x, next, req)
             e == cut.chunk
             v == Hd("vo", req, c[x].pin)
             u == Enlarged(h, x, req, junk)
  <1>0. /\ x \in Nat /\ old \in Nat \ {0} /\ next \in Nat /\ more \in Nat \ {0} /\ next \in DOMAIN c /\ c[next].ut = "fc"
        /\ b = next + more /\ b <= Size /\ (b = Size \/ b \in DOMAIN c) /\ Size \in Nat /\ x < Size /\ next < Size
        /\ Headed(c) /\ c[x].pin \in BOOLEAN
    <2>1. x \in Nat /\ old \in Nat \ {0} /\ Size \in Nat /\ Headed(c) /\ c[x].pin \in BOOLEAN /\ x < Size
      BY Tiles, HeapAssumption DEF HeapAssumption, Headed, Tiling
    <2>2. next \in DOMAIN c /\ c[next].ut = "fc"
      OBVIOUS
    <2> HIDE DEF next
    <2>3. next \in Nat /\ more \in Nat \ {0} /\ next + more <= Size /\ (next + more = Size \/ next + more \in DOMAIN c) /\ next < Size
      BY <2>2, Tiles
    <2>4. b = next + more
      BY <2>1, <2>3 DEF next
    <2> QED BY <2>1, <2>2, <2>3, <2>4
  <1>1. req > old /\ req <= both /\ req \in Nat \ {0} /\ m \in Nat /\ b \in Nat /\ x < m /\ m <= b /\ next < m /\ x < next /\ next < b
    BY <1>0
  <1>2. \A z \in DOMAIN c : z \in Nat /\ z < Size /\ (z > x => z >= next) /\ (z > next => z >= b)
    BY <1>0, Tiles DEF Tiling
  <1>3. u = IF req < both THEN gci_add_fc(cut, m, both - req, junk) ELSE cut
    BY DEF Enlarged
  <1>4. /\ \A z : z \in DOMAIN fs <=> z \in DOMAIN c /\ c[z].ut = "fc"
        /\ \A z \in DOMAIN fs : fs[z] = c[z].size
    BY FreeOf
  <1>5. Sized(fs) /\ next \in DOMAIN fs /\ fs[next] = more
    BY <1>0, FreeSized, FreeOf
  <1>6. Weight(fs) \in Int /\ Weight(gs) = Weight(fs) - more /\ Sized(gs)
    <2> HIDE DEF next, fs
    <2> QED BY <1>0, <1>5, DropWeight, DropSized
  <1>7. DOMAIN gs = DOMAIN fs \ {next} /\ (\A z \in DOMAIN gs : gs[z] = fs[z]) /\ gs = [z \in DOMAIN gs |-> gs[z]]
    BY DEF Drop
  <1>8. /\ Index(cut, gs) /\ Headed(e) /\ DOMAIN e = DOMAIN c \ {next} /\ e[x] = v
        /\ \A z \in DOMAIN e : z # x => e[z] = c[z]
    <2> HIDE DEF next, both, b, m
    <2>1. next # x
      BY <1>0, <1>1
    <2>2. ShornTo(cut, c, x, next, req)
      <3> HIDE DEF old, more, fs, gs, v, u
      <3> QED BY <2>1, <1>0, <1>1, ShornIs
    <2> QED BY <2>2 DEF ShornTo
  <1>9. v.ut = "vo" /\ v.size = req /\ v.pin = c[x].pin
    BY DEF Hd
  <1> HIDE DEF v, cut, e, gs, fs
  <1>10. ASSUME NEW d, Headed(d), \A z : z \in DOMAIN d <=> z \in DOMAIN e \/ (z = m /\ m < b),
                \A z \in DOMAIN e : d[z] = e[z], m < b => d[m].ut = "fc" /\ d[m].size = b - m
         PROVE  /\ Rezoned(d, c, x, m, b) /\ d[x].ut = "vo"
                /\ b \in DOMAIN c => d[b].pin = c[b].pin
    <2>1. x \in DOMAIN e /\ d[x] = v
      BY <1>0, <1>1, <1>8, <1>10
    <2>2. \A z : z \in DOMAIN d <=> (z \in DOMAIN c /\ (z < x \/ z >= b)) \/ z = x \/ (z = m /\ m < b)
      <3>1. \A z : z \in DOMAIN e <=> (z \in DOMAIN c /\ (z < x \/ z >= b)) \/ z = x
        <4> HIDE DEF next, b
        <4> QED BY <1>0, <1>1, <1>2, <1>8
      <3> HIDE DEF b, m
      <3> QED BY <3>1, <1>10
    <2>3. d[x].size = m - x /\ d[x].pin = c[x].pin /\ d[x].ut = "vo"
      BY <2>1, <1>0, <1>9
    <2>4. \A z \in DOMAIN c : z < x \/ z >= b => z \in DOMAIN e /\ d[z] = c[z]
      <3> HIDE DEF next, b
      <3> QED BY <1>0, <1>1, <1>2, <1>8, <1>10
    <2>5. b \in DOMAIN c => d[b].pin = c[b].pin
      <3> HIDE DEF b
      <3> QED BY <1>1, <2>4
    <2> HIDE DEF b, m, next
    <2>6. Rezoned(d, c, x, m, b)
      BY <1>0, <1>1, <1>10, <2>2, <2>3, <2>4 DEF Rezoned, Headed
    <2> QED BY <2>3, <2>5, <2>6, SMTT(30), ZenonT(30)
  <1>11. CASE req < both
    <2> DEFINE n == both - req
               hs == Put(gs, m, n)
               y == Hd("fc", n, junk)
    <2>1. n \in Nat \ {0} /\ m < b /\ m \notin DOMAIN c /\ b - m = n /\ m < Size
      <3>1. m = x + req /\ b = x + both /\ n = both - req
        OBVIOUS
      <3> HIDE DEF m, b, n
      <3>2. both \in Nat
        <4> HIDE DEF more, old
        <4> QED BY <1>0
      <3> HIDE DEF both, next
      <3>3. x \in Nat /\ req \in Nat /\ Size \in Nat /\ b <= Size /\ m \in Nat /\ b \in Nat
            /\ next \in Nat /\ next < m
        BY <1>0, <1>1, Zenon
      <3>4. n \in Nat \ {0} /\ m < b /\ b - m = n /\ m < Size
        BY <3>1, <3>2, <3>3, <1>11
      <3>5. m \notin DOMAIN c
        <4>1. \A z \in DOMAIN c : z > next => z >= b
          BY <1>2, Zenon
        <4> QED BY <4>1, <3>3, <3>4
      <3> QED BY <3>4, <3>5, Zenon
    <2>2. m \notin DOMAIN gs /\ m \notin DOMAIN e
      BY <2>1, <1>4, <1>7, <1>8
    <2>3. u = gci_add_fc(cut, m, n, junk)
      BY <1>3, <1>11
    <2> HIDE DEF n, m, u
    <2>4. Index(u, hs) /\ u.chunk = Put(e, m, y)
      <3> HIDE DEF b, both, next, more, old
      <3>1. /\ Index(u, hs)
            /\ u.chunk = Put(cut.chunk, m, [ut |-> "fc", size |-> n,
                                            pin |-> IF m \in DOMAIN cut.chunk THEN cut.chunk[m].pin ELSE junk])
        BY <2>1, <2>2, <2>3, <1>1, <1>8, AddIndexed
      <3> QED BY <3>1, <2>2 DEF e, Hd
    <2> DEFINE d == Put(e, m, y)
    <2>5. y.ut = "fc" /\ y.size = n
      BY DEF Hd
    <2>6. Headed(d)
      BY <1>8, <2>1, PutHeaded
    <2> HIDE DEF y
    <2>7. DOMAIN d = DOMAIN e \cup {m} /\ d[m] = y /\ \A z \in DOMAIN e : d[z] = e[z]
      BY <2>2 DEF Put
    <2> HIDE DEF d, b, next
    <2>8. Rezoned(d, c, x, m, b) /\ d[x].ut = "vo" /\ (b \in DOMAIN c => d[b].pin = c[b].pin)
      BY <2>1, <2>5, <2>6, <2>7, <1>10
    <2>9. hs = FreeSizes(d)
      <3>1. DOMAIN hs = DOMAIN gs \cup {m} /\ hs[m] = n /\ (\A z \in DOMAIN gs : hs[z] = gs[z]) /\ hs = [z \in DOMAIN hs |-> hs[z]]
        BY <2>2 DEF Put
      <3> HIDE DEF hs
      <3>2. \A z : z \in DOMAIN hs <=> z \in DOMAIN d /\ d[z].ut = "fc"
        BY <3>1, <2>1, <2>5, <2>7, <1>4, <1>7, <1>8, <1>9
      <3>3. \A z \in DOMAIN hs : hs[z] = d[z].size
        BY <3>1, <2>1, <2>5, <2>7, <1>4, <1>7, <1>8, <1>9
      <3> QED BY <3>1, <3>2, <3>3, FreeIs
    <2>10. Weight(hs) = Weight(fs) - (req - old)
      <3>1. Weight(hs) = Weight(gs) + n
        BY <2>1, <2>2, <1>1, <1>6, PutWeight
      <3> QED BY <3>1, <1>0, <1>6 DEF n
    <2> HIDE DEF hs
    <2>11. u.chunk = d /\ Weight(FreeSizes(u.chunk)) = Weight(FreeSizes(c)) - (req - old) /\ Index(u, FreeSizes(u.chunk))
      BY <2>4, <2>9, <2>10 DEF d, fs
    <2>12. GrownAt(u, c, x, m, b, req - old)
      BY <2>8, <2>11 DEF GrownAt
    <2> QED BY <2>12 DEF u, m, b, next
  <1>12. CASE ~(req < both)
    <2>1. req = both /\ m = b /\ ~(m < b)
      BY <1>0, <1>1, <1>12
    <2>2. u = cut
      BY <1>3, <1>12
    <2> HIDE DEF u, m, b, next
    <2>3. Rezoned(e, c, x, m, b) /\ e[x].ut = "vo" /\ (b \in DOMAIN c => e[b].pin = c[b].pin)
      BY <2>1, <1>8, <1>10
    <2>4. gs = FreeSizes(e)
      <3>1. \A z : z \in DOMAIN gs <=> z \in DOMAIN e /\ e[z].ut = "fc"
        BY <1>0, <1>4, <1>7, <1>8, <1>9
      <3>2. \A z \in DOMAIN gs : gs[z] = e[z].size
        BY <3>1, <1>0, <1>4, <1>7, <1>8, <1>9
      <3> QED BY <3>1, <3>2, <1>7, FreeIs
    <2>5. Weight(gs) = Weight(fs) - (req - old)
      BY <2>1, <1>0, <1>6
    <2>6. u.chunk = e /\ Weight(FreeSizes(u.chunk)) = Weight(FreeSizes(c)) - (req - old) /\ Index(u, FreeSizes(u.chunk))
      BY <2>2, <2>4, <2>5, <1>8 DEF e, fs
    <2>7. GrownAt(u, c, x, m, b, req - old)
      BY <2>3, <2>6 DEF GrownAt
    <2> QED BY <2>7 DEF u, m, b, next
  <1> QED BY <1>11, <1>12

-----------------------------------------------------------------------------
(* The invariant of the heap.                                              *)

\* As long as no object has grown in place, all P bits are right, no chunk is
\* too small for a footer and no free chunk follows another.
Sound(c, st, dr) ==
  /\ Tiling(c) /\ c[0].pin = TRUE /\ Pins(c, st)
  /\ dr = 0 => st = {} /\ Roomy(c) /\ Apart(c)

\* The objects of c but x are objects of d.
Spared(d, c, x) == \A z \in DOMAIN c : z # x /\ c[z].ut = "vo" => z \in DOMAIN d /\ d[z].ut = "vo"

Still(st, d) == {x \in st : x \in DOMAIN d}

\* The first chunk keeps its P bit.
LEMMA RezonedFirst ==
  ASSUME NEW c, Tiling(c), NEW d, NEW a, NEW m, NEW b, Rezoned(d, c, a, m, b)
  PROVE  d[0].pin = c[0].pin
  <1>1. 0 \in DOMAIN c /\ a \in Nat /\ b \in Nat /\ a < b
    <2>1. a \in DOMAIN c /\ m \in Nat /\ b \in Nat /\ a < m /\ m <= b
      BY DEF Rezoned
    <2> QED BY <2>1, Tiles DEF Tiling
  <1>2. CASE a = 0
    BY <1>2 DEF Rezoned
  <1>3. CASE a # 0
    BY <1>1, <1>3 DEF Rezoned
  <1> QED BY <1>2, <1>3

\* The free size is a number.
LEMMA WeightIs ==
  ASSUME NEW c, Tiling(c)
  PROVE  Weight(FreeSizes(c)) \in Int
  <1>1. Share(FreeSizes(c)) \in [0..Size - 1 -> Int]
    BY FreeSized, ShareType
  <1>2. PICK f : Summed(f, Share(FreeSizes(c)))
    BY <1>1, SumRuns
  <1> QED BY <1>2, HeapAssumption DEF HeapAssumption, Summed, Weight

\* What a request that is served from the chunk x leaves of the heap c.
ServedWell(u, c, st, dr, x, y) ==
  /\ Sound(u.chunk, Still(st, u.chunk), dr) /\ Spared(u.chunk, c, y)
  /\ Index(u, FreeSizes(u.chunk)) /\ u.chunk[x].size \in Nat
  /\ Weight(FreeSizes(u.chunk)) = Weight(FreeSizes(c)) - u.chunk[x].size

\* A request served.
LEMMA ServedSound ==
  ASSUME NEW c, NEW st, NEW dr, Sound(c, st, dr), NEW u, NEW x \in DOMAIN c, c[x].ut = "fc",
         NEW size \in Nat, size > 1, Served(u, c, x, size), NEW y
  PROVE  ServedWell(u, c, st, dr, x, y)
  <1> DEFINE d == u.chunk
             b == x + c[x].size
             new == Still(st, d)
  <1>0. Tiling(c) /\ c[0].pin = TRUE /\ Pins(c, st) /\ (dr = 0 => st = {} /\ Roomy(c) /\ Apart(c))
    BY DEF Sound
  <1>1. PICK m \in Nat : /\ TakenFrom(u, c, x, m, b) /\ m - x >= size /\ (m < b => b - m >= Smallest)
    <2>1. x \in Nat /\ c[x].size \in Nat
      BY <1>0, Tiles
    <2> QED BY <2>1 DEF Served
  <1>2. /\ Rezoned(d, c, x, m, b) /\ d[x].ut = "vo" /\ (m < b => d[m].pin = TRUE)
        /\ (b \in DOMAIN c => d[b].pin = IF m < b THEN c[b].pin ELSE TRUE)
        /\ Index(u, FreeSizes(d)) /\ Weight(FreeSizes(d)) = Weight(FreeSizes(c)) - (m - x)
    BY <1>1 DEF TakenFrom
  <1>3. x \in Nat /\ b \in Nat /\ m \in Nat /\ x < m /\ m <= b /\ Smallest \in Nat /\ Smallest > 1
    BY <1>0, <1>1, <1>2, Tiles, HeapAssumption DEF HeapAssumption, Rezoned
  <1>4. d[x].size = m - x /\ d[x].size \in Nat
    BY <1>2, <1>3 DEF Rezoned
  <1>5. m < b => m \in DOMAIN d /\ d[m].ut = "fc"
    BY <1>2 DEF Rezoned
  <1>6. \A z \in DOMAIN c : z # x => z < x \/ z >= b
    <2>1. \A z \in DOMAIN c : z \in Nat
      BY <1>0, Tiles
    <2> QED BY <2>1, <1>0, <1>3 DEF Tiling
  <1>7. Spared(d, c, y)
    <2>1. \A z \in DOMAIN c : z < x \/ z >= b => z \in DOMAIN d /\ d[z].ut = c[z].ut
      BY <1>2 DEF Rezoned
    <2> HIDE DEF d, b
    <2> QED BY <2>1, <1>6 DEF Spared
  <1>8. b \in DOMAIN c /\ b \notin st => c[b].pin = FALSE
    <2>1. b \in DOMAIN c /\ b \notin st => (c[b].pin <=> c[x].ut = "vo")
      BY <1>0 DEF Pins
    <2>2. b \in DOMAIN c => c[b].pin \in BOOLEAN
      BY <1>0, Tiles
    <2> HIDE DEF b
    <2> QED BY <2>1, <2>2
  <1>9. b \in DOMAIN c => b \in DOMAIN d
    BY <1>2, <1>3 DEF Rezoned
  <1> HIDE DEF b, d
  <1>10. \A z \in DOMAIN d : z \in st => z \in new
    BY DEF Still
  <1>11. b \in DOMAIN c => b \in new \/ (d[b].pin <=> d[IF m < b THEN m ELSE x].ut = "vo")
    <2>1. CASE b \in DOMAIN c /\ b \in st
      BY <2>1, <1>9, <1>10
    <2>2. CASE b \in DOMAIN c /\ b \notin st /\ m < b
      BY <2>2, <1>2, <1>5, <1>8
    <2>3. CASE b \in DOMAIN c /\ b \notin st /\ ~(m < b)
      BY <2>3, <1>2
    <2> QED BY <2>1, <2>2, <2>3
  <1>12. Tiling(d) /\ d[0].pin = TRUE
    BY <1>0, <1>2, RezonedTiling, RezonedFirst
  <1>13. Pins(d, new)
    <2>1. m < b => m \in new \/ d[m].pin = TRUE
      BY <1>2
    <2> HIDE DEF new
    <2>2. Told(d, c, x, m, b, new)
      BY <2>1, <1>11 DEF Told
    <2> QED BY <2>2, <1>0, <1>2, <1>10, RezonedPins
  <1>14. ASSUME dr = 0 PROVE new = {} /\ Roomy(d) /\ Apart(d)
    <2>1. Roomy(c) /\ Apart(c) /\ st = {}
      BY <1>0, <1>14
    <2>2. new = {}
      BY <2>1 DEF Still
    <2>3. m - x > 1 /\ (m < b => b - m > 1)
      BY <1>1, <1>3
    <2>4. Roomy(d)
      BY <2>1, <2>3, <1>0, <1>2, RezonedRoomy
    <2>5. b \in DOMAIN c => c[b].ut = "vo" \/ d[IF m < b THEN m ELSE x].ut = "vo"
      BY <2>1 DEF Apart, b
    <2>6. Apart(d)
      BY <2>1, <2>5, <1>0, <1>2, RezonedApart
    <2> QED BY <2>2, <2>4, <2>6
  <1> HIDE DEF new
  <1>15. Sound(d, new, dr)
    BY <1>12, <1>13, <1>14 DEF Sound
  <1>16. /\ Sound(d, new, dr) /\ Spared(d, c, y) /\ Index(u, FreeSizes(d)) /\ d[x].size \in Nat
         /\ Weight(FreeSizes(d)) = Weight(FreeSizes(c)) - d[x].size
    BY <1>2, <1>4, <1>7, <1>15
  <1> QED BY <1>16 DEF ServedWell, d, new

GivenUp(u, c, x, st, dr) ==
  /\ Sound(u.chunk, Still(st, u.chunk), dr) /\ Spared(u.chunk, c, x)
  /\ Index(u, FreeSizes(u.chunk))
  /\ Weight(FreeSizes(u.chunk)) = Weight(FreeSizes(c)) + c[x].size

\* An object freed: the P bits and the footers are right as long as no object has
\* grown in place, so that both neighbours are found.
LEMMA FreedSound ==
  ASSUME NEW h, NEW c, c = h.chunk, NEW st, NEW dr, Sound(c, st, dr), Index(h, FreeSizes(c)),
         NEW x \in DOMAIN c, c[x].ut = "vo", ~FreeIsWild(h, x), NEW u, u = FreeChunk(h, x)
  PROVE  GivenUp(u, c, x, st, dr)
  <1> DEFINE d == u.chunk
             new == Still(st, d)
  <1>0. Tiling(c) /\ c[0].pin = TRUE /\ Pins(c, st) /\ (dr = 0 => st = {} /\ Roomy(c) /\ Apart(c))
    BY DEF Sound
  <1>1. PICK low, b : FreedAt(h, x, low, b)
    BY <1>0, FreeChunkIs
  <1>2. /\ Freed(u, c, low, b) /\ Weight(FreeSizes(d)) = Weight(FreeSizes(c)) + c[x].size
        /\ low <= x /\ x + c[x].size <= b /\ (Apart(c) /\ b \in DOMAIN c => c[b].ut = "vo")
        /\ ((low = x /\ ~Merges(h, x)) \/ (low # x /\ c[low].ut = "fc"))
        /\ \A z \in DOMAIN c : z # x /\ c[z].ut = "vo" => z < low \/ z >= b
    BY <1>1 DEF FreedAt
  <1>3. /\ Rezoned(d, c, low, b, b) /\ d[low].ut = "fc" /\ (b \in DOMAIN c => d[b].pin = FALSE)
        /\ Index(u, FreeSizes(d))
    BY <1>2 DEF Freed
  <1>4. x \in Nat /\ b \in Nat /\ low \in Nat /\ low \in DOMAIN c /\ low < b /\ c[x].size \in Nat
    BY <1>0, <1>3, Tiles DEF Rezoned
  <1>5. ~(b < b)
    BY <1>4
  <1>6. Spared(d, c, x)
    <2>1. \A z \in DOMAIN c : z < low \/ z >= b => z \in DOMAIN d /\ d[z].ut = c[z].ut
      BY <1>3 DEF Rezoned
    <2> HIDE DEF d
    <2> QED BY <2>1, <1>2 DEF Spared
  <1> HIDE DEF d
  <1>7. \A z \in DOMAIN d : z \in st => z \in new
    BY DEF Still
  <1>9. Tiling(d) /\ d[0].pin = TRUE
    BY <1>0, <1>3, RezonedTiling, RezonedFirst
  <1>10. Pins(d, new)
    <2> HIDE DEF new
    <2>1. Told(d, c, low, b, b, new)
      BY <1>3, <1>5 DEF Told
    <2> QED BY <2>1, <1>0, <1>3, <1>7, RezonedPins
  <1>11. ASSUME dr = 0 PROVE new = {} /\ Roomy(d) /\ Apart(d)
    <2>1. Roomy(c) /\ Apart(c) /\ st = {}
      BY <1>0, <1>11
    <2>2. new = {}
      BY <2>1 DEF Still
    <2>3. b - low > 1 /\ (b < b => b - b > 1)
      <3>1. c[x].size > 1
        BY <2>1 DEF Roomy
      <3> QED BY <3>1, <1>2, <1>4, <1>5
    <2>4. Roomy(d)
      BY <2>1, <2>3, <1>0, <1>3, RezonedRoomy
    <2>5. b \in DOMAIN c => c[b].ut = "vo" \/ d[IF b < b THEN b ELSE low].ut = "vo"
      BY <2>1, <1>2
    <2>6. ASSUME NEW z \in DOMAIN c, z + c[z].size = low PROVE c[z].ut = "vo"
      <3>1. CASE low = x /\ ~Merges(h, x)
        <4>1. Tiling(h.chunk) /\ Index(h, FreeSizes(h.chunk)) /\ x \in DOMAIN h.chunk /\ h.chunk[0].pin = TRUE
          BY <1>0
        <4>2. ~(c[x].pin = FALSE)
          BY <4>1, <3>1, <2>1, Merging
        <4>3. c[x].pin \in BOOLEAN
          BY <1>0, Tiles
        <4>4. c[x].pin <=> c[z].ut = "vo"
          BY <2>1, <2>6, <3>1, <1>0 DEF Pins
        <4> QED BY <4>2, <4>3, <4>4
      <3>2. CASE low # x /\ c[low].ut = "fc"
        BY <3>2, <2>1, <2>6, <1>4 DEF Apart
      <3> QED BY <3>1, <3>2, <1>2
    <2>7. Apart(d)
      <3>1. d[low].ut = "vo" \/ \A z \in DOMAIN c : z + c[z].size = low => c[z].ut = "vo"
        BY <2>6
      <3> QED BY <3>1, <2>1, <2>5, <1>0, <1>3, RezonedApart
    <2> QED BY <2>2, <2>4, <2>7
  <1> HIDE DEF new
  <1>12. Sound(d, new, dr)
    BY <1>9, <1>10, <1>11 DEF Sound
  <1> QED BY <1>2, <1>3, <1>6, <1>12 DEF d, new, GivenUp

\* As long as no object has grown in place, what a free reads is a footer.
LEMMA NeverWild ==
  ASSUME NEW h, NEW c, c = h.chunk, Sound(c, {}, 0), Index(h, FreeSizes(c)), NEW x \in DOMAIN c
  PROVE  ~FreeIsWild(h, x)
  <1>0. Tiling(c) /\ c[0].pin = TRUE /\ Pins(c, {}) /\ Roomy(c)
    BY DEF Sound
  <1> DEFINE y == Before(h, x)
             f == Footer(h, x)
  <1>1. CASE c[x].pin
    BY <1>1 DEF FreeIsWild
  <1>2. CASE ~c[x].pin
    <2>1. x # 0
      BY <1>0, <1>2
    <2>2. y \in DOMAIN c /\ y + c[y].size = x
      BY <2>1, <1>0, BeforeEnds
    <2>3. c[y].ut = "fc"
      <3> HIDE DEF y
      <3>1. ~(c[y].ut = "vo")
        BY <2>2, <1>0, <1>2 DEF Pins
      <3> QED BY <3>1, <2>2, <1>0, Tiles
    <2>4. f = c[y].size
      <3>1. c[y].size > 1
        BY <2>2, <1>0 DEF Roomy
      <3> QED BY <3>1, <2>1, <2>3, <1>0, FooterIs
    <2>5. x - f = y
      <3>1. y \in Nat /\ c[y].size \in Nat
        BY <2>2, <1>0, Tiles
      <3> HIDE DEF y, f
      <3> QED BY <3>1, <2>2, <2>4
    <2>6. FreeIsWild(h, x) => c[y].ut = "vo" \/ x - f # y
      BY DEF FreeIsWild
    <2> HIDE DEF y, f
    <2> QED BY <2>3, <2>5, <2>6
  <1> QED BY <1>1, <1>2

\* An object grown in place: only the header not marked is wrong.
LEMMA GrownSound ==
  ASSUME NEW c, NEW st, NEW dr, Sound(c, st, dr), NEW u, NEW x \in DOMAIN c, c[x].ut = "vo", NEW y,
         NEW next \in DOMAIN c, x + c[x].size = next, c[next].ut = "fc", NEW b, b = next + c[next].size,
         NEW m, NEW w, GrownAt(u, c, x, m, b, w), NEW more \in Nat, more > 0,
         NEW new, new = Still(st \cup {m}, u.chunk)
  PROVE  Sound(u.chunk, new, more) /\ Spared(u.chunk, c, y)
  <1> DEFINE d == u.chunk
  <1>0. Tiling(c) /\ c[0].pin = TRUE /\ Pins(c, st)
    BY DEF Sound
  <1>1. /\ Rezoned(d, c, x, m, b) /\ d[x].ut = "vo"
        /\ b \in DOMAIN c => d[b].pin = c[b].pin
    BY DEF GrownAt
  <1> HIDE DEF d
  <1>2. x \in Nat /\ next \in Nat /\ b \in Nat /\ m \in Nat /\ x < m /\ m <= b /\ x < next /\ next < b
    BY <1>0, <1>1, Tiles DEF Rezoned
  <1>3. Tiling(d) /\ d[0].pin = TRUE
    BY <1>0, <1>1, RezonedTiling, RezonedFirst
  <1>4. \A z \in DOMAIN d : z \in st \/ z = m => z \in new
    BY DEF Still, d
  <1>5. m < b => m \in DOMAIN d /\ d[m].ut = "fc"
    BY <1>1 DEF Rezoned
  <1>6. b \in DOMAIN c => b \in DOMAIN d
    BY <1>1, <1>2 DEF Rezoned
  <1>7. b \in DOMAIN c /\ b \notin st => ~c[b].pin
    BY <1>0 DEF Pins
  <1>8. Told(d, c, x, m, b, new)
    <2>1. m < b => m \in new
      BY <1>4, <1>5
    <2>2. ASSUME b \in DOMAIN c, b \notin new PROVE d[b].pin <=> d[IF m < b THEN m ELSE x].ut = "vo"
      <3>1. b \in DOMAIN d /\ b \notin st /\ b # m
        BY <2>2, <1>4, <1>6
      <3>2. m < b
        BY <3>1, <1>2
      <3>3. ~d[b].pin
        BY <3>1, <2>2, <1>1, <1>7
      <3>4. d[IF m < b THEN m ELSE x].ut = "fc"
        BY <3>2, <1>5
      <3> QED BY <3>3, <3>4
    <2> QED BY <2>1, <2>2 DEF Told
  <1>9. Pins(d, new)
    BY <1>0, <1>1, <1>4, <1>8, RezonedPins
  <1>10. Spared(d, c, y)
    <2>1. \A z \in DOMAIN c : z < x \/ z >= b => z \in DOMAIN d /\ d[z].ut = c[z].ut
      BY <1>1 DEF Rezoned
    <2>2. \A z \in DOMAIN c : z \in Nat
      BY <1>0, Tiles
    <2>3. \A z \in DOMAIN c : z = x \/ z = next \/ z < x \/ z >= b
      BY <2>2, <1>0, <1>2 DEF Tiling
    <2>4. x \in DOMAIN d
      BY <1>1 DEF Rezoned
    <2> QED BY <2>1, <2>3, <2>4, <1>1 DEF Spared
  <1>11. more # 0
    OBVIOUS
  <1>12. Sound(d, new, more)
    BY <1>3, <1>9, <1>11 DEF Sound
  <1> QED BY <1>10, <1>12 DEF d

\* The inductive invariant: the chunks, their index and the free size.
HeapInv ==
  /\ Sound(hp.chunk, stale, drift) /\ Index(hp, FreeSizes(hp.chunk))
  /\ drift \in Nat /\ total_free = Weight(FreeSizes(hp.chunk)) + drift
  /\ \A x \in moving : x \in DOMAIN hp.chunk /\ hp.chunk[x].ut = "vo"
  /\ wild => drift > 0

\* alloc_hmu, from gc_alloc_vo or from gc_realloc_vo, keeps the invariant.
LEMMA AllocKeeps ==
  ASSUME HeapInv, NEW req \in Requests, NEW r, r = alloc_hmu(hp, req), Done(r.hp), drift' = drift,
         total_free' = total_free - IF r.at = Nil THEN 0 ELSE r.hp.chunk[r.at].size
  PROVE  /\ Sound(hp'.chunk, stale', drift') /\ Index(hp', FreeSizes(hp'.chunk))
         /\ total_free' = Weight(FreeSizes(hp'.chunk)) + drift'
         /\ \A x \in Objects : x \in DOMAIN hp'.chunk /\ hp'.chunk[x].ut = "vo"
  <1> DEFINE c == hp.chunk
             size == Need(req)
  <1>0. /\ Sound(c, stale, drift) /\ Index(hp, FreeSizes(c)) /\ drift \in Nat
        /\ total_free = Weight(FreeSizes(c)) + drift /\ Tiling(c)
    BY DEF HeapInv, Sound
  <1>1. req \in Nat /\ size \in Nat /\ size > 1
    BY HeapAssumption DEF HeapAssumption, Need
  <1>2. /\ Smallfit(c, r.at, size) /\ (r.at = Nil => r.hp = hp)
        /\ r.at # Nil => Served(r.hp, c, r.at, size)
    BY <1>0, <1>1, AllocServes
  <1>3. hp' = r.hp /\ stale' = Still(stale, r.hp.chunk)
    BY DEF Done, Still
  <1>4. Weight(FreeSizes(c)) \in Int
    BY <1>0, WeightIs
  <1>5. \A x \in Objects : x \in DOMAIN c /\ c[x].ut = "vo"
    BY DEF Objects
  <1> HIDE DEF c, size
  <1>6. CASE r.at = Nil
    <2>1. hp' = hp /\ r.hp = hp /\ total_free' = total_free - 0
      BY <1>2, <1>3, <1>6
    <2>2. total_free' = total_free
      BY <2>1, <1>0, <1>4
    <2>3. hp'.chunk = c
      BY <2>1 DEF c
    <2>4. Sound(c, stale', drift)
      <3>1. stale' = Still(stale, c)
        BY <2>1, <1>3 DEF c
      <3>2. \A x \in DOMAIN c : x \in stale => x \in stale'
        BY <3>1 DEF Still
      <3>3. Pins(c, stale')
        BY <3>2, <1>0 DEF Sound, Pins
      <3>4. drift = 0 => stale' = {}
        BY <3>1, <1>0 DEF Sound, Still
      <3> QED BY <3>3, <3>4, <1>0 DEF Sound
    <2> QED BY <2>1, <2>2, <2>3, <2>4, <1>0, <1>5
  <1>7. CASE r.at # Nil
    <2> DEFINE u == r.hp
               x == r.at
    <2>1. x \in DOMAIN c /\ c[x].ut = "fc"
      BY <1>2, <1>7 DEF Smallfit
    <2>2. Served(u, c, x, size) /\ total_free' = total_free - u.chunk[x].size
      BY <1>2, <1>7
    <2> HIDE DEF u, x
    <2>3. /\ Sound(u.chunk, Still(stale, u.chunk), drift) /\ Spared(u.chunk, c, x)
          /\ Index(u, FreeSizes(u.chunk)) /\ u.chunk[x].size \in Nat
          /\ Weight(FreeSizes(u.chunk)) = Weight(FreeSizes(c)) - u.chunk[x].size
      <3>1. ServedWell(u, c, stale, drift, x, x)
        BY <2>1, <2>2, <1>0, <1>1, ServedSound, Zenon
      <3> QED BY <3>1, Zenon DEF ServedWell
    <2>4. hp' = u /\ stale' = Still(stale, u.chunk)
      BY <1>3 DEF u
    <2>5. total_free' = Weight(FreeSizes(u.chunk)) + drift
      BY <2>2, <2>3, <1>0, <1>4
    <2>6. \A z \in Objects : z \in DOMAIN u.chunk /\ u.chunk[z].ut = "vo"
      BY <2>1, <2>3, <1>5 DEF Spared
    <2> QED BY <2>3, <2>4, <2>5, <2>6
  <1> QED BY <1>6, <1>7

\* Free, from gc_free_vo or at the end of gc_realloc_vo, keeps the invariant.
LEMMA FreeKeeps ==
  ASSUME HeapInv, ~wild, NEW x \in Objects, Free(x), \A z \in moving' : z \in moving /\ z # x
  PROVE  HeapInv'
  <1> DEFINE c == hp.chunk
             u == FreeChunk(hp, x)
             d == u.chunk
  <1>0. /\ Sound(c, stale, drift) /\ Index(hp, FreeSizes(c)) /\ drift \in Nat
        /\ total_free = Weight(FreeSizes(c)) + drift /\ Tiling(c)
        /\ \A z \in moving : z \in DOMAIN c /\ c[z].ut = "vo"
    BY DEF HeapInv, Sound
  <1>1. x \in DOMAIN c /\ c[x].ut = "vo"
    BY DEF Objects
  <1>2. drift' = drift
    BY DEF Free
  <1>3. CASE FreeIsWild(hp, x)
    <2>1. hp' = hp /\ stale' = stale /\ total_free' = total_free
      BY <1>3 DEF Free
    <2>2. drift # 0
      <3> SUFFICES ASSUME drift = 0 PROVE FALSE
        OBVIOUS
      <3>1. stale = {}
        BY <1>0 DEF Sound
      <3>2. Sound(c, {}, 0)
        BY <3>1, <1>0
      <3> QED BY <3>2, <1>0, <1>1, <1>3, NeverWild
    <2>3. drift > 0
      BY <2>2, <1>0
    <2> HIDE DEF c
    <2>4. hp'.chunk = c
      BY <2>1 DEF c
    <2> QED BY <2>1, <2>3, <2>4, <1>0, <1>2 DEF HeapInv
  <1>4. CASE ~FreeIsWild(hp, x)
    <2>1. /\ hp' = u /\ stale' = Still(stale, d) /\ total_free' = total_free + c[x].size /\ wild' = FALSE
      BY <1>4 DEF Free, Done, Still
    <2>2. PICK v : v = u
      OBVIOUS
    <2>3. /\ Sound(v.chunk, Still(stale, v.chunk), drift) /\ Spared(v.chunk, c, x)
          /\ Index(v, FreeSizes(v.chunk))
          /\ Weight(FreeSizes(v.chunk)) = Weight(FreeSizes(c)) + c[x].size
      <3>1. v = FreeChunk(hp, x)
        BY <2>2
      <3>2. c = hp.chunk
        OBVIOUS
      <3> HIDE DEF c
      <3>3. GivenUp(v, c, x, stale, drift)
        BY <3>1, <3>2, <1>0, <1>1, <1>4, FreedSound
      <3> QED BY <3>3 DEF GivenUp
    <2>4. Weight(FreeSizes(c)) \in Int /\ c[x].size \in Nat
      BY <1>0, <1>1, WeightIs, Tiles
    <2> HIDE DEF c, u
    <2>5. hp' = v /\ stale' = Still(stale, v.chunk)
      BY <2>1, <2>2
    <2>6. total_free' = Weight(FreeSizes(v.chunk)) + drift
      BY <2>1, <2>3, <2>4, <1>0
    <2>7. \A z \in moving' : z \in DOMAIN v.chunk /\ v.chunk[z].ut = "vo"
      BY <2>3, <1>0 DEF Spared
    <2> QED BY <2>1, <2>3, <2>5, <2>6, <2>7, <1>0, <1>2 DEF HeapInv
  <1> QED BY <1>3, <1>4

\* Growing in place keeps the invariant, with the drift it adds.
LEMMA GrowKeeps ==
  ASSUME HeapInv, ~wild, NEW x \in Objects, NEW req \in Requests, req > hp.chunk[x].size, CanGrow(x, req),
         NEW junk \in BOOLEAN, Grow(x, req, junk)
  PROVE  HeapInv'
  <1> DEFINE c == hp.chunk
             old == c[x].size
             next == x + old
             b == next + c[next].size
             m == x + req
             u == Enlarged(hp, x, req, junk)
  <1>0. /\ Sound(c, stale, drift) /\ Index(hp, FreeSizes(c)) /\ drift \in Nat
        /\ total_free = Weight(FreeSizes(c)) + drift /\ Tiling(c)
        /\ \A z \in moving : z \in DOMAIN c /\ c[z].ut = "vo"
    BY DEF HeapInv, Sound
  <1>1. x \in DOMAIN c /\ c[x].ut = "vo" /\ req \in Nat
    BY HeapAssumption DEF HeapAssumption, Objects
  <1>2. hmu_is_in_heap(next) /\ c[next].ut = "fc" /\ req <= old + c[next].size /\ req > old
    BY DEF CanGrow
  <1>3. next \in DOMAIN c /\ x \in Nat /\ old \in Nat \ {0}
    BY <1>0, <1>1, <1>2, Tiles, HeapAssumption, SMTT(30), ZenonT(30) DEF HeapAssumption, hmu_is_in_heap
  <1>4. /\ hp' = u /\ stale' = Still(stale \cup {m}, u.chunk) /\ drift' = drift + req - old
        /\ total_free' = total_free /\ moving' = moving /\ wild' = wild
    BY DEF Grow, Enlarged, Shorn, Still
  <1>5. GrownAt(u, c, x, m, x + (old + c[next].size), req - old)
    <2>1. c = hp.chunk
      OBVIOUS
    <2> HIDE DEF c
    <2> QED BY <2>1, <1>0, <1>1, <1>2, <1>3, GrowIs
  <1> HIDE DEF c
  <1>6. b = x + (old + c[next].size)
    <2>1. c[next].size \in Nat
      BY <1>0, <1>3, Tiles
    <2> QED BY <2>1, <1>3
  <1>7. GrownAt(u, c, x, m, b, req - old)
    BY <1>5, <1>6
  <1> HIDE DEF u, b, m
  <1>8. PICK more : more = drift + req - old
    OBVIOUS
  <1>9. more \in Nat /\ more > 0 /\ req - old \in Nat
    BY <1>0, <1>1, <1>2, <1>3, <1>8
  <1>10. PICK new : new = Still(stale \cup {m}, u.chunk)
    OBVIOUS
  <1>11. Sound(u.chunk, new, more) /\ Spared(u.chunk, c, Nil)
    <2>1. x + c[x].size = next /\ b = next + c[next].size
      BY DEF b
    <2>2. PICK w : w = req - old
      OBVIOUS
    <2>3. GrownAt(u, c, x, m, b, w)
      BY <2>2, <1>7
    <2> HIDE DEF next, old
    <2> QED BY <2>1, <2>3, <1>0, <1>1, <1>2, <1>3, <1>9, <1>10, GrownSound
  <1>12. Index(u, FreeSizes(u.chunk)) /\ Weight(FreeSizes(u.chunk)) = Weight(FreeSizes(c)) - (req - old)
    BY <1>7 DEF GrownAt
  <1>13. total_free = Weight(FreeSizes(u.chunk)) + more
    <2>1. Weight(FreeSizes(c)) \in Int
      BY <1>0, WeightIs
    <2> HIDE DEF old
    <2> QED BY <2>1, <1>0, <1>1, <1>3, <1>8, <1>12
  <1>14. \A z \in moving : z \in DOMAIN u.chunk /\ u.chunk[z].ut = "vo"
    <2>1. \A z \in moving : z \in Nat
      BY <1>0, Tiles
    <2>2. \A z \in moving : z # Nil
      BY <2>1 DEF Nil
    <2> QED BY <2>2, <1>0, <1>11 DEF Spared
  <1>15. drift' = more /\ stale' = new
    BY <1>4, <1>8, <1>10
  <1> HIDE DEF old
  <1> QED BY <1>4, <1>9, <1>11, <1>12, <1>13, <1>14, <1>15 DEF HeapInv

\* Every step keeps the invariant.
LEMMA HeapSteps == HeapInv /\ [HeapNext]_heapVars => HeapInv'
  <1> SUFFICES ASSUME HeapInv, [HeapNext]_heapVars PROVE HeapInv'
    OBVIOUS
  <1>0. /\ drift \in Nat /\ (wild => drift > 0)
        /\ \A z \in moving : z \in Objects
    BY DEF HeapInv, Objects
  <1>1. CASE UNCHANGED heapVars
    <2>1. hp' = hp /\ total_free' = total_free /\ moving' = moving /\ stale' = stale /\ drift' = drift /\ wild' = wild
      BY <1>1 DEF heapVars
    <2> QED BY <2>1 DEF HeapInv
  <1>2. ASSUME NEW req \in Requests, gc_alloc_vo(req) PROVE HeapInv'
    <2>1. PICK r : r = alloc_hmu(hp, req)
      OBVIOUS
    <2>2. /\ Done(r.hp) /\ drift' = drift /\ moving' = moving /\ wild' = wild
          /\ total_free' = total_free - IF r.at = Nil THEN 0 ELSE r.hp.chunk[r.at].size
      BY <1>2, <2>1 DEF gc_alloc_vo
    <2>3. /\ Sound(hp'.chunk, stale', drift') /\ Index(hp', FreeSizes(hp'.chunk))
          /\ total_free' = Weight(FreeSizes(hp'.chunk)) + drift'
          /\ \A x \in Objects : x \in DOMAIN hp'.chunk /\ hp'.chunk[x].ut = "vo"
      BY <2>1, <2>2, AllocKeeps
    <2> QED BY <2>2, <2>3, <1>0 DEF HeapInv
  <1>3. ASSUME NEW x \in Objects \ moving, gc_free_vo(x) PROVE HeapInv'
    <2>1. ~wild /\ Free(x) /\ moving' = moving
      BY <1>3 DEF gc_free_vo
    <2> QED BY <2>1, <1>3, FreeKeeps
  <1>4. ASSUME NEW x \in Objects \ moving, NEW req \in Requests, gc_realloc_vo(x, req) PROVE HeapInv'
    <2>1. ~wild /\ req > hp.chunk[x].size
      BY <1>4 DEF gc_realloc_vo
    <2>2. CASE CanGrow(x, req)
      <3>1. PICK junk \in BOOLEAN : Grow(x, req, junk)
        BY <1>4, <2>2 DEF gc_realloc_vo
      <3> QED BY <3>1, <2>1, <2>2, <1>4, GrowKeeps
    <2>3. CASE ~CanGrow(x, req)
      <3>1. Move(x, req)
        BY <1>4, <2>3 DEF gc_realloc_vo
      <3>2. PICK r : r = alloc_hmu(hp, req)
        OBVIOUS
      <3>3. /\ Done(r.hp) /\ drift' = drift /\ wild' = wild
            /\ moving' = IF r.at = Nil THEN moving ELSE moving \cup {x}
            /\ total_free' = total_free - IF r.at = Nil THEN 0 ELSE r.hp.chunk[r.at].size
        BY <3>1, <3>2 DEF Move
      <3>4. \A z \in moving' : z \in Objects
        BY <3>3, <1>0, <1>4
      <3>5. /\ Sound(hp'.chunk, stale', drift') /\ Index(hp', FreeSizes(hp'.chunk))
            /\ total_free' = Weight(FreeSizes(hp'.chunk)) + drift'
            /\ \A z \in Objects : z \in DOMAIN hp'.chunk /\ hp'.chunk[z].ut = "vo"
        BY <3>2, <3>3, AllocKeeps
      <3> QED BY <3>3, <3>4, <3>5, <1>0 DEF HeapInv
    <2> QED BY <2>2, <2>3
  <1>5. ASSUME NEW x \in moving, FreeMoved(x) PROVE HeapInv'
    <2>1. ~wild /\ Free(x) /\ moving' = moving \ {x} /\ x \in Objects
      BY <1>0, <1>5 DEF FreeMoved
    <2> QED BY <2>1, FreeKeeps
  <1> QED BY <1>1, <1>2, <1>3, <1>4, <1>5 DEF HeapNext

\* The tree of a new heap: the root, and the one chunk to the right of it.
Seedling(n) == Put([y \in {Root} |-> [Leaf(Nil, 0) EXCEPT !.right = 0]], 0, Leaf(Root, n))

\* It is a search tree.
LEMMA FirstTree ==
  ASSUME NEW n \in Nat \ {0}, NEW t, t = Seedling(n)
  PROVE  DOMAIN t = {Root, 0} /\ t[0].size = n /\ \E over : Tree(t, over)
  <1>0. Root # 0 /\ Nil # 0 /\ Nil # Root
    BY DEF Root, Nil
  <1>1. DOMAIN t = {Root, 0} /\ t = [y \in {Root, 0} |-> t[y]]
    BY DEF Put, Seedling
  <1>2. /\ t[Root] = [left |-> Nil, right |-> 0, parent |-> Nil, size |-> 0]
        /\ t[0] = [left |-> Nil, right |-> Nil, parent |-> Root, size |-> n]
    BY <1>0 DEF Put, Leaf, Seedling
  <1> DEFINE over == [y \in {Root, 0} |-> IF y = Root THEN {Root} ELSE {Root, 0}]
  <1>3. Linked(t)
    <2>1. IsFiniteSet({Root, 0})
      <3>1. IsFiniteSet({Root})
        BY FS_Singleton
      <3>2. IsFiniteSet({Root} \cup {0})
        BY <3>1, FS_AddElement, Zenon
      <3>3. {Root} \cup {0} = {Root, 0}
        OBVIOUS
      <3> QED BY <3>2, <3>3
    <2>2. t[Root] \in Node({Root, 0}) /\ t[0] \in Node({Root, 0})
      BY <1>2 DEF Node
    <2>3. t \in [{Root, 0} -> Node({Root, 0})]
      BY <2>2, <1>1
    <2> QED BY <2>1, <2>3, <1>0, <1>1, <1>2, SMTT(30), ZenonT(30) DEF Linked
  <1>4. over[Root] = {Root} /\ over[0] = {Root, 0} /\ over \in [{Root, 0} -> SUBSET {Root, 0}]
    BY <1>0
  <1> HIDE DEF over
  <1>5. Rooted(t, over)
    <2>1. \A z \in DOMAIN t \ {Root} : z \notin over[t[z].parent] /\ over[z] = over[t[z].parent] \cup {z}
      BY <1>0, <1>1, <1>2, <1>4
    <2>2. \A z \in DOMAIN t : \A y \in over[z] :
            /\ over[y] \subseteq over[z]
            /\ y # z => z \notin over[y] /\ (t[y].left \in over[z] \/ t[y].right \in over[z])
      BY <1>0, <1>1, <1>2, <1>4
    <2> QED BY <2>1, <2>2, <1>1, <1>4 DEF Rooted
  <1>6. Ordered(t, over)
    BY <1>0, <1>1, <1>2, <1>4 DEF Ordered
  <1> QED BY <1>1, <1>2, <1>3, <1>5, <1>6 DEF Tree

\* A heap without free chunks has no free size.
LEMMA NoWeight ==
  ASSUME NEW fs, DOMAIN fs = {}
  PROVE  Weight(fs) = 0
  <1> DEFINE share == Share(fs)
  <1>0. Size \in Nat
    BY HeapAssumption DEF HeapAssumption
  <1>1. share \in [0..Size - 1 -> Int] /\ \A i \in 0..Size - 1 : share[i] = 0
    BY DEF Share
  <1> HIDE DEF share
  <1>2. PICK f : Summed(f, share)
    BY <1>1, SumRuns
  <1> DEFINE S == {i \in 0..Size : f[i] = 0}
  <1>3. 0 \in S
    BY <1>0, <1>2 DEF Summed
  <1>4. \A i \in 1..Size : i - 1 \in S => i \in S
    BY <1>0, <1>1, <1>2 DEF Summed
  <1> HIDE DEF S
  <1>5. \A i \in 0..Size : i \in S
    BY <1>0, <1>3, <1>4, Climbs
  <1>6. f[Size] = 0
    BY <1>0, <1>5 DEF S
  <1> QED BY <1>2, <1>6 DEF Summed, Weight, share

\* A new heap has the invariant.
LEMMA HeapStarts == HeapInit => HeapInv
  <1> SUFFICES ASSUME HeapInit PROVE HeapInv
    OBVIOUS
  <1> DEFINE c == hp.chunk
             fs == FreeSizes(c)
             t == hp.tree
  <1>0. Size \in Nat /\ NormalMax \in Nat /\ NormalMax < Size /\ NormalMax > 1 /\ Size > 1
    BY HeapAssumption DEF HeapAssumption
  <1>1. /\ c = [x \in {0} |-> [ut |-> "fc", size |-> Size, pin |-> TRUE]]
        /\ hp.normal = [n \in 1..NormalMax - 1 |-> <<>>]
        /\ t = Seedling(Size)
        /\ Whole(hp)
    BY DEF HeapInit, Whole, Seedling
  <1>2. total_free = Size /\ moving = {} /\ stale = {} /\ drift = 0 /\ wild = FALSE
    BY DEF HeapInit
  <1> HIDE DEF c, t
  <1>3. DOMAIN c = {0} /\ c[0] = [ut |-> "fc", size |-> Size, pin |-> TRUE]
    BY <1>1
  <1>4. c[0].ut = "fc" /\ c[0].size = Size /\ c[0].pin = TRUE /\ c[0] \in ChunkHeader
    BY <1>0, <1>3 DEF ChunkHeader
  <1>5. c \in [DOMAIN c -> ChunkHeader]
    BY <1>1, <1>3, <1>4
  <1>6. Tiling(c)
    BY <1>0, <1>3, <1>4, <1>5 DEF Tiling
  <1>7. Pins(c, {}) /\ Roomy(c) /\ Apart(c)
    BY <1>0, <1>3, <1>4 DEF Pins, Roomy, Apart
  <1>8. Sound(c, stale, drift)
    BY <1>2, <1>4, <1>6, <1>7 DEF Sound
  <1>9. DOMAIN fs = {0} /\ fs[0] = Size /\ fs = [z \in {0} |-> Size]
    BY <1>3, <1>4 DEF FreeSizes
  <1>10. Weight(fs) = Size
    <2> DEFINE e == [z \in {} |-> 0]
    <2>1. DOMAIN e = {} /\ Sized(e)
      BY DEF Sized
    <2>2. Put(e, 0, Size) = fs
      BY <1>9 DEF Put
    <2> HIDE DEF e, fs
    <2>3. Weight(e) = 0
      BY <2>1, NoWeight
    <2>4. Weight(Put(e, 0, Size)) = Weight(e) + Size
      BY <2>1, <1>0, PutWeight
    <2> QED BY <2>2, <2>3, <2>4, <1>0
  <1> HIDE DEF fs
  <1>11. Sized(fs)
    BY <1>0, <1>9 DEF Sized
  <1>12. Listed(hp.normal, fs)
    <2>1. hp.normal \in [1..NormalMax - 1 -> Seq(Nat)]
      BY <1>1
    <2>2. ASSUME NEW n \in 1..NormalMax - 1
          PROVE  Distinct(hp.normal[n]) /\ \A x : Occurs(hp.normal[n], x) <=> x \in DOMAIN fs /\ fs[x] = n
      <3>1. hp.normal[n] = <<>> /\ n # Size
        BY <1>0, <1>1, <2>2
      <3> QED BY <3>1, <1>9 DEF Distinct, Occurs
    <2> QED BY <2>1, <2>2 DEF Listed
  <1>13. Grown(t, fs)
    <2>1. DOMAIN t = {Root, 0} /\ t[0].size = Size /\ \E over : Tree(t, over)
      <3>1. Size \in Nat \ {0} /\ t = Seedling(Size)
        BY <1>0, <1>1
      <3> QED BY <3>1, FirstTree, Zenon
    <2>2. {x \in DOMAIN fs : fs[x] >= NormalMax} = {0}
      BY <1>0, <1>9
    <2> QED BY <2>1, <2>2, <1>9 DEF Grown
  <1>14. Index(hp, fs)
    BY <1>1, <1>11, <1>12, <1>13 DEF Index, t
  <1>15. total_free = Weight(fs) + drift
    BY <1>0, <1>2, <1>10
  <1> QED BY <1>2, <1>8, <1>14, <1>15 DEF HeapInv, fs, c

\* The inductive invariant holds throughout.
LEMMA HeapInvariant == HeapSpec => []HeapInv
  <1>1. HeapInit => HeapInv
    BY HeapStarts
  <1>2. HeapInv /\ [HeapNext]_heapVars => HeapInv'
    BY HeapSteps
  <1> QED BY <1>1, <1>2, PTL DEF HeapSpec

\* What the invariant says of the free chunks.
LEMMA HeapFree ==
  ASSUME HeapInv
  PROVE  /\ Tiling(hp.chunk) /\ Index(hp, FreeSizes(hp.chunk))
         /\ \A x : x \in Frees <=> x \in DOMAIN FreeSizes(hp.chunk)
         /\ \A x \in Frees : x \in DOMAIN hp.chunk /\ FreeSizes(hp.chunk)[x] = hp.chunk[x].size
  <1>1. Tiling(hp.chunk) /\ Index(hp, FreeSizes(hp.chunk))
    BY DEF HeapInv, Sound
  <1> QED BY <1>1, FreeOf DEF Frees

\* The chunks of the heap cover it and do not overlap, whatever is allocated, grown and
\* freed; and free neighbours are merged as long as gc_realloc_vo grew none in place.
THEOREM TiledCorrect == HeapSpec => []Tiled
  <1>1. HeapInv => Tiled
    <2> SUFFICES ASSUME HeapInv PROVE Tiled
      OBVIOUS
    <2> DEFINE c == hp.chunk
    <2>1. Tiling(c) /\ (drift = 0 => Apart(c)) /\ drift \in Nat
      BY DEF HeapInv, Sound
    <2>2. ASSUME NEW x \in DOMAIN c
          PROVE  LET end == x + c[x].size IN
                 /\ c[x].size > 0 /\ (end = Size \/ end \in DOMAIN c)
                 /\ \A y \in DOMAIN c : y > x => y >= end
                 /\ x \in Frees /\ end \in Frees => drift > 0
      <3> DEFINE end == x + c[x].size
      <3>1. c[x].size \in Nat \ {0} /\ (end = Size \/ end \in DOMAIN c)
        BY <2>1, Tiles
      <3>2. \A y \in DOMAIN c : y > x => y >= end
        BY <2>1 DEF Tiling
      <3>3. x \in Frees /\ end \in Frees => drift # 0
        BY <2>1 DEF Apart, Frees
      <3> HIDE DEF end
      <3>4. /\ c[x].size > 0 /\ (end = Size \/ end \in DOMAIN c)
            /\ \A y \in DOMAIN c : y > x => y >= end
            /\ x \in Frees /\ end \in Frees => drift > 0
        BY <3>1, <3>2, <3>3, <2>1
      <3> QED BY <3>4 DEF end
    <2>3. 0 \in DOMAIN c
      BY <2>1 DEF Tiling
    <2> QED BY <2>2, <2>3 DEF Tiled
  <1> QED BY <1>1, HeapInvariant, PTL

\* unlink_hmu, gci_add_fc and alloc_hmu keep every free chunk in exactly one place of the
\* index, and the size-keyed tree a search tree whose parent links lead to the root.
THEOREM IndexedCorrect == HeapSpec => []Indexed
  <1>1. HeapInv => Indexed
    <2> SUFFICES ASSUME HeapInv PROVE Indexed
      OBVIOUS
    <2> DEFINE c == hp.chunk
               fs == FreeSizes(c)
               t == hp.tree
    <2>0. /\ Tiling(c) /\ Index(hp, fs) /\ (\A x : x \in Frees <=> x \in DOMAIN fs)
          /\ \A x \in Frees : x \in DOMAIN c /\ fs[x] = c[x].size
      BY HeapFree
    <2>1. Sized(fs) /\ Listed(hp.normal, fs) /\ Grown(t, fs)
      BY <2>0 DEF Index
    <2> HIDE DEF fs, t
    <2>2. ASSUME NEW n \in DOMAIN hp.normal
          PROVE  IsInjective(hp.normal[n]) /\ Range(hp.normal[n]) = {x \in Frees : c[x].size = n}
      <3> DEFINE s == hp.normal[n]
      <3>1. n \in 1..NormalMax - 1 /\ s \in Seq(Nat) /\ Distinct(s)
            /\ \A x : Occurs(s, x) <=> x \in DOMAIN fs /\ fs[x] = n
        BY <2>1, <2>2 DEF Listed
      <3> HIDE DEF s
      <3>2. DOMAIN s = 1..Len(s)
        BY <3>1
      <3>3. IsInjective(s)
        BY <3>1, <3>2 DEF IsInjective, Distinct
      <3>4. \A x : x \in Range(s) <=> Occurs(s, x)
        BY <3>2 DEF Range, Occurs
      <3>5. Range(s) = {x \in Frees : c[x].size = n}
        BY <3>1, <3>4, <2>0
      <3> QED BY <3>3, <3>5 DEF s
    <2>3. PICK over : Tree(t, over)
      BY <2>1 DEF Grown
    <2>4. Linked(t) /\ Rooted(t, over) /\ Ordered(t, over)
      BY <2>3 DEF Tree
    <2>5. \A x \in Frees : fs[x] \in Nat
      BY <2>0, <2>1 DEF Sized
    <2>6. DOMAIN t = {Root} \cup {x \in Frees : ~HMU_IS_FC_NORMAL(c[x].size)}
      <3>1. NormalMax \in Nat
        BY HeapAssumption DEF HeapAssumption
      <3>2. \A x \in Frees : fs[x] >= NormalMax <=> ~HMU_IS_FC_NORMAL(c[x].size)
        BY <3>1, <2>0, <2>5 DEF HMU_IS_FC_NORMAL
      <3> QED BY <3>2, <2>0, <2>1 DEF Grown
    <2>7. ASSUME NEW y \in DOMAIN t \ {Root}
          PROVE  /\ t[y].size = c[y].size
                 /\ t[y].left # Nil => t[t[y].left].parent = y
                 /\ t[y].right # Nil => t[t[y].right].parent = y
                 /\ t[y].parent \in DOMAIN t /\ y \in {t[t[y].parent].left, t[t[y].parent].right}
                 /\ t[y].left # Nil => t[t[y].left].size <= t[y].size
                 /\ t[y].right # Nil => t[t[y].right].size > t[y].size
                 /\ Walk(t, y, Parents(t)) = Root
      <3>1. t[y].size = c[y].size
        BY <2>0, <2>1, <2>6 DEF Grown
      <3>2. /\ t[y].left # Nil => t[t[y].left].parent = y
            /\ t[y].right # Nil => t[t[y].right].parent = y
            /\ t[y].parent \in DOMAIN t /\ y \in {t[t[y].parent].left, t[t[y].parent].right}
        BY <2>4 DEF Linked
      <3>3. ASSUME t[y].left # Nil PROVE t[t[y].left].size <= t[y].size
        <4>1. t[y].left \in DOMAIN t \ {Root} /\ over[t[y].left] = over[y] \cup {t[y].left}
          BY <3>3, <2>4, Child
        <4> QED BY <4>1, <2>4 DEF Ordered
      <3>4. ASSUME t[y].right # Nil PROVE t[t[y].right].size > t[y].size
        <4>1. t[y].right \in DOMAIN t \ {Root} /\ over[t[y].right] = over[y] \cup {t[y].right}
          BY <3>4, <2>4, Child
        <4> QED BY <4>1, <2>4 DEF Ordered
      <3>5. Walk(t, y, Parents(t)) = Root
        BY <2>4, ClimbToRoot
      <3> QED BY <3>1, <3>2, <3>3, <3>4, <3>5
    <2> QED BY <2>2, <2>6, <2>7 DEF Indexed, t
  <1> QED BY <1>1, HeapInvariant, PTL

\* total_free_size is what the free chunks add up to and the P bits are true, but for
\* what gc_realloc_vo does in place; without it no free reads a header that is none.
THEOREM AccountedCorrect == HeapSpec => []Accounted
  <1>1. HeapInv => Accounted
    <2> SUFFICES ASSUME HeapInv PROVE Accounted
      OBVIOUS
    <2> DEFINE c == hp.chunk
               fs == FreeSizes(c)
               share == [x \in 0..Size - 1 |-> IF x \in Frees THEN c[x].size ELSE 0]
    <2>0. /\ Tiling(c) /\ (\A x : x \in Frees <=> x \in DOMAIN fs)
          /\ \A x \in Frees : x \in DOMAIN c /\ fs[x] = c[x].size
      BY HeapFree
    <2>1. Pins(c, stale) /\ total_free = Weight(fs) + drift /\ (wild => drift > 0)
      BY DEF HeapInv, Sound
    <2>2. share = Share(fs)
      <3> HIDE DEF fs
      <3> QED BY <2>0 DEF Share
    <2>3. total_free = Total(share) + drift
      BY <2>1, <2>2 DEF Weight
    <2>4. ASSUME NEW x \in DOMAIN c \ (stale \cup {0})
          PROVE  c[x].pin <=> c[Before(hp, x)].ut = "vo"
      <3>1. Before(hp, x) \in DOMAIN c /\ Before(hp, x) + c[Before(hp, x)].size = x
        BY <2>0, <2>4, BeforeEnds
      <3> QED BY <3>1, <2>1, <2>4 DEF Pins
    <2> QED BY <2>1, <2>3, <2>4 DEF Accounted
  <1> QED BY <1>1, HeapInvariant, PTL

\* alloc_hmu serves every request from a smallest free chunk that is large enough, from
\* the lists and from the tree, and refuses one only when there is none.
THEOREM BestFitCorrect == HeapSpec => []BestFit
  <1>1. HeapInv => BestFit
    <2> SUFFICES ASSUME HeapInv, NEW req \in Requests
                 PROVE  LET need == IF req < Smallest THEN Smallest ELSE req
                            large == {x \in Frees : hp.chunk[x].size >= need}
                            at == alloc_hmu(hp, req).at
                        IN IF at = Nil THEN large = {}
                           ELSE at \in large /\ \A x \in large : hp.chunk[at].size <= hp.chunk[x].size
      BY DEF BestFit
    <2> DEFINE c == hp.chunk
               need == IF req < Smallest THEN Smallest ELSE req
               large == {x \in Frees : c[x].size >= need}
               at == alloc_hmu(hp, req).at
    <2>1. Tiling(c) /\ Index(hp, FreeSizes(c))
      BY HeapFree
    <2>2. req \in Nat /\ Need(req) = need /\ need \in Nat
      BY HeapAssumption DEF HeapAssumption, Need
    <2>3. Smallfit(c, at, need)
      BY <2>1, <2>2, AllocServes
    <2>4. \A x : x \in Frees <=> x \in DOMAIN c /\ c[x].ut = "fc"
      BY DEF Frees
    <2>5. \A x \in DOMAIN c : c[x].size \in Nat
      BY <2>1, Tiles
    <2> HIDE DEF need, at, c
    <2>6. IF at = Nil THEN large = {}
          ELSE at \in large /\ \A x \in large : c[at].size <= c[x].size
      BY <2>2, <2>3, <2>4, <2>5 DEF Smallfit
    <2> QED BY <2>6 DEF need, at, c
  <1> QED BY <1>1, HeapInvariant, PTL
=============================================================================
