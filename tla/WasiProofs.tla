----------------------------- MODULE WasiProofs -----------------------------
(***************************************************************************)
(* Proofs about Wasi for any number of threads, objects, calls and paths,  *)
(* and any file systems.                                                   *)
(***************************************************************************)
EXTENDS Wasi, ListLemmas, FiniteSetTheorems

Leased == [obj : Objects, fd : HostFds]

\* The tables, and what is known of the records besides the values of their fields.
EntryTable(E) ==
  /\ IsFiniteSet(DOMAIN E)
  /\ \A s \in DOMAIN E : {"obj", "base", "inh"} \subseteq DOMAIN E[s] /\ E[s].obj \in Objects

ObjectTable(O) ==
  /\ DOMAIN O = Objects
  /\ \A o \in Objects : /\ {"ref", "num", "node", "dirh"} \subseteq DOMAIN O[o]
                        /\ O[o].ref \in Nat /\ O[o].num \in HostFds

Shapes ==
  /\ EntryTable(entries) /\ ObjectTable(objs) /\ host = [n \in HostFds |-> host[n]]
  /\ DOMAIN th = Threads /\ leaked \in Seq(Leased)

\* A lookup has a descriptor for every directory below the first, for which it has
\* the object's own.
LookupRecord(l) == {"fds", "st"} \subseteq DOMAIN l

IsLookup(l) ==
  /\ LookupRecord(l)
  /\ \E S : l.fds \in Seq(S)
  /\ l.fds # <<>>

Follows(r, O, h) ==
  /\ Len(r.l.fds) = Len(r.opened) + 1
  /\ \A i \in 1..Len(r.opened) : h[r.opened[i]] = r.l.fds[i + 1]
  /\ LET last == r.held[Len(r.held)] IN last.fd = O[last.obj].num

\* What a thread has at hand at each point.
Able(r) ==
  /\ {"pc", "held", "l", "opened", "nfd"} \subseteq DOMAIN r
  /\ r.held \in Seq(Leased) /\ Len(r.held) <= 2
  /\ r.opened \in Seq(HostFds) /\ r.nfd \in HostFds \cup {-1}
  /\ r.pc \in {"idle", "crashed", "insert", "use", "read", "lock", "lookup", "found", "lost"}
  /\ r.pc \in {"idle", "crashed", "insert"} <=> r.held = <<>>
  /\ r.pc # "lookup" => r.opened = <<>>
  /\ r.pc = "insert" => r.nfd # -1
  /\ r.pc \notin {"use", "insert"} => r.nfd = -1
  /\ IsLookup(r.l)

Running == \A t \in Threads : Able(th[t]) /\ (th[t].pc = "lookup" => Follows(th[t], objs, host))

\* Who owns a descriptor of the host: an object, a lease on another descriptor than
\* its object's, a lookup, the opening of a file, or a lease left behind.
Obj(o) == <<"object", o, 0>>
Hold(t, i) == <<"lease", t, i>>
Walked(t, i) == <<"opened", t, i>>
New(t) == <<"new", t, 0>>
Left(i) == <<"leaked", i, 0>>

Who ==
  {Obj(o) : o \in Objects} \cup {Hold(t, i) : t \in Threads, i \in 1..2}
  \cup {Walked(t, i) : t \in Threads, i \in Nat} \cup {New(t) : t \in Threads} \cup {Left(i) : i \in Nat}

Private(lease) == lease.fd # objs[lease.obj].num

owned(w) ==
  CASE w[1] = "object" -> IF objs[w[2]].ref > 0 THEN objs[w[2]].num ELSE -1
    [] w[1] = "lease" -> IF w[3] <= Len(th[w[2]].held) /\ Private(th[w[2]].held[w[3]])
                         THEN th[w[2]].held[w[3]].fd ELSE -1
    [] w[1] = "opened" -> IF w[3] \in 1..Len(th[w[2]].opened) THEN th[w[2]].opened[w[3]] ELSE -1
    [] w[1] = "new" -> th[w[2]].nfd
    [] w[1] = "leaked" -> IF w[2] \in 1..Len(leaked) /\ Private(leaked[w[2]])
                          THEN leaked[w[2]].fd ELSE -1

own == [w \in Who |-> owned(w)]

\* f says who owns what of h: nobody owns what another one does; the standard
\* descriptors stay open, and only objects have them; above these, what is open is
\* owned and what is owned is open.
Accounted(f, h) ==
  /\ f \in [Who -> HostFds \cup {-1}]
  /\ \A v, w \in Who : f[v] = f[w] /\ f[v] # -1 => v = w
  /\ \A n \in HostFds : n > 2 => (h[n] # None <=> \E w \in Who : f[w] = n)
  /\ \A n \in 0..2 : h[n] # None
  /\ \A w \in Who : f[w] \in 0..2 => \E o \in Objects : w = Obj(o)

Behinds == \A o \in Live : host[objs[o].num] = objs[o].node /\ objs[o].node # None

IInv ==
  /\ Shapes /\ Running
  /\ RefsMatch /\ Accounted(own, host) /\ Behinds

-----------------------------------------------------------------------------
(* Owners.                                                                 *)

\* Every owner has a name, of one of these forms.
LEMMA Names ==
  /\ \A o \in Objects : Obj(o) \in Who
  /\ \A t \in Threads, i \in 1..2 : Hold(t, i) \in Who
  /\ \A t \in Threads, i \in Nat : Walked(t, i) \in Who
  /\ \A t \in Threads : New(t) \in Who
  /\ \A i \in Nat : Left(i) \in Who
  /\ \A w \in Who : \/ \E o \in Objects : w = Obj(o)
                    \/ \E t \in Threads, i \in 1..2 : w = Hold(t, i)
                    \/ \E t \in Threads, i \in Nat : w = Walked(t, i)
                    \/ \E t \in Threads : w = New(t)
                    \/ \E i \in Nat : w = Left(i)
  BY DEF Who

\* The names of the owners are all different.
LEMMA Different ==
  /\ \A o, p : Obj(o) = Obj(p) => o = p
  /\ \A t, u, i, j : Hold(t, i) = Hold(u, j) => t = u /\ i = j
  /\ \A t, u, i, j : Walked(t, i) = Walked(u, j) => t = u /\ i = j
  /\ \A t, u : New(t) = New(u) => t = u
  /\ \A i, j : Left(i) = Left(j) => i = j
  /\ \A o, t, i : Obj(o) # Hold(t, i) /\ Obj(o) # Walked(t, i) /\ Obj(o) # New(t) /\ Obj(o) # Left(i)
  /\ \A t, i, u, j : Hold(t, i) # Walked(u, j) /\ Hold(t, i) # New(u) /\ Hold(t, i) # Left(j)
  /\ \A t, i, u, j : Walked(t, i) # New(u) /\ Walked(t, i) # Left(j)
  /\ \A t, i : New(t) # Left(i)
  BY DEF Obj, Hold, Walked, New, Left

\* What each of them owns.
OwnIs(f, O, T, k) ==
  /\ f = [w \in Who |-> f[w]]
  /\ \A o \in Objects : f[Obj(o)] = IF O[o].ref > 0 THEN O[o].num ELSE -1
  /\ \A t \in Threads, i \in 1..2 :
       f[Hold(t, i)] = IF i <= Len(T[t].held) /\ T[t].held[i].fd # O[T[t].held[i].obj].num
                       THEN T[t].held[i].fd ELSE -1
  /\ \A t \in Threads, i \in Nat :
       f[Walked(t, i)] = IF i \in 1..Len(T[t].opened) THEN T[t].opened[i] ELSE -1
  /\ \A t \in Threads : f[New(t)] = T[t].nfd
  /\ \A i \in Nat : f[Left(i)] = IF i \in 1..Len(k) /\ k[i].fd # O[k[i].obj].num THEN k[i].fd ELSE -1

\* own says so, before and after a step.
LEMMA Owns == OwnIs(own, objs, th, leaked) /\ OwnIs(own', objs', th', leaked')
  <1>1. OwnIs(own, objs, th, leaked)
    <2>1. own = [w \in Who |-> own[w]]
      BY DEF own
    <2>2. \A o \in Objects : own[Obj(o)] = IF objs[o].ref > 0 THEN objs[o].num ELSE -1
      BY Names, ZenonT(60), SMTT(30) DEF own, owned, Obj
    <2>3. \A t \in Threads, i \in 1..2 :
       own[Hold(t, i)] = IF i <= Len(th[t].held) /\ th[t].held[i].fd # objs[th[t].held[i].obj].num
                       THEN th[t].held[i].fd ELSE -1
      BY Names DEF own, owned, Hold, Private
    <2>4. \A t \in Threads, i \in Nat :
       own[Walked(t, i)] = IF i \in 1..Len(th[t].opened) THEN th[t].opened[i] ELSE -1
      BY Names DEF own, owned, Walked
    <2>5. \A t \in Threads : own[New(t)] = th[t].nfd
      BY Names, ZenonT(60), SMTT(30) DEF own, owned, New
    <2>6. \A i \in Nat : own[Left(i)] = IF i \in 1..Len(leaked) /\ leaked[i].fd # objs[leaked[i].obj].num THEN leaked[i].fd ELSE -1
      BY Names DEF own, owned, Left, Private
    <2> QED BY <2>1, <2>2, <2>3, <2>4, <2>5, <2>6 DEF OwnIs
  <1>2. OwnIs(own', objs', th', leaked')
    <2>1. own' = [w \in Who |-> own'[w]]
      BY DEF own
    <2>2. \A o \in Objects : own'[Obj(o)] = IF objs'[o].ref > 0 THEN objs'[o].num ELSE -1
      BY Names, ZenonT(60), SMTT(30) DEF own, owned, Obj
    <2>3. \A t \in Threads, i \in 1..2 :
       own'[Hold(t, i)] = IF i <= Len(th'[t].held) /\ th'[t].held[i].fd # objs'[th'[t].held[i].obj].num
                       THEN th'[t].held[i].fd ELSE -1
      BY Names DEF own, owned, Hold, Private
    <2>4. \A t \in Threads, i \in Nat :
       own'[Walked(t, i)] = IF i \in 1..Len(th'[t].opened) THEN th'[t].opened[i] ELSE -1
      BY Names DEF own, owned, Walked
    <2>5. \A t \in Threads : own'[New(t)] = th'[t].nfd
      BY Names, ZenonT(60), SMTT(30) DEF own, owned, New
    <2>6. \A i \in Nat : own'[Left(i)] = IF i \in 1..Len(leaked') /\ leaked'[i].fd # objs'[leaked'[i].obj].num THEN leaked'[i].fd ELSE -1
      BY Names DEF own, owned, Left, Private
    <2> QED BY <2>1, <2>2, <2>3, <2>4, <2>5, <2>6 DEF OwnIs
  <1> QED BY <1>1, <1>2

\* The constants.
LEMMA Bounds == MaxObjects \in Nat /\ MaxObjects >= 5 /\ 0..2 \subseteq HostFds /\ HostFds \subseteq Nat /\ -1 \notin HostFds
  <1>1. MaxObjects \in Nat /\ MaxObjects >= 5
    BY WasiAssumption
  <1> QED BY <1>1 DEF HostFds

\* What is owned is open, and nobody else's.
LEMMA OwnedOpen ==
  ASSUME NEW f, NEW h, Accounted(f, h), NEW w \in Who, f[w] # -1
  PROVE  f[w] \in HostFds /\ h[f[w]] # None
  <1>1. f[w] \in HostFds /\ f[w] \in Nat
    BY Bounds DEF Accounted
  <1>2. CASE f[w] > 2
    BY <1>1, <1>2 DEF Accounted
  <1>3. CASE ~(f[w] > 2)
    <2>1. f[w] \in 0..2
      BY <1>1, <1>3
    <2> QED BY <1>1, <2>1 DEF Accounted
  <1> QED BY <1>1, <1>2, <1>3

\* Some owners D give up what they own, and it is closed.
Drops(f, h, D, g, k) ==
  /\ g = [w \in Who |-> IF w \in D THEN -1 ELSE f[w]]
  /\ \A n \in HostFds : k[n] = IF n > 2 /\ \E w \in D : f[w] = n THEN None ELSE h[n]

\* What is owned stays open, and what is open owned.
LEMMA DropAll ==
  ASSUME NEW f, NEW h, Accounted(f, h), NEW D \in SUBSET Who, NEW g, NEW k, Drops(f, h, D, g, k)
  PROVE  Accounted(g, k)
  <1>0. /\ g = [w \in Who |-> IF w \in D THEN -1 ELSE f[w]]
        /\ \A n \in HostFds : k[n] = IF n > 2 /\ \E w \in D : f[w] = n THEN None ELSE h[n]
    BY DEF Drops
  <1>1. g \in [Who -> HostFds \cup {-1}]
    BY <1>0 DEF Accounted
  <1>2. ASSUME NEW v \in Who, NEW w \in Who, g[v] = g[w], g[v] # -1 PROVE v = w
    BY <1>0, <1>2 DEF Accounted
  <1>3. ASSUME NEW n \in HostFds, n > 2 PROVE k[n] # None <=> \E w \in Who : g[w] = n
    <2>1. n # -1
      BY <1>3
    <2>2. CASE \E w \in D : f[w] = n
      <3>1. k[n] = None
        BY <1>0, <2>2, <1>3
      <3>2. ASSUME NEW w \in Who, g[w] = n PROVE FALSE
        BY <1>0, <2>1, <2>2, <3>2 DEF Accounted
      <3> QED BY <3>1, <3>2
    <2>3. CASE ~\E w \in D : f[w] = n
      <3>1. k[n] = h[n] /\ (h[n] # None <=> \E w \in Who : f[w] = n)
        BY <1>0, <2>3, <1>3 DEF Accounted
      <3>2. \A w \in Who : g[w] = n <=> f[w] = n
        BY <1>0, <2>1, <2>3
      <3> QED BY <3>1, <3>2
    <2> QED BY <2>2, <2>3
  <1>4. ASSUME NEW n \in 0..2 PROVE k[n] # None
    <2>1. n \in HostFds /\ ~(n > 2)
      BY Bounds
    <2> QED BY <1>0, <2>1 DEF Accounted
  <1>5. ASSUME NEW w \in Who, g[w] \in 0..2 PROVE \E o \in Objects : w = Obj(o)
    <2>1. g[w] = f[w]
      BY <1>0, <1>5
    <2> QED BY <1>5, <2>1 DEF Accounted
  <1> QED BY <1>1, <1>2, <1>3, <1>4, <1>5 DEF Accounted

\* One owner gives up what it owns; a standard descriptor stays open.
LEMMA DropOne ==
  ASSUME NEW f, NEW h, Accounted(f, h), h = [n \in HostFds |-> h[n]], NEW w \in Who
  PROVE  Accounted([f EXCEPT ![w] = -1], HostClose(h, f[w]))
  <1> DEFINE g == [f EXCEPT ![w] = -1]
             k == HostClose(h, f[w])
  <1>1. g = [v \in Who |-> IF v \in {w} THEN -1 ELSE f[v]] /\ f[w] \in HostFds \cup {-1}
    BY DEF Accounted
  <1>2. ASSUME NEW n \in HostFds PROVE k[n] = IF n > 2 /\ \E v \in {w} : f[v] = n THEN None ELSE h[n]
    <2>1. k = IF f[w] > 2 THEN [h EXCEPT ![f[w]] = None] ELSE h
      BY DEF HostClose
    <2>2. CASE f[w] = n
      BY <2>1, <2>2
    <2>3. CASE f[w] # n
      BY <2>1, <2>3
    <2> QED BY <2>2, <2>3
  <1> HIDE DEF g, k
  <1>3. PICK D \in SUBSET Who : D = {w}
    OBVIOUS
  <1>4. /\ g = [v \in Who |-> IF v \in D THEN -1 ELSE f[v]]
        /\ \A n \in HostFds : k[n] = IF n > 2 /\ \E v \in D : f[v] = n THEN None ELSE h[n]
    BY <1>1, <1>2, <1>3
  <1>5. Accounted(g, k)
    BY <1>4, DropAll DEF Drops
  <1> QED BY <1>5 DEF g, k

\* A descriptor is opened for w.
LEMMA Take ==
  ASSUME NEW f, NEW h, Accounted(f, h), h = [n \in HostFds |-> h[n]], NEW w \in Who, f[w] = -1,
         NEW n \in HostFds, h[n] = None, NEW node, node # None,
         NEW g, g = [f EXCEPT ![w] = n], NEW k, k = [h EXCEPT ![n] = node]
  PROVE  Accounted(g, k)
  <1>0. g[w] = n /\ \A v \in Who : v # w => g[v] = f[v]
    BY DEF Accounted
  <1>1. g \in [Who -> HostFds \cup {-1}]
    BY DEF Accounted
  <1>2. n > 2 /\ n \notin 0..2
    <2>1. n \in Nat /\ n \notin 0..2
      BY Bounds DEF Accounted
    <2> QED BY <2>1
  <1>3. \A v \in Who : f[v] # n
    BY <1>2 DEF Accounted
  <1>4. k[n] = node /\ \A m \in HostFds : m # n => k[m] = h[m]
    OBVIOUS
  <1>5. ASSUME NEW u \in Who, NEW v \in Who, g[u] = g[v], g[u] # -1 PROVE u = v
    BY <1>0, <1>3, <1>5 DEF Accounted
  <1>6. ASSUME NEW m \in HostFds, m > 2 PROVE k[m] # None <=> \E v \in Who : g[v] = m
    <2>1. CASE m = n
      BY <2>1, <1>0, <1>4
    <2>2. CASE m # n
      <3>1. h[m] # None <=> \E v \in Who : f[v] = m
        BY <1>6 DEF Accounted
      <3>2. \A v \in Who : g[v] = m <=> f[v] = m
        <4>1. m # -1
          BY <1>6
        <4> QED BY <2>2, <1>0, <4>1
      <3> QED BY <2>2, <3>1, <3>2, <1>4
    <2> QED BY <2>1, <2>2
  <1>7. \A m \in 0..2 : k[m] # None
    BY <1>2, <1>4, Bounds DEF Accounted
  <1>8. \A v \in Who : g[v] \in 0..2 => \E o \in Objects : v = Obj(o)
    BY <1>0, <1>2 DEF Accounted
  <1> QED BY <1>1, <1>5, <1>6, <1>7, <1>8 DEF Accounted

\* v takes over what w owns.
LEMMA Move ==
  ASSUME NEW f, NEW h, Accounted(f, h), NEW v \in Who, NEW w \in Who, v # w, f[v] = -1,
         \A o \in Objects : w # Obj(o),
         NEW g, g = [f EXCEPT ![v] = f[w], ![w] = -1]
  PROVE  Accounted(g, h)
  <1>0. g[v] = f[w] /\ g[w] = -1 /\ \A u \in Who : u # v /\ u # w => g[u] = f[u]
    BY DEF Accounted
  <1>1. g \in [Who -> HostFds \cup {-1}]
    BY DEF Accounted
  <1>2. ASSUME NEW a \in Who, NEW b \in Who, g[a] = g[b], g[a] # -1 PROVE a = b
    BY <1>0, <1>2 DEF Accounted
  <1>3. ASSUME NEW n \in HostFds, n > 2 PROVE (\E u \in Who : f[u] = n) <=> \E u \in Who : g[u] = n
    <2>1. n # -1
      BY <1>3
    <2>2. ASSUME NEW u \in Who, f[u] = n PROVE \E x \in Who : g[x] = n
      BY <2>1, <2>2, <1>0
    <2>3. ASSUME NEW u \in Who, g[u] = n PROVE \E x \in Who : f[x] = n
      BY <2>1, <2>3, <1>0
    <2> QED BY <2>2, <2>3
  <1>4. \A n \in HostFds : n > 2 => (h[n] # None <=> \E u \in Who : g[u] = n)
    BY <1>3 DEF Accounted
  <1>5. \A u \in Who : g[u] \in 0..2 => \E o \in Objects : u = Obj(o)
    <2>1. f[w] \notin 0..2 /\ -1 \notin 0..2
      BY DEF Accounted
    <2> QED BY <1>0, <2>1 DEF Accounted
  <1>6. \A n \in 0..2 : h[n] # None
    BY DEF Accounted
  <1> QED BY <1>1, <1>2, <1>4, <1>5, <1>6 DEF Accounted

\* Two accounts that say the same of every place.
Agree(f, g) ==
  /\ f = [w \in Who |-> f[w]] /\ g = [w \in Who |-> g[w]]
  /\ \A o \in Objects : f[Obj(o)] = g[Obj(o)]
  /\ \A t \in Threads, i \in 1..2 : f[Hold(t, i)] = g[Hold(t, i)]
  /\ \A t \in Threads, i \in Nat : f[Walked(t, i)] = g[Walked(t, i)]
  /\ \A t \in Threads : f[New(t)] = g[New(t)]
  /\ \A i \in Nat : f[Left(i)] = g[Left(i)]

\* Two ways to say who owns what agree.
LEMMA SameOwners ==
  ASSUME NEW f, NEW g, Agree(f, g)
  PROVE  f = g
  <1>1. \A w \in Who : f[w] = g[w]
    BY Names, ZenonT(60), SMTT(30) DEF Agree
  <1>2. f = [w \in Who |-> f[w]] /\ g = [w \in Who |-> g[w]]
    BY DEF Agree
  <1> QED BY <1>1, <1>2

-----------------------------------------------------------------------------
(* Counting references.                                                    *)

EntriesOf(E, o) == {s \in DOMAIN E : E[s].obj = o}
LeasesOf(T, o) == {x \in Leases : x[2] <= Len(T[x[1]].held) /\ T[x[1]].held[x[2]].obj = o}
LeakedOf(k, o) == {i \in DOMAIN k : k[i].obj = o}

One(b) == IF b THEN 1 ELSE 0

Is(a, b) == IF a = b THEN 1 ELSE 0

\* How many of at most two leases are on o.
Uses(h, o) == One(Len(h) >= 1 /\ h[1].obj = o) + One(Len(h) >= 2 /\ h[2].obj = o)

\* The reference counts in terms of these sets, before and after a step.
LEMMA Counted ==
  /\ RefsMatch <=> \A o \in Objects : objs[o].ref = Cardinality(EntriesOf(entries, o))
                       + Cardinality(LeasesOf(th, o)) + Cardinality(LeakedOf(leaked, o))
  /\ RefsMatch' <=> \A o \in Objects : objs'[o].ref = Cardinality(EntriesOf(entries', o))
                       + Cardinality(LeasesOf(th', o)) + Cardinality(LeakedOf(leaked', o))
  BY DEF RefsMatch, EntriesOf, LeasesOf, LeakedOf, LeaseAt

\* One more and one less, where it changes.
LEMMA CountAdd ==
  ASSUME NEW S, IsFiniteSet(S), NEW x, x \notin S, NEW b \in BOOLEAN,
         NEW T, T = IF b THEN S \cup {x} ELSE S
  PROVE  IsFiniteSet(T) /\ Cardinality(T) = Cardinality(S) + One(b) /\ Cardinality(S) \in Nat
  <1>1. Cardinality(S) \in Nat
    BY FS_CardinalityType
  <1>2. CASE b
    BY <1>1, <1>2, FS_AddElement DEF One
  <1>3. CASE ~b
    BY <1>1, <1>3 DEF One
  <1> QED BY <1>2, <1>3

\* The leases are finitely many, because the threads are.
LEMMA LeasesFinite == IsFiniteSet(Leases)
  <1>1. IsFiniteSet(Threads)
    BY WasiAssumption
  <1>2. IsFiniteSet(1..2)
    <2>1. 1 \in Int /\ 2 \in Int
      OBVIOUS
    <2> QED BY <2>1, FS_Interval
  <1>3. Leases = Threads \X (1..2)
    BY DEF Leases
  <1> QED BY <1>1, <1>2, <1>3, FS_Product

\* The leases on o are those of the other threads and those of t.
LEMMA OfThread ==
  ASSUME NEW T, NEW o, NEW t \in Threads, Len(T[t].held) \in Nat, Len(T[t].held) <= 2
  PROVE  /\ IsFiniteSet(LeasesOf(T, o)) /\ Cardinality(LeasesOf(T, o)) \in Nat
         /\ Cardinality(LeasesOf(T, o)) = Cardinality({x \in LeasesOf(T, o) : x[1] # t}) + Uses(T[t].held, o)
         /\ Cardinality({x \in LeasesOf(T, o) : x[1] # t}) \in Nat
  <1> DEFINE L == LeasesOf(T, o)
             A == {x \in L : x[1] # t}
             one == Len(T[t].held) >= 1 /\ T[t].held[1].obj = o
             two == Len(T[t].held) >= 2 /\ T[t].held[2].obj = o
             B == IF one THEN A \cup {<<t, 1>>} ELSE A
  <1>1. IsFiniteSet(L)
    BY LeasesFinite, FS_Subset DEF LeasesOf
  <1>2. IsFiniteSet(A)
    BY <1>1, FS_Subset
  <1>3. <<t, 1>> \in Leases /\ <<t, 2>> \in Leases /\ \A x \in Leases : x[1] = t => x = <<t, 1>> \/ x = <<t, 2>>
    BY DEF Leases
  <1>4. (<<t, 1>> \in L <=> one) /\ (<<t, 2>> \in L <=> two)
    BY <1>3 DEF LeasesOf
  <1>5. \A x \in L : x[1] = t => x = <<t, 1>> \/ x = <<t, 2>>
    BY <1>3 DEF LeasesOf
  <1>6. <<t, 1>> \notin A /\ <<t, 2>> \notin A /\ <<t, 2>> # <<t, 1>>
    OBVIOUS
  <1>7. one \in BOOLEAN /\ two \in BOOLEAN
    OBVIOUS
  <1>8. L = IF two THEN B \cup {<<t, 2>>} ELSE B
    BY <1>4, <1>5, <1>6
  <1>9. Uses(T[t].held, o) = One(one) + One(two)
    BY DEF Uses
  <1> HIDE DEF L, one, two, A
  <1>10. IsFiniteSet(B) /\ Cardinality(B) = Cardinality(A) + One(one) /\ Cardinality(A) \in Nat
    BY <1>2, <1>6, <1>7, CountAdd
  <1>11. <<t, 2>> \notin B
    BY <1>6
  <1> HIDE DEF B
  <1>12. Cardinality(L) = Cardinality(B) + One(two) /\ Cardinality(B) \in Nat
    BY <1>7, <1>8, <1>10, <1>11, CountAdd
  <1>13. Cardinality(L) \in Nat
    BY <1>1, FS_CardinalityType
  <1>14. One(one) \in 0..1 /\ One(two) \in 0..1
    BY DEF One
  <1>15. Cardinality(L) = Cardinality(A) + Uses(T[t].held, o)
    BY <1>9, <1>10, <1>12, <1>14
  <1> QED BY <1>1, <1>10, <1>13, <1>15 DEF L, A

\* Only the leases of t change from T to U.
Apart(T, U, t) ==
  /\ \A u \in Threads : u # t => U[u].held = T[u].held
  /\ Len(T[t].held) \in Nat /\ Len(T[t].held) <= 2 /\ Len(U[t].held) \in Nat /\ Len(U[t].held) <= 2

\* What changes when the leases of one thread do.
LEMMA ThreadChanges ==
  ASSUME NEW T, NEW U, NEW o, NEW t \in Threads, Apart(T, U, t)
  PROVE  /\ Cardinality(LeasesOf(U, o)) + Uses(T[t].held, o) = Cardinality(LeasesOf(T, o)) + Uses(U[t].held, o)
         /\ Cardinality(LeasesOf(U, o)) \in Nat /\ Cardinality(LeasesOf(T, o)) \in Nat
         /\ Uses(T[t].held, o) \in 0..2 /\ Uses(U[t].held, o) \in 0..2
         /\ Uses(T[t].held, o) <= Cardinality(LeasesOf(T, o))
  <1>1. {x \in LeasesOf(T, o) : x[1] # t} = {x \in LeasesOf(U, o) : x[1] # t}
    BY DEF LeasesOf, Leases, Apart
  <1>2. Uses(T[t].held, o) \in 0..2 /\ Uses(U[t].held, o) \in 0..2
    BY DEF Uses, One
  <1>3. PICK c \in Nat : c = Cardinality({x \in LeasesOf(T, o) : x[1] # t}) /\ c = Cardinality({x \in LeasesOf(U, o) : x[1] # t})
    BY <1>1, OfThread, ZenonT(60), SMTT(30) DEF Apart
  <1>4. /\ Cardinality(LeasesOf(T, o)) = c + Uses(T[t].held, o)
        /\ Cardinality(LeasesOf(U, o)) = c + Uses(U[t].held, o)
    BY <1>3, OfThread DEF Apart
  <1> QED BY <1>2, <1>3, <1>4

\* What it costs an object o when s is detached.
Costs(E, s, o) ==
  /\ Cardinality(EntriesOf(E, o)) = Cardinality(EntriesOf(Detached(E, s), o)) + Is(E[s].obj, o)
  /\ Cardinality(EntriesOf(Detached(E, s), o)) \in Nat /\ Cardinality(EntriesOf(E, o)) \in Nat

\* An entry goes: fd_table_detach.
LEMMA EntryGoes ==
  ASSUME NEW E, IsFiniteSet(DOMAIN E), NEW s \in DOMAIN E, NEW o
  PROVE  /\ IsFiniteSet(DOMAIN Detached(E, s)) /\ DOMAIN Detached(E, s) = DOMAIN E \ {s}
         /\ \A x \in DOMAIN E \ {s} : Detached(E, s)[x] = E[x]
         /\ Costs(E, s, o)
  <1> DEFINE F == Detached(E, s)
  <1>1. DOMAIN F = DOMAIN E \ {s} /\ \A x \in DOMAIN E \ {s} : F[x] = E[x]
    BY DEF Detached
  <1> HIDE DEF F
  <1>2. IsFiniteSet(DOMAIN F)
    BY <1>1, FS_Subset
  <1> DEFINE A == EntriesOf(F, o)
             B == EntriesOf(E, o)
             b == E[s].obj = o
  <1>3. IsFiniteSet(A) /\ IsFiniteSet(B)
    BY <1>2, FS_Subset DEF EntriesOf
  <1>4. s \notin A /\ b \in BOOLEAN /\ B = IF b THEN A \cup {s} ELSE A
    BY <1>1 DEF EntriesOf
  <1> HIDE DEF A, B, b
  <1>5. Cardinality(B) = Cardinality(A) + One(b) /\ Cardinality(A) \in Nat
    BY <1>3, <1>4, CountAdd
  <1>6. Cardinality(B) \in Nat
    BY <1>3, FS_CardinalityType
  <1>7. One(b) = Is(E[s].obj, o)
    BY DEF One, Is, b
  <1>8. Costs(E, s, o)
    BY <1>5, <1>6, <1>7 DEF Costs, A, B, F
  <1> QED BY <1>1, <1>2, <1>8 DEF F

\* An entry comes to a free slot: fd_table_insert.
Comes(E, s, e, F) == s \notin DOMAIN E /\ F = [x \in DOMAIN E \cup {s} |-> IF x = s THEN e ELSE E[x]]

\* Its object has one more.
LEMMA EntryComes ==
  ASSUME NEW E, IsFiniteSet(DOMAIN E), NEW s, NEW e, NEW o, NEW F, Comes(E, s, e, F)
  PROVE  /\ IsFiniteSet(DOMAIN F)
         /\ Cardinality(EntriesOf(F, o)) = Cardinality(EntriesOf(E, o)) + Is(e.obj, o)
         /\ Cardinality(EntriesOf(E, o)) \in Nat
  <1>1. DOMAIN F = DOMAIN E \cup {s} /\ F[s] = e /\ (\A x \in DOMAIN E : F[x] = E[x]) /\ s \notin DOMAIN E
    BY DEF Comes
  <1>2. IsFiniteSet(DOMAIN F)
    BY <1>1, FS_AddElement
  <1> DEFINE A == EntriesOf(E, o)
             B == EntriesOf(F, o)
             b == e.obj = o
  <1>3. IsFiniteSet(A) /\ IsFiniteSet(B)
    BY <1>2, FS_Subset DEF EntriesOf
  <1>4. s \notin A /\ b \in BOOLEAN /\ B = IF b THEN A \cup {s} ELSE A
    BY <1>1 DEF EntriesOf
  <1> HIDE DEF A, B, b
  <1>5. Cardinality(B) = Cardinality(A) + One(b) /\ Cardinality(A) \in Nat
    BY <1>3, <1>4, CountAdd
  <1>6. One(b) = Is(e.obj, o)
    BY DEF One, Is, b
  <1> QED BY <1>2, <1>5, <1>6 DEF A, B

\* At most two leases are left behind.
LEMMA LeasesLeft ==
  ASSUME NEW k \in Seq(Leased), NEW h \in Seq(Leased), Len(h) <= 2, NEW o
  PROVE  /\ Cardinality(LeakedOf(k \o h, o)) = Cardinality(LeakedOf(k, o)) + Uses(h, o)
         /\ Cardinality(LeakedOf(k, o)) \in Nat
  <1> DEFINE n == Len(k)
             A == LeakedOf(k, o)
             one == Len(h) >= 1 /\ h[1].obj = o
             two == Len(h) >= 2 /\ h[2].obj = o
             B == IF one THEN A \cup {n + 1} ELSE A
             C == LeakedOf(k \o h, o)
  <1>1. n \in Nat /\ Len(h) \in 0..2 /\ DOMAIN k = 1..n /\ DOMAIN h = 1..Len(h)
    <2>1. Len(k) \in Nat /\ Len(h) \in Nat /\ DOMAIN k = 1..Len(k) /\ DOMAIN h = 1..Len(h)
      OBVIOUS
    <2>2. \A m \in Nat : m <= 2 => m \in 0..2
      OBVIOUS
    <2> QED BY <2>1, <2>2
  <1>2. /\ k \o h \in Seq(Leased) /\ Len(k \o h) = n + Len(h) /\ DOMAIN (k \o h) = 1..n + Len(h)
        /\ \A i \in 1..n : (k \o h)[i] = k[i]
        /\ \A i \in 1..Len(h) : (k \o h)[n + i] = h[i]
    BY <1>1
  <1>3. one \in BOOLEAN /\ two \in BOOLEAN
    OBVIOUS
  <1>4. IsFiniteSet(A)
    <2>1. IsFiniteSet(1..n)
      <3>1. 1 \in Int /\ n \in Int
        BY <1>1
      <3> QED BY <3>1, FS_Interval
    <2> QED BY <2>1, <1>1, FS_Subset DEF LeakedOf
  <1>5. n + 1 \notin A /\ n + 2 \notin B
    BY <1>1 DEF LeakedOf
  <1> DEFINE s == k \o h
  <1> HIDE DEF s
  <1>6. /\ DOMAIN s = 1..n + Len(h) /\ \A i \in 1..n : s[i] = k[i]
        /\ Len(h) >= 1 => s[n + 1] = h[1]
        /\ Len(h) >= 2 => s[n + 2] = h[2]
    BY <1>1, <1>2 DEF s
  <1>7. C = LeakedOf(s, o)
    BY DEF s
  <1> HIDE DEF n
  <1>8. \A i \in 1..n + Len(h) : i \in 1..n \/ (i = n + 1 /\ Len(h) >= 1) \/ (i = n + 2 /\ Len(h) >= 2)
    BY <1>1
  <1>9. 1..n \subseteq 1..n + Len(h) /\ (Len(h) >= 1 => n + 1 \in 1..n + Len(h)) /\ (Len(h) >= 2 => n + 2 \in 1..n + Len(h))
    BY <1>1
  <1>10. C = IF two THEN B \cup {n + 2} ELSE B
    <2>1. A = {i \in 1..n : k[i].obj = o}
      BY <1>1 DEF LeakedOf
    <2>2. C = {i \in 1..n + Len(h) : s[i].obj = o}
      BY <1>6, <1>7 DEF LeakedOf
    <2> QED BY <2>1, <2>2, <1>6, <1>8, <1>9
  <1> HIDE DEF A, one, two, C
  <1>11. IsFiniteSet(B) /\ Cardinality(B) = Cardinality(A) + One(one) /\ Cardinality(A) \in Nat
    BY <1>3, <1>4, <1>5, CountAdd
  <1> HIDE DEF B
  <1>12. Cardinality(C) = Cardinality(B) + One(two)
    BY <1>3, <1>5, <1>10, <1>11, CountAdd
  <1>13. Uses(h, o) = One(one) + One(two) /\ One(one) \in 0..1 /\ One(two) \in 0..1
    BY DEF Uses, One, one, two
  <1>14. Cardinality(C) = Cardinality(A) + Uses(h, o)
    BY <1>11, <1>12, <1>13
  <1> QED BY <1>11, <1>14 DEF A, C

-----------------------------------------------------------------------------
(* A step of a lookup.                                                     *)

\* What a failed lookup keeps.
LEMMA FailedFds ==
  ASSUME NEW l, LookupRecord(l), NEW e
  PROVE  LookupRecord(Failed(l, e)) /\ Failed(l, e).fds = <<l.fds[1]>>
  BY DEF LookupRecord, Failed

\* The end of a path closes nothing.
LEMMA NextPathFds ==
  ASSUME NEW l, LookupRecord(l)
  PROVE  LookupRecord(NextPath(l)) /\ NextPath(l).fds = l.fds /\ NextPath(l).st \in {l.st, "ok"}
  BY DEF LookupRecord, NextPath

\* Neither does a symbolic link, or the lookup fails.
LEMMA push_symlinkFds ==
  ASSUME NEW l, LookupRecord(l), NEW target, NEW slashes
  PROVE  LET s == push_symlink(l, target, slashes)
         IN LookupRecord(s) /\ ((s.fds = l.fds /\ s.st = l.st) \/ s.fds = <<l.fds[1]>>)
  <1>1. PICK link : link = [target EXCEPT !.slash = @ \/ slashes]
    OBVIOUS
  <1>2. PICK n : n = Len(l.paths)
    OBVIOUS
  <1> DEFINE a == [l EXCEPT !.exp = @ + 1, !.paths[n] = link]
             b == [l EXCEPT !.exp = @ + 1, !.paths = Append(@, link)]
             s == push_symlink(l, target, slashes)
  <1>3. s = Failed(l, "ELOOP") \/ s = a \/ s = b
    BY <1>1, <1>2 DEF push_symlink
  <1>4. LookupRecord(a) /\ a.fds = l.fds /\ a.st = l.st
    BY DEF LookupRecord
  <1>5. LookupRecord(b) /\ b.fds = l.fds /\ b.st = l.st
    BY DEF LookupRecord
  <1>6. LookupRecord(Failed(l, "ELOOP")) /\ Failed(l, "ELOOP").fds = <<l.fds[1]>>
    BY FailedFds
  <1> HIDE DEF a, b, s
  <1>7. LookupRecord(s) /\ ((s.fds = l.fds /\ s.st = l.st) \/ s.fds = <<l.fds[1]>>)
    BY <1>3, <1>4, <1>5, <1>6
  <1> QED BY <1>7 DEF s

\* From l to s a lookup opens one directory, or closes some at the end of the stack;
\* it closes all but the first when it fails.
Turns(l, s) ==
  /\ LookupRecord(s)
  /\ \/ \E n : n # None /\ s.fds = Append(l.fds, n)
     \/ \E k \in 1..Len(l.fds) : s.fds = SubSeq(l.fds, 1, k)
  /\ s.st \in {l.st, "ok"} \/ s.fds = <<l.fds[1]>>

\* One turn of the loop of path_get.
LEMMA LookupStepFds ==
  ASSUME NEW l, IsLookup(l), NEW F
  PROVE  IsLookup(LookupStep(l, F)) /\ Turns(l, LookupStep(l, F))
  <1>0. PICK S : l.fds \in Seq(S) /\ Len(l.fds) \in Nat /\ Len(l.fds) >= 1 /\ LookupRecord(l)
    <2>1. PICK S : l.fds \in Seq(S)
      BY DEF IsLookup
    <2>2. Len(l.fds) \in Nat /\ Len(l.fds) # 0
      BY <2>1, Short DEF IsLookup
    <2> QED BY <2>1, <2>2 DEF IsLookup
  <1>1. ASSUME NEW s, Turns(l, s) PROVE IsLookup(s)
    <2>0. LookupRecord(s)
      BY <1>1 DEF Turns
    <2>1. CASE \E n : n # None /\ s.fds = Append(l.fds, n)
      <3>1. PICK n : s.fds = Append(l.fds, n)
        BY <2>1
      <3>2. l.fds \in Seq(S \cup {n}) /\ n \in S \cup {n}
        BY <1>0
      <3>3. s.fds \in Seq(S \cup {n}) /\ Len(s.fds) = Len(l.fds) + 1
        BY <3>1, <3>2, AppendProperties
      <3>4. s.fds # <<>>
        BY <3>3, <1>0, Short
      <3> QED BY <2>0, <3>3, <3>4 DEF IsLookup
    <2>2. CASE \E k \in 1..Len(l.fds) : s.fds = SubSeq(l.fds, 1, k)
      <3>1. PICK k \in 1..Len(l.fds) : s.fds = SubSeq(l.fds, 1, k)
        BY <2>2
      <3>2. s.fds \in Seq(S) /\ Len(s.fds) = k
        BY <3>1, <1>0
      <3>3. s.fds # <<>>
        BY <3>2, Short
      <3> QED BY <2>0, <3>2, <3>3 DEF IsLookup
    <2> QED BY <1>1, <2>1, <2>2 DEF Turns
  <1>2. SubSeq(l.fds, 1, Len(l.fds)) = l.fds /\ SubSeq(l.fds, 1, 1) = <<l.fds[1]>>
    <2>1. SubSeq(l.fds, 1, Len(l.fds)) = l.fds
      BY <1>0
    <2>2. SubSeq(l.fds, 1, 1) \in Seq(S) /\ Len(SubSeq(l.fds, 1, 1)) = 1 /\ SubSeq(l.fds, 1, 1)[1] = l.fds[1]
      BY <1>0
    <2> QED BY <2>1, <2>2, Short, ZenonT(60), SMTT(30)
  <1>3. ASSUME NEW s, LookupRecord(s), (s.fds = l.fds /\ s.st \in {l.st, "ok"}) \/ s.fds = <<l.fds[1]>>
        PROVE  Turns(l, s)
    <2>1. 1 \in 1..Len(l.fds) /\ Len(l.fds) \in 1..Len(l.fds)
      BY <1>0
    <2>2. \E k \in 1..Len(l.fds) : s.fds = SubSeq(l.fds, 1, k)
      BY <1>2, <1>3, <2>1
    <2> QED BY <1>3, <2>2 DEF Turns
  <1> DEFINE p == Cur(l)
             name == Head(p.names)
             rest == Tail(p.names)
             slashes == rest # <<>> \/ p.slash
             at == [l EXCEPT !.paths[Len(l.paths)] = [p EXCEPT !.names = rest]]
  <1>4. LookupRecord(at) /\ at.fds = l.fds /\ at.st = l.st
    BY <1>0 DEF LookupRecord
  <1>5. \/ \E e : LookupStep(l, F) = Failed(l, e)
        \/ LookupStep(l, F) = NextPath(at)
        \/ LookupStep(l, F) = Parent(at, F)
        \/ LookupStep(l, F) = Enter(at, F, name, slashes)
        \/ LookupStep(l, F) = Final(at, F, name, slashes)
    BY DEF LookupStep
  <1> HIDE DEF p, name, rest, slashes, at
  <1>6. \A e : Turns(l, Failed(l, e)) /\ Turns(l, Failed(at, e))
    BY <1>0, <1>3, <1>4, FailedFds
  <1>7. Turns(l, NextPath(at))
    BY <1>3, <1>4, NextPathFds
  <1>8. Turns(l, Parent(at, F))
    <2> DEFINE a == [at EXCEPT !.fds = SubSeq(@, 1, Len(@) - 1)]
    <2>1. CASE Len(at.fds) = 1
      BY <2>1, <1>6 DEF Parent
    <2>2. CASE Len(at.fds) # 1
      <3>1. Parent(at, F) = NextPath(a)
        BY <2>2 DEF Parent
      <3>2. LookupRecord(a) /\ a.fds = SubSeq(l.fds, 1, Len(l.fds) - 1) /\ a.st = l.st
        BY <1>4 DEF LookupRecord
      <3> HIDE DEF a
      <3>3. /\ LookupRecord(NextPath(a)) /\ NextPath(a).fds = SubSeq(l.fds, 1, Len(l.fds) - 1)
            /\ NextPath(a).st \in {l.st, "ok"}
        BY <3>2, NextPathFds
      <3>4. \A n \in Nat : n >= 1 /\ n # 1 => n - 1 \in 1..n
        OBVIOUS
      <3>5. Len(l.fds) - 1 \in 1..Len(l.fds)
        BY <1>0, <1>4, <2>2, <3>4
      <3> QED BY <3>1, <3>3, <3>5 DEF Turns
    <2> QED BY <2>1, <2>2
  <1>9. Turns(l, Enter(at, F, name, slashes))
    <2> DEFINE n == Entry(F, Here(at), name)
               a == [at EXCEPT !.fds = Append(@, n)]
    <2>1. \/ \E e : Enter(at, F, name, slashes) = Failed(at, e)
          \/ IsDir(F, n) /\ Enter(at, F, name, slashes) = NextPath(a)
          \/ Enter(at, F, name, slashes) = push_symlink(at, F[n].target, slashes)
      BY DEF Enter
    <2>2. LookupRecord(a) /\ a.fds = Append(l.fds, n) /\ a.st = l.st
      BY <1>4 DEF LookupRecord
    <2>3. IsDir(F, n) => n # None
      BY DEF IsDir
    <2> HIDE DEF a, n
    <2>4. /\ LookupRecord(NextPath(a)) /\ NextPath(a).fds = Append(l.fds, n)
          /\ NextPath(a).st \in {l.st, "ok"}
      BY <2>2, NextPathFds
    <2>5. IsDir(F, n) => Turns(l, NextPath(a))
      BY <2>3, <2>4 DEF Turns
    <2>6. Turns(l, push_symlink(at, F[n].target, slashes))
      BY <1>3, <1>4, push_symlinkFds
    <2> QED BY <2>1, <2>5, <2>6, <1>6
  <1>10. Turns(l, Final(at, F, name, slashes))
    <2> DEFINE n == Entry(F, Here(at), name)
               a == [at EXCEPT !.st = "ok", !.file = name, !.slash = slashes, !.paths = <<>>]
    <2>1. \/ Final(at, F, name, slashes) = a
          \/ Final(at, F, name, slashes) = push_symlink(at, F[n].target, slashes)
      BY DEF Final
    <2>2. LookupRecord(a) /\ a.fds = l.fds /\ a.st = "ok"
      BY <1>4 DEF LookupRecord
    <2> HIDE DEF a, n
    <2>3. Turns(l, a)
      BY <1>3, <2>2
    <2>4. Turns(l, push_symlink(at, F[n].target, slashes))
      BY <1>3, <1>4, push_symlinkFds
    <2> QED BY <2>1, <2>3, <2>4
  <1>11. Turns(l, LookupStep(l, F))
    BY <1>5, <1>6, <1>7, <1>8, <1>9, <1>10
  <1> QED BY <1>1, <1>11

-----------------------------------------------------------------------------
(* What the invariant says.                                                *)

\* What every step starts from.
LEMMA Start ==
  ASSUME IInv
  PROVE  /\ Shapes /\ RefsMatch /\ Accounted(own, host) /\ Behinds /\ own = [w \in Who |-> own[w]]
         /\ \A t \in Threads : Able(th[t]) /\ (th[t].pc = "lookup" => Follows(th[t], objs, host))
  BY Owns DEF IInv, Running, OwnIs

\* A thread has at most two leases.
LEMMA HeldLeases ==
  ASSUME NEW r, Able(r)
  PROVE  /\ Len(r.held) \in 0..2 /\ r.held \in Seq(Leased) /\ DOMAIN r.held = 1..Len(r.held)
         /\ \A i \in 1..Len(r.held) : i \in 1..2 /\ r.held[i].obj \in Objects /\ r.held[i].fd \in HostFds
         /\ r.held = <<>> <=> Len(r.held) = 0
  <1>1. r.held \in Seq(Leased) /\ Len(r.held) <= 2 /\ Len(r.held) \in Nat /\ DOMAIN r.held = 1..Len(r.held)
    BY DEF Able
  <1>2. \A n \in Nat : n <= 2 => n \in 0..2 /\ \A i \in 1..n : i \in 1..2
    OBVIOUS
  <1>3. ASSUME NEW i \in 1..Len(r.held) PROVE r.held[i].obj \in Objects /\ r.held[i].fd \in HostFds
    <2>1. r.held[i] \in Leased
      BY <1>1
    <2> QED BY <2>1 DEF Leased
  <1>4. r.held = <<>> <=> Len(r.held) = 0
    BY <1>1, Short
  <1> QED BY <1>1, <1>2, <1>3, <1>4

\* A finite set with an element.
LEMMA SomeElement ==
  ASSUME NEW S, IsFiniteSet(S), NEW x \in S
  PROVE  Cardinality(S) \in Nat /\ Cardinality(S) >= 1
  <1>1. Cardinality(S) \in Nat /\ Cardinality(S) # 0
    BY FS_CardinalityType, FS_EmptySet
  <1> QED BY <1>1

\* The references to an object can be counted.
LEMMA Countable ==
  ASSUME IInv, NEW o \in Objects
  PROVE  /\ IsFiniteSet(EntriesOf(entries, o)) /\ IsFiniteSet(LeasesOf(th, o)) /\ IsFiniteSet(LeakedOf(leaked, o))
         /\ Cardinality(EntriesOf(entries, o)) \in Nat /\ Cardinality(LeasesOf(th, o)) \in Nat
         /\ Cardinality(LeakedOf(leaked, o)) \in Nat
         /\ objs[o].ref = Cardinality(EntriesOf(entries, o)) + Cardinality(LeasesOf(th, o))
                          + Cardinality(LeakedOf(leaked, o))
  <1>0. IsFiniteSet(DOMAIN entries) /\ leaked \in Seq(Leased)
    BY Start DEF Shapes, EntryTable
  <1>1. IsFiniteSet(EntriesOf(entries, o))
    BY <1>0, FS_Subset DEF EntriesOf
  <1>2. IsFiniteSet(LeasesOf(th, o))
    BY LeasesFinite, FS_Subset DEF LeasesOf
  <1>3. IsFiniteSet(LeakedOf(leaked, o))
    <2>1. DOMAIN leaked = 1..Len(leaked) /\ 1 \in Int /\ Len(leaked) \in Int
      BY <1>0
    <2>2. IsFiniteSet(DOMAIN leaked)
      BY <2>1, FS_Interval
    <2> QED BY <2>2, FS_Subset DEF LeakedOf
  <1>4. objs[o].ref = Cardinality(EntriesOf(entries, o)) + Cardinality(LeasesOf(th, o))
                      + Cardinality(LeakedOf(leaked, o))
    BY Start, Counted
  <1> QED BY <1>1, <1>2, <1>3, <1>4, FS_CardinalityType

\* What is referred to is alive.
LEMMA Referenced ==
  ASSUME IInv
  PROVE  /\ \A s \in DOMAIN entries : entries[s].obj \in Objects /\ objs[entries[s].obj].ref > 0
         /\ \A t \in Threads : \A i \in 1..Len(th[t].held) :
              th[t].held[i].obj \in Objects /\ objs[th[t].held[i].obj].ref > 0
         /\ \A i \in 1..Len(leaked) : leaked[i].obj \in Objects /\ objs[leaked[i].obj].ref > 0
  <1>0. \A a, b, c \in Nat : a >= 1 \/ b >= 1 \/ c >= 1 => a + b + c > 0
    OBVIOUS
  <1>1. ASSUME NEW s \in DOMAIN entries PROVE entries[s].obj \in Objects /\ objs[entries[s].obj].ref > 0
    <2>1. entries[s].obj \in Objects
      BY Start DEF Shapes, EntryTable
    <2>2. s \in EntriesOf(entries, entries[s].obj)
      BY DEF EntriesOf
    <2>3. Cardinality(EntriesOf(entries, entries[s].obj)) >= 1
      BY <2>1, <2>2, Countable, SomeElement
    <2> QED BY <2>1, <2>3, <1>0, Countable
  <1>2. ASSUME NEW t \in Threads, NEW i \in 1..Len(th[t].held)
        PROVE  th[t].held[i].obj \in Objects /\ objs[th[t].held[i].obj].ref > 0
    <2>1. th[t].held[i].obj \in Objects /\ i \in 1..2 /\ i <= Len(th[t].held)
      BY Start, HeldLeases
    <2>2. <<t, i>> \in LeasesOf(th, th[t].held[i].obj)
      BY <2>1 DEF LeasesOf, Leases
    <2>3. IsFiniteSet(LeasesOf(th, th[t].held[i].obj))
      BY <2>1, Countable
    <2>4. Cardinality(LeasesOf(th, th[t].held[i].obj)) >= 1
      BY <2>2, <2>3, SomeElement
    <2> QED BY <2>1, <2>4, <1>0, Countable
  <1>3. ASSUME NEW i \in 1..Len(leaked) PROVE leaked[i].obj \in Objects /\ objs[leaked[i].obj].ref > 0
    <2>0. leaked \in Seq(Leased)
      BY Start DEF Shapes
    <2>1. leaked[i].obj \in Objects /\ i \in DOMAIN leaked
      <3>1. leaked[i] \in Leased /\ i \in DOMAIN leaked
        BY <2>0
      <3> QED BY <3>1 DEF Leased
    <2>2. i \in LeakedOf(leaked, leaked[i].obj)
      BY <2>1 DEF LeakedOf
    <2>3. Cardinality(LeakedOf(leaked, leaked[i].obj)) >= 1
      BY <2>1, <2>2, Countable, SomeElement
    <2> QED BY <2>1, <2>3, <1>0, Countable
  <1> QED BY <1>1, <1>2, <1>3

\* The counts still agree when each changes as the references do.
LEMMA Rebalance ==
  ASSUME IInv, NEW t \in Threads, \A u \in Threads : u # t => th'[u].held = th[u].held, Able(th'[t]),
         \A o \in Objects :
           /\ Cardinality(EntriesOf(entries', o)) \in Nat /\ Cardinality(LeakedOf(leaked', o)) \in Nat
           /\ objs'[o].ref \in Nat
           /\ objs'[o].ref + Cardinality(EntriesOf(entries, o)) + Cardinality(LeakedOf(leaked, o)) + Uses(th[t].held, o)
              = objs[o].ref + Cardinality(EntriesOf(entries', o)) + Cardinality(LeakedOf(leaked', o)) + Uses(th'[t].held, o)
  PROVE  RefsMatch'
  <1>1. Len(th[t].held) \in Nat /\ Len(th[t].held) <= 2 /\ Len(th'[t].held) \in Nat /\ Len(th'[t].held) <= 2
    <2>1. Able(th[t])
      BY Start
    <2>2. Len(th[t].held) \in 0..2 /\ Len(th'[t].held) \in 0..2
      BY <2>1, HeldLeases
    <2>3. \A n \in 0..2 : n \in Nat /\ n <= 2
      OBVIOUS
    <2> QED BY ONLY <2>2, <2>3
  <1>2. ASSUME NEW o \in Objects
        PROVE  objs'[o].ref = Cardinality(EntriesOf(entries', o)) + Cardinality(LeasesOf(th', o)) + Cardinality(LeakedOf(leaked', o))
    <2>0. PICK T, U : T = th /\ U = th'
      OBVIOUS
    <2>1. /\ Cardinality(LeasesOf(U, o)) + Uses(T[t].held, o) = Cardinality(LeasesOf(T, o)) + Uses(U[t].held, o)
          /\ Cardinality(LeasesOf(U, o)) \in Nat
          /\ Uses(T[t].held, o) \in 0..2 /\ Uses(U[t].held, o) \in 0..2
      <3>1. Apart(T, U, t)
        BY <1>1, <2>0 DEF Apart
      <3> QED BY <3>1, ThreadChanges
    <2>2. /\ Cardinality(EntriesOf(entries, o)) \in Nat /\ Cardinality(LeasesOf(th, o)) \in Nat
          /\ Cardinality(LeakedOf(leaked, o)) \in Nat
          /\ objs[o].ref = Cardinality(EntriesOf(entries, o)) + Cardinality(LeasesOf(th, o)) + Cardinality(LeakedOf(leaked, o))
      BY Countable
    <2>3. /\ Cardinality(EntriesOf(entries', o)) \in Nat /\ Cardinality(LeakedOf(leaked', o)) \in Nat
          /\ objs'[o].ref \in Nat
          /\ objs'[o].ref + Cardinality(EntriesOf(entries, o)) + Cardinality(LeakedOf(leaked, o)) + Uses(T[t].held, o)
             = objs[o].ref + Cardinality(EntriesOf(entries', o)) + Cardinality(LeakedOf(leaked', o)) + Uses(U[t].held, o)
      BY <2>0
    <2>4. Cardinality(LeasesOf(th, o)) = Cardinality(LeasesOf(T, o)) /\ Cardinality(LeasesOf(th', o)) = Cardinality(LeasesOf(U, o))
      BY <2>0
    <2> QED BY ONLY <2>1, <2>2, <2>3, <2>4
  <1> QED BY <1>2, Counted

-----------------------------------------------------------------------------
(* Steps of one thread.                                                    *)

\* Objects in use keep their descriptor, and descriptors that stay open their node.
Keeps ==
  /\ \A o \in Objects : objs[o].ref > 0 => objs'[o].num = objs[o].num /\ objs'[o].node = objs[o].node
  /\ \A n \in HostFds : host[n] # None /\ host'[n] # None => host'[n] = host[n]

Alone(t) == DOMAIN th' = Threads /\ \A u \in Threads : u # t => th'[u] = th[u]

\* What the other threads own stays theirs.
LEMMA Elsewhere ==
  ASSUME IInv, Keeps, NEW t \in Threads, Alone(t)
  PROVE  /\ \A u \in Threads, i \in 1..2 : u # t => own'[Hold(u, i)] = own[Hold(u, i)]
         /\ \A u \in Threads, i \in Nat : u # t => own'[Walked(u, i)] = own[Walked(u, i)]
         /\ \A u \in Threads : u # t => own'[New(u)] = own[New(u)]
         /\ leaked' = leaked => \A i \in Nat : own'[Left(i)] = own[Left(i)]
  <1>0. OwnIs(own, objs, th, leaked) /\ OwnIs(own', objs', th', leaked')
    BY Owns
  <1>1. ASSUME NEW u \in Threads, NEW i \in 1..2, u # t PROVE own'[Hold(u, i)] = own[Hold(u, i)]
    <2>1. th'[u] = th[u]
      BY <1>1 DEF Alone
    <2>2. ASSUME i <= Len(th[u].held)
          PROVE  objs'[th[u].held[i].obj].num = objs[th[u].held[i].obj].num
      <3>1. Len(th[u].held) \in 0..2
        BY Start, HeldLeases
      <3>2. \A n \in 0..2 : i <= n => i \in 1..n
        OBVIOUS
      <3>3. i \in 1..Len(th[u].held)
        BY <3>1, <3>2, <2>2
      <3>4. th[u].held[i].obj \in Objects /\ objs[th[u].held[i].obj].ref > 0
        BY <3>3, Referenced
      <3> QED BY <3>4 DEF Keeps
    <2>3. /\ own[Hold(u, i)] = IF i <= Len(th[u].held) /\ th[u].held[i].fd # objs[th[u].held[i].obj].num
                               THEN th[u].held[i].fd ELSE -1
          /\ own'[Hold(u, i)] = IF i <= Len(th'[u].held) /\ th'[u].held[i].fd # objs'[th'[u].held[i].obj].num
                                THEN th'[u].held[i].fd ELSE -1
      BY <1>0 DEF OwnIs
    <2> QED BY <2>1, <2>2, <2>3
  <1>2. ASSUME NEW u \in Threads, NEW i \in Nat, u # t PROVE own'[Walked(u, i)] = own[Walked(u, i)]
    <2>1. th'[u] = th[u]
      BY <1>2 DEF Alone
    <2>2. /\ own[Walked(u, i)] = IF i \in 1..Len(th[u].opened) THEN th[u].opened[i] ELSE -1
          /\ own'[Walked(u, i)] = IF i \in 1..Len(th'[u].opened) THEN th'[u].opened[i] ELSE -1
      BY <1>0 DEF OwnIs
    <2> QED BY <2>1, <2>2
  <1>3. ASSUME NEW u \in Threads, u # t PROVE own'[New(u)] = own[New(u)]
    <2>1. th'[u] = th[u]
      BY <1>3 DEF Alone
    <2>2. own[New(u)] = th[u].nfd /\ own'[New(u)] = th'[u].nfd
      BY <1>0 DEF OwnIs
    <2> QED BY <2>1, <2>2
  <1>4. ASSUME leaked' = leaked, NEW i \in Nat PROVE own'[Left(i)] = own[Left(i)]
    <2>1. i \in 1..Len(leaked) => objs'[leaked[i].obj].num = objs[leaked[i].obj].num
      BY Referenced DEF Keeps
    <2>2. /\ own[Left(i)] = IF i \in 1..Len(leaked) /\ leaked[i].fd # objs[leaked[i].obj].num THEN leaked[i].fd ELSE -1
          /\ own'[Left(i)] = IF i \in 1..Len(leaked') /\ leaked'[i].fd # objs'[leaked'[i].obj].num THEN leaked'[i].fd ELSE -1
      BY <1>0, SMTT(30), ZenonT(30) DEF OwnIs
    <2> QED BY <1>4, <2>1, <2>2
  <1> QED BY <1>1, <1>2, <1>3, <1>4

\* A lookup of another thread is not disturbed.
LEMMA FollowsStill ==
  ASSUME IInv, Keeps, Accounted(own', host'), NEW u \in Threads, th'[u] = th[u], th[u].pc = "lookup"
  PROVE  Follows(th'[u], objs', host')
  <1>0. OwnIs(own, objs, th, leaked) /\ OwnIs(own', objs', th', leaked') /\ Accounted(own, host)
    BY Owns, Start
  <1>1. Able(th[u]) /\ Follows(th[u], objs, host)
    BY Start
  <1>2. ASSUME NEW i \in 1..Len(th[u].opened) PROVE host'[th[u].opened[i]] = host[th[u].opened[i]]
    <2>0. th[u].opened \in Seq(HostFds)
      BY <1>1 DEF Able
    <2>1. i \in Nat /\ th[u].opened[i] \in HostFds /\ th[u].opened[i] # -1
      BY <2>0, Bounds
    <2>2. own[Walked(u, i)] = th[u].opened[i] /\ own'[Walked(u, i)] = th[u].opened[i] /\ Walked(u, i) \in Who
      BY <1>0, <2>1, Names DEF OwnIs
    <2>3. host[th[u].opened[i]] # None
      BY <1>0, <2>1, <2>2, OwnedOpen
    <2>4. host'[th[u].opened[i]] # None
      BY <1>0, <2>1, <2>2, OwnedOpen
    <2> QED BY <2>1, <2>3, <2>4 DEF Keeps
  <1>3. LET last == th[u].held[Len(th[u].held)] IN objs'[last.obj].num = objs[last.obj].num
    <2>1. Len(th[u].held) \in 0..2 /\ Len(th[u].held) # 0
      BY <1>1, HeldLeases DEF Able
    <2>2. \A n \in 0..2 : n # 0 => n \in 1..n
      OBVIOUS
    <2>3. Len(th[u].held) \in 1..Len(th[u].held)
      BY <2>1, <2>2
    <2> QED BY <2>3, Referenced DEF Keeps
  <1> QED BY <1>1, <1>2, <1>3 DEF Follows

\* What remains to show of a step of one thread.
LEMMA Finish ==
  ASSUME IInv, Keeps, NEW t \in Threads, Alone(t), Shapes', RefsMatch', Accounted(own', host'),
         Able(th'[t]), th'[t].pc = "lookup" => Follows(th'[t], objs', host'),
         \A o \in Objects : objs'[o].ref > 0 =>
           objs[o].ref > 0 \/ (host'[objs'[o].num] = objs'[o].node /\ objs'[o].node # None)
  PROVE  IInv'
  <1>1. ASSUME NEW u \in Threads PROVE Able(th'[u]) /\ (th'[u].pc = "lookup" => Follows(th'[u], objs', host'))
    <2>1. CASE u = t
      BY <2>1
    <2>2. CASE u # t
      <3>1. th'[u] = th[u] /\ Able(th[u])
        BY <2>2, Start DEF Alone
      <3> QED BY <3>1, FollowsStill
    <2> QED BY <2>1, <2>2
  <1>2. Behinds'
    <2> SUFFICES ASSUME NEW o \in Objects, objs'[o].ref > 0
                 PROVE  host'[objs'[o].num] = objs'[o].node /\ objs'[o].node # None
      BY DEF Behinds, Live
    <2>1. CASE objs[o].ref > 0
      <3>1. objs'[o].num = objs[o].num /\ objs'[o].node = objs[o].node
        BY <2>1 DEF Keeps
      <3>2. host[objs[o].num] = objs[o].node /\ objs[o].node # None
        BY <2>1, Start DEF Behinds, Live
      <3>3. objs[o].num \in HostFds /\ objs[o].num # -1
        BY Start, Bounds DEF Shapes, ObjectTable
      <3>4. own'[Obj(o)] = objs'[o].num /\ Obj(o) \in Who
        BY Owns, Names DEF OwnIs
      <3>5. host'[objs'[o].num] # None
        BY <3>1, <3>3, <3>4, OwnedOpen
      <3> QED BY <3>1, <3>2, <3>3, <3>5 DEF Keeps
    <2> QED BY <2>1
  <1> QED BY <1>1, <1>2 DEF IInv, Running

SameObjs ==
  \A o \in Objects : /\ objs'[o].num = objs[o].num /\ objs'[o].node = objs[o].node
                     /\ objs'[o].ref > 0 <=> objs[o].ref > 0

\* Every lease of k that is not one of h is on the descriptor of its object.
Adds(h, k) ==
  \A i \in 1..2 : \/ i <= Len(h) /\ i <= Len(k) /\ k[i] = h[i]
                  \/ ~(i <= Len(h)) /\ (i <= Len(k) => k[i].obj \in Objects /\ k[i].fd = objs[k[i].obj].num)

\* Nothing changes hands when a thread only takes leases on the descriptors of objects.
LEMMA Still ==
  ASSUME IInv, SameObjs, NEW t \in Threads, Alone(t), host' = host, leaked' = leaked,
         th'[t].opened = th[t].opened, th'[t].nfd = th[t].nfd,
         Adds(th[t].held, th'[t].held)
  PROVE  Keeps /\ Accounted(own', host')
  <1>0. OwnIs(own, objs, th, leaked) /\ OwnIs(own', objs', th', leaked')
    BY Owns
  <1>1. Keeps
    BY DEF Keeps, SameObjs
  <1>2. ASSUME NEW o \in Objects PROVE own'[Obj(o)] = own[Obj(o)]
    <2>1. /\ own[Obj(o)] = IF objs[o].ref > 0 THEN objs[o].num ELSE -1
          /\ own'[Obj(o)] = IF objs'[o].ref > 0 THEN objs'[o].num ELSE -1
      BY <1>0 DEF OwnIs
    <2>2. (objs'[o].ref > 0 <=> objs[o].ref > 0) /\ objs'[o].num = objs[o].num
      BY DEF SameObjs
    <2> QED BY <2>1, <2>2, SMTT(30), ZenonT(30)
  <1>3. ASSUME NEW i \in 1..2 PROVE own'[Hold(t, i)] = own[Hold(t, i)]
    <2>1. /\ own[Hold(t, i)] = IF i <= Len(th[t].held) /\ th[t].held[i].fd # objs[th[t].held[i].obj].num
                               THEN th[t].held[i].fd ELSE -1
          /\ own'[Hold(t, i)] = IF i <= Len(th'[t].held) /\ th'[t].held[i].fd # objs'[th'[t].held[i].obj].num
                                THEN th'[t].held[i].fd ELSE -1
      BY <1>0 DEF OwnIs
    <2>2. CASE i <= Len(th[t].held) /\ i <= Len(th'[t].held) /\ th'[t].held[i] = th[t].held[i]
      <3>1. Len(th[t].held) \in 0..2
        BY Start, HeldLeases
      <3>2. \A n \in 0..2 : i <= n => i \in 1..n
        OBVIOUS
      <3>3. i \in 1..Len(th[t].held)
        BY <3>1, <3>2, <2>2
      <3>4. th[t].held[i].obj \in Objects
        BY <3>3, Referenced
      <3> QED BY <3>4, <2>1, <2>2 DEF SameObjs
    <2>3. CASE /\ ~(i <= Len(th[t].held))
               /\ i <= Len(th'[t].held) => /\ th'[t].held[i].obj \in Objects
                                          /\ th'[t].held[i].fd = objs[th'[t].held[i].obj].num
      BY <2>1, <2>3 DEF SameObjs
    <2> QED BY <2>2, <2>3, SMTT(30), ZenonT(30) DEF Adds
  <1>4. ASSUME NEW i \in Nat PROVE own'[Walked(t, i)] = own[Walked(t, i)]
    <2>1. /\ own[Walked(t, i)] = IF i \in 1..Len(th[t].opened) THEN th[t].opened[i] ELSE -1
          /\ own'[Walked(t, i)] = IF i \in 1..Len(th'[t].opened) THEN th'[t].opened[i] ELSE -1
      BY <1>0, SMTT(30), ZenonT(30) DEF OwnIs
    <2> QED BY <2>1, SMTT(30), ZenonT(30)
  <1>5. own'[New(t)] = own[New(t)]
    BY <1>0 DEF OwnIs
  <1>6. /\ \A u \in Threads, i \in 1..2 : own'[Hold(u, i)] = own[Hold(u, i)]
        /\ \A u \in Threads, i \in Nat : own'[Walked(u, i)] = own[Walked(u, i)]
        /\ \A u \in Threads : own'[New(u)] = own[New(u)]
        /\ \A i \in Nat : own'[Left(i)] = own[Left(i)]
    BY <1>1, <1>3, <1>4, <1>5, Elsewhere, SMTT(30), ZenonT(30)
  <1>7. own = [w \in Who |-> own[w]] /\ own' = [w \in Who |-> own'[w]]
    BY <1>0 DEF OwnIs
  <1>8. own' = own
    <2>1. Agree(own', own)
      BY <1>2, <1>6, <1>7 DEF Agree
    <2> QED BY <2>1, SameOwners, Zenon
  <1> QED BY <1>1, <1>8, Start

-----------------------------------------------------------------------------
(* Taking leases.                                                          *)

\* How the leases of a thread are counted.
LEMMA UsesOf ==
  /\ \A o : Uses(<<>>, o) = 0
  /\ \A a, o : Uses(<<a>>, o) = Is(a.obj, o)
  /\ \A a, b, o : Uses(<<a, b>>, o) = Is(a.obj, o) + Is(b.obj, o)
  /\ \A a, b : Is(a, b) \in 0..1
  <1>1. \A o : Uses(<<>>, o) = 0
    BY DEF Uses, One, Is
  <1>2. \A a, o : Uses(<<a>>, o) = Is(a.obj, o)
    BY DEF Uses, One, Is
  <1>3. \A a, b, o : Uses(<<a, b>>, o) = Is(a.obj, o) + Is(b.obj, o)
    BY DEF Uses, One, Is
  <1> QED BY <1>1, <1>2, <1>3 DEF Is

\* refcount_acquire
Acquired(O, x) == [O EXCEPT ![x].ref = @ + 1]

\* It changes the count of one object.
LEMMA Acquire ==
  ASSUME NEW O, ObjectTable(O), NEW x \in Objects
  PROVE  /\ ObjectTable(Acquired(O, x))
         /\ \A o \in Objects : /\ Acquired(O, x)[o].num = O[o].num /\ Acquired(O, x)[o].node = O[o].node
                              /\ Acquired(O, x)[o].ref = O[o].ref + Is(x, o)
  <1>0. PICK P : P = Acquired(O, x) /\ P = [O EXCEPT ![x].ref = @ + 1]
    BY DEF Acquired
  <1>1. P[x] = [O[x] EXCEPT !.ref = @ + 1] /\ \A o \in Objects : o # x => P[o] = O[o]
    BY <1>0 DEF ObjectTable
  <1>2. DOMAIN P = Objects
    BY <1>0 DEF ObjectTable
  <1>3. /\ {"ref", "num", "node", "dirh"} \subseteq DOMAIN P[x]
        /\ P[x].ref = O[x].ref + 1 /\ P[x].num = O[x].num /\ P[x].node = O[x].node
    BY <1>1 DEF ObjectTable
  <1>4. \A o \in Objects : P[o].num = O[o].num /\ P[o].node = O[o].node /\ P[o].ref = O[o].ref + Is(x, o)
    BY <1>1, <1>3 DEF Is, ObjectTable
  <1>5. ObjectTable(P)
    BY <1>1, <1>2, <1>3 DEF ObjectTable
  <1> QED BY <1>0, <1>4, <1>5

\* An object in use stays in use.
LEMMA AcquireSame ==
  ASSUME Shapes, NEW x \in Objects, objs[x].ref > 0,
         \A o \in Objects : objs'[o].num = objs[o].num /\ objs'[o].node = objs[o].node /\ objs'[o].ref = objs[o].ref + Is(x, o)
  PROVE  SameObjs
  <1>1. ASSUME NEW o \in Objects PROVE objs'[o].ref > 0 <=> objs[o].ref > 0
    <2>1. objs[o].ref \in Nat /\ objs'[o].ref = objs[o].ref + Is(x, o)
      BY DEF Shapes, ObjectTable
    <2>2. Is(x, o) = IF x = o THEN 1 ELSE 0
      BY DEF Is
    <2> QED BY <2>1, <2>2
  <1> QED BY <1>1 DEF SameObjs

\* What a thread that does nothing has at hand.
LEMMA IdleAble ==
  /\ Able(Idle) /\ Idle.pc = "idle" /\ Idle.held = <<>> /\ Idle.opened = <<>> /\ Idle.nfd = -1
  /\ IsLookup(Idle.l)
  <1>1. /\ Idle.pc = "idle" /\ Idle.held = <<>> /\ Idle.opened = <<>> /\ Idle.nfd = -1 /\ Idle.l = NoLookup
        /\ {"pc", "held", "l", "opened", "nfd"} \subseteq DOMAIN Idle
    BY DEF Idle
  <1>2. IsLookup(NoLookup)
    <2>1. NoLookup.fds = <<"root">> /\ LookupRecord(NoLookup)
      BY DEF NoLookup, StartLookup, LookupRecord
    <2>2. <<"root">> \in Seq({"root"}) /\ <<"root">> # <<>>
      OBVIOUS
    <2> QED BY <2>1, <2>2 DEF IsLookup
  <1>3. <<>> \in Seq(Leased) /\ <<>> \in Seq(HostFds) /\ Len(<<>>) = 0
    OBVIOUS
  <1> QED BY <1>1, <1>2, <1>3 DEF Able

\* A thread that begins an operation.
Begun(pc, h) == [Idle EXCEPT !.pc = pc, !.held = h]

\* It has its leases, and nothing else.
LEMMA BeginAble ==
  ASSUME NEW pc \in {"use", "lock"}, NEW h \in Seq(Leased), Len(h) \in 1..2
  PROVE  LET r == Begun(pc, h)
         IN Able(r) /\ r.pc = pc /\ r.held = h /\ r.opened = <<>> /\ r.nfd = -1
  <1> DEFINE r == Begun(pc, h)
  <1>1. /\ r.pc = pc /\ r.held = h /\ r.opened = Idle.opened /\ r.nfd = Idle.nfd /\ r.l = Idle.l
        /\ DOMAIN r = DOMAIN Idle
    BY DEF Idle, Begun
  <1> HIDE DEF r
  <1>2. h # <<>> /\ Len(h) <= 2
    <2>1. \A n \in 1..2 : n # 0 /\ n <= 2
      OBVIOUS
    <2>2. Len(h) # 0 /\ Len(h) <= 2
      BY ONLY <2>1, Len(h) \in 1..2
    <2> QED BY <2>2, Short
  <1>3. {"pc", "held", "l", "opened", "nfd"} \subseteq DOMAIN r
    BY <1>1, IdleAble DEF Able
  <1>4. <<>> \in Seq(HostFds) /\ r.opened = <<>> /\ r.nfd = -1 /\ IsLookup(r.l)
    BY <1>1, IdleAble
  <1>5. r.pc = pc /\ r.held = h
    BY <1>1
  <1>6. Able(r)
    <2>1. r.pc \in {"use", "lock"}
      BY <1>5
    <2>2. r.held \in Seq(Leased) /\ Len(r.held) <= 2 /\ r.held # <<>>
      BY <1>2, <1>5
    <2>3. r.opened \in Seq(HostFds) /\ r.nfd \in HostFds \cup {-1}
      BY <1>4
    <2> QED BY <2>1, <2>2, <2>3, <1>3, <1>4 DEF Able
  <1> QED BY <1>4, <1>5, <1>6 DEF r

\* A lease on the descriptor of an object.
LEMMA LeaseIs ==
  ASSUME Shapes, NEW o \in Objects
  PROVE  Lease(o) \in Leased /\ Lease(o).obj = o /\ Lease(o).fd = objs[o].num
  BY DEF Lease, Leased, Shapes, ObjectTable

SameEntries == \A o \in Objects : EntriesOf(entries', o) = EntriesOf(entries, o)

Charged(t) == \A o \in Objects : objs'[o].ref + Uses(th[t].held, o) = objs[o].ref + Uses(th'[t].held, o)

\* A thread only takes leases.
LEMMA Borrow ==
  ASSUME IInv, NEW t \in Threads, Alone(t), SameObjs, host' = host, leaked' = leaked, SameEntries,
         Shapes', Able(th'[t]), th'[t].pc = "lookup" => Follows(th'[t], objs', host'),
         th'[t].opened = th[t].opened, th'[t].nfd = th[t].nfd, Adds(th[t].held, th'[t].held), Charged(t)
  PROVE  IInv'
  <1>1. Keeps /\ Accounted(own', host')
    BY Still
  <1>2. RefsMatch'
    <2>1. \A u \in Threads : u # t => th'[u].held = th[u].held
      BY DEF Alone
    <2>2. ASSUME NEW o \in Objects
          PROVE  /\ Cardinality(EntriesOf(entries', o)) \in Nat /\ Cardinality(LeakedOf(leaked', o)) \in Nat
                 /\ objs'[o].ref \in Nat
                 /\ objs'[o].ref + Cardinality(EntriesOf(entries, o)) + Cardinality(LeakedOf(leaked, o)) + Uses(th[t].held, o)
                    = objs[o].ref + Cardinality(EntriesOf(entries', o)) + Cardinality(LeakedOf(leaked', o)) + Uses(th'[t].held, o)
      <3>1. /\ Cardinality(EntriesOf(entries, o)) \in Nat /\ Cardinality(LeakedOf(leaked, o)) \in Nat
            /\ EntriesOf(entries', o) = EntriesOf(entries, o) /\ LeakedOf(leaked', o) = LeakedOf(leaked, o)
        BY Countable DEF SameEntries
      <3>2. objs'[o].ref \in Nat /\ objs[o].ref \in Nat
        BY Start DEF Shapes, ObjectTable
      <3>3. objs'[o].ref + Uses(th[t].held, o) = objs[o].ref + Uses(th'[t].held, o)
        BY DEF Charged
      <3>4. Uses(th[t].held, o) \in 0..2 /\ Uses(th'[t].held, o) \in 0..2
        BY DEF Uses, One
      <3> QED BY ONLY <3>1, <3>2, <3>3, <3>4
    <2> QED BY <2>1, <2>2, Rebalance
  <1>3. \A o \in Objects : objs'[o].ref > 0 => objs[o].ref > 0
    BY DEF SameObjs
  <1> QED BY <1>1, <1>2, <1>3, Finish

OwnLease(a) == a.obj \in Objects /\ a.fd = objs[a.obj].num /\ objs[a.obj].ref > 0

\* The counts follow entries that change and leases h that are new.
Balanced(h) ==
  \A o \in Objects : /\ Cardinality(EntriesOf(entries', o)) \in Nat
                     /\ objs'[o].ref + Cardinality(EntriesOf(entries, o))
                        = objs[o].ref + Cardinality(EntriesOf(entries', o)) + Uses(h, o)

\* A thread begins an operation with the leases h.
LEMMA BeginWith ==
  ASSUME IInv, NEW t \in Threads, th[t].pc = "idle", NEW pc \in {"use", "lock"},
         NEW h \in Seq(Leased), Len(h) \in 1..2, \A i \in 1..Len(h) : OwnLease(h[i]),
         th' = [th EXCEPT ![t] = Begun(pc, h)], host' = host, leaked' = leaked,
         SameObjs, EntryTable(entries'), ObjectTable(objs'), Balanced(h)
  PROVE  IInv'
  <1>0. Shapes /\ Able(th[t]) /\ th[t].held = <<>> /\ th[t].opened = <<>> /\ th[t].nfd = -1
    BY Start DEF Able
  <1>1. PICK r : r = Begun(pc, h)
    OBVIOUS
  <1>2. Able(r) /\ r.pc = pc /\ r.held = h /\ r.opened = <<>> /\ r.nfd = -1
    BY ONLY pc \in {"use", "lock"}, h \in Seq(Leased), Len(h) \in 1..2, <1>1, BeginAble
  <1>3. th'[t] = r /\ Alone(t)
    BY <1>0, <1>1 DEF Shapes, Alone
  <1>4. Shapes'
    BY <1>0, <1>3 DEF Shapes, Alone
  <1>5. Adds(th[t].held, th'[t].held)
    <2>1. \A i \in 1..2 : ~(i <= Len(<<>>)) /\ \A n \in 1..2 : i <= n => i \in 1..n
      OBVIOUS
    <2>2. \A i \in 1..2 : i <= Len(h) => h[i].obj \in Objects /\ h[i].fd = objs[h[i].obj].num
      BY <2>1 DEF OwnLease
    <2> QED BY <1>0, <1>2, <1>3, <2>1, <2>2 DEF Adds
  <1>6. Keeps /\ Accounted(own', host')
    BY <1>0, <1>2, <1>3, <1>5, Still
  <1>7. RefsMatch'
    <2>1. \A u \in Threads : u # t => th'[u].held = th[u].held
      BY <1>3 DEF Alone
    <2>2. ASSUME NEW o \in Objects
          PROVE  /\ Cardinality(EntriesOf(entries', o)) \in Nat /\ Cardinality(LeakedOf(leaked', o)) \in Nat
                 /\ objs'[o].ref \in Nat
                 /\ objs'[o].ref + Cardinality(EntriesOf(entries, o)) + Cardinality(LeakedOf(leaked, o)) + Uses(th[t].held, o)
                    = objs[o].ref + Cardinality(EntriesOf(entries', o)) + Cardinality(LeakedOf(leaked', o)) + Uses(th'[t].held, o)
      <3>1. /\ Cardinality(EntriesOf(entries, o)) \in Nat /\ Cardinality(LeakedOf(leaked, o)) \in Nat
            /\ Cardinality(LeakedOf(leaked', o)) = Cardinality(LeakedOf(leaked, o))
        BY Countable
      <3>2. objs'[o].ref \in Nat /\ objs[o].ref \in Nat
        BY <1>0 DEF Shapes, ObjectTable
      <3>3. /\ Cardinality(EntriesOf(entries', o)) \in Nat
            /\ objs'[o].ref + Cardinality(EntriesOf(entries, o))
               = objs[o].ref + Cardinality(EntriesOf(entries', o)) + Uses(h, o)
        BY DEF Balanced
      <3>4. Uses(th[t].held, o) = 0 /\ Uses(th'[t].held, o) = Uses(h, o) /\ Uses(h, o) \in 0..2
        <4>1. Uses(<<>>, o) = 0 /\ Uses(h, o) \in 0..2
          BY DEF Uses, One
        <4> QED BY <4>1, <1>0, <1>2, <1>3
      <3> DEFINE e == Cardinality(EntriesOf(entries, o))
                 f == Cardinality(EntriesOf(entries', o))
                 k == Cardinality(LeakedOf(leaked, o))
                 u == Uses(h, o)
                 a == objs[o].ref
                 b == objs'[o].ref
      <3>5. /\ e \in Nat /\ f \in Nat /\ k \in Nat /\ u \in Nat /\ a \in Nat /\ b \in Nat
            /\ b + e = a + f + u
        BY ONLY <3>1, <3>2, <3>3, <3>4
      <3> HIDE DEF e, f, k, u, a, b
      <3>6. b + e + k + 0 = a + f + k + u
        BY ONLY <3>5
      <3> QED BY <3>1, <3>2, <3>3, <3>4, <3>6 DEF e, f, k, u, a, b
    <2> QED BY <2>1, <2>2, <1>2, <1>3, Rebalance
  <1>8. \A o \in Objects : objs'[o].ref > 0 => objs[o].ref > 0
    BY DEF SameObjs
  <1>9. th'[t].pc # "lookup"
    BY <1>2, <1>3
  <1> QED BY <1>2, <1>3, <1>4, <1>6, <1>7, <1>8, <1>9, Finish

\* fd_object_get
LEMMA fd_object_getKeeps ==
  ASSUME IInv, NEW t \in Threads, th[t].pc = "idle", NEW fd, NEW right, NEW pc \in {"use", "lock"},
         fd_object_get(t, fd, right, pc)
  PROVE  IInv'
  <1>0. Shapes
    BY Start
  <1>1. PICK x \in Objects : x = entries[fd].obj /\ fd \in DOMAIN entries /\ objs[x].ref > 0
    BY Referenced DEF fd_object_get, Granted
  <1>2. PICK h : h = <<Lease(x)>>
    OBVIOUS
  <1>3. /\ objs' = Acquired(objs, x) /\ th' = [th EXCEPT ![t] = Begun(pc, h)]
        /\ entries' = entries /\ host' = host /\ leaked' = leaked
    BY <1>1, <1>2 DEF fd_object_get, Begin, table, Same, Acquired, Begun
  <1>4. Lease(x) \in Leased /\ Lease(x).obj = x /\ Lease(x).fd = objs[x].num
    BY <1>0, LeaseIs
  <1>5. h \in Seq(Leased) /\ Len(h) = 1 /\ Len(h) \in 1..2 /\ h[1] = Lease(x)
    BY <1>2, <1>4
  <1>6. \A i \in 1..Len(h) : OwnLease(h[i])
    BY <1>1, <1>4, <1>5 DEF OwnLease
  <1>7. /\ ObjectTable(objs')
        /\ \A o \in Objects : objs'[o].num = objs[o].num /\ objs'[o].node = objs[o].node /\ objs'[o].ref = objs[o].ref + Is(x, o)
    BY <1>0, <1>3, Acquire DEF Shapes
  <1>8. SameObjs
    BY <1>0, <1>1, <1>7, AcquireSame
  <1>9. Balanced(h)
    <2>1. ASSUME NEW o \in Objects
          PROVE  /\ Cardinality(EntriesOf(entries', o)) \in Nat
                 /\ objs'[o].ref + Cardinality(EntriesOf(entries, o))
                    = objs[o].ref + Cardinality(EntriesOf(entries', o)) + Uses(h, o)
      <3>1. Cardinality(EntriesOf(entries, o)) \in Nat /\ entries' = entries /\ objs[o].ref \in Nat
        BY <1>0, <1>3, Countable DEF Shapes, ObjectTable
      <3>2. objs'[o].ref = objs[o].ref + Is(x, o)
        BY <1>7
      <3>3. Uses(h, o) = Is(x, o) /\ Is(x, o) \in 0..1
        BY <1>2, <1>4, UsesOf
      <3> QED BY ONLY <3>1, <3>2, <3>3
    <2> QED BY <2>1 DEF Balanced
  <1>10. EntryTable(entries')
    BY <1>0, <1>3 DEF Shapes
  <1> QED BY <1>3, <1>5, <1>6, <1>7, <1>8, <1>9, <1>10, BeginWith

\* fd_close
LEMMA fd_closeKeeps ==
  ASSUME IInv, NEW t \in Threads, th[t].pc = "idle", NEW fd, fd_close(t, fd)
  PROVE  IInv'
  <1>0. Shapes
    BY Start
  <1>1. PICK x \in Objects : x = entries[fd].obj /\ fd \in DOMAIN entries /\ objs[x].ref > 0
    BY Referenced DEF fd_close, Granted
  <1>2. PICK h : h = <<Lease(x)>>
    OBVIOUS
  <1>3. /\ objs' = objs /\ th' = [th EXCEPT ![t] = Begun("use", h)]
        /\ entries' = Detached(entries, fd) /\ host' = host /\ leaked' = leaked
    BY <1>1, <1>2 DEF fd_close, Begin, Same, Begun
  <1>4. Lease(x) \in Leased /\ Lease(x).obj = x /\ Lease(x).fd = objs[x].num
    BY <1>0, LeaseIs
  <1>5. h \in Seq(Leased) /\ Len(h) = 1 /\ Len(h) \in 1..2 /\ h[1] = Lease(x)
    BY <1>2, <1>4
  <1>6. \A i \in 1..Len(h) : OwnLease(h[i])
    BY <1>1, <1>4, <1>5 DEF OwnLease
  <1>7. ObjectTable(objs') /\ SameObjs
    BY <1>0, <1>3 DEF Shapes, SameObjs
  <1>8. /\ IsFiniteSet(DOMAIN entries) /\ IsFiniteSet(DOMAIN entries') /\ DOMAIN entries' = DOMAIN entries \ {fd}
        /\ \A s \in DOMAIN entries \ {fd} : entries'[s] = entries[s]
    <2>1. IsFiniteSet(DOMAIN entries)
      BY <1>0 DEF Shapes, EntryTable
    <2> QED BY <2>1, <1>1, <1>3, EntryGoes
  <1>9. Balanced(h)
    <2>1. ASSUME NEW o \in Objects
          PROVE  /\ Cardinality(EntriesOf(entries', o)) \in Nat
                 /\ objs'[o].ref + Cardinality(EntriesOf(entries, o))
                    = objs[o].ref + Cardinality(EntriesOf(entries', o)) + Uses(h, o)
      <3>1. /\ Cardinality(EntriesOf(entries, o)) = Cardinality(EntriesOf(entries', o)) + Is(x, o)
            /\ Cardinality(EntriesOf(entries', o)) \in Nat
        <4>1. /\ Cardinality(EntriesOf(entries, o)) = Cardinality(EntriesOf(Detached(entries, fd), o)) + Is(entries[fd].obj, o)
              /\ Cardinality(EntriesOf(Detached(entries, fd), o)) \in Nat
          <5>1. Costs(entries, fd, o)
            BY <1>1, <1>8, EntryGoes
          <5> QED BY <5>1 DEF Costs
        <4>2. entries[fd].obj = x /\ entries' = Detached(entries, fd)
          BY <1>1, <1>3
        <4> QED BY <4>1, <4>2
      <3>2. objs'[o].ref = objs[o].ref /\ objs[o].ref \in Nat
        BY <1>0, <1>3 DEF Shapes, ObjectTable
      <3>3. Uses(h, o) = Is(x, o) /\ Is(x, o) \in 0..1
        BY <1>2, <1>4, UsesOf
      <3> QED BY ONLY <3>1, <3>2, <3>3
    <2> QED BY <2>1 DEF Balanced
  <1>10. EntryTable(entries')
    BY <1>0, <1>8 DEF Shapes, EntryTable
  <1> QED BY <1>3, <1>5, <1>6, <1>7, <1>9, <1>10, BeginWith

\* The leases of a list of at most two are counted the same way.
LEMMA CountHeld ==
  ASSUME NEW h \in Seq(Leased), Len(h) <= 2, NEW o
  PROVE  Cardinality(LeakedOf(h, o)) = Uses(h, o) /\ Uses(h, o) \in 0..2
  <1>1. PICK k : k = <<>>
    OBVIOUS
  <1>2. k \in Seq(Leased) /\ k \o h = h /\ DOMAIN k = {}
    BY <1>1
  <1>3. LeakedOf(k, o) = {}
    BY <1>2 DEF LeakedOf
  <1>4. Cardinality(LeakedOf(k, o)) = 0
    BY <1>3, FS_EmptySet
  <1>5. Cardinality(LeakedOf(k \o h, o)) = Cardinality(LeakedOf(k, o)) + Uses(h, o)
    BY <1>2, LeasesLeft
  <1>6. Uses(h, o) \in 0..2
    BY DEF Uses, One
  <1> QED BY <1>2, <1>4, <1>5, <1>6

\* A subscription is refused or holds the object.
LEMMA SubscribedIs ==
  ASSUME IInv, NEW fd
  PROVE  \/ Subscribed(fd) = <<>>
         \/ \E a : a \in Leased /\ OwnLease(a) /\ Subscribed(fd) = <<a>>
  <1>1. CASE Granted(fd, {"POLL_FD_READWRITE"}, {})
    <2>1. fd \in DOMAIN entries
      BY <1>1 DEF Granted
    <2>2. entries[fd].obj \in Objects /\ objs[entries[fd].obj].ref > 0 /\ Shapes
      BY <2>1, Referenced, Start
    <2>3. Lease(entries[fd].obj) \in Leased /\ OwnLease(Lease(entries[fd].obj))
      BY <2>2, LeaseIs DEF OwnLease
    <2> QED BY <1>1, <2>3 DEF Subscribed
  <1>2. CASE ~Granted(fd, {"POLL_FD_READWRITE"}, {})
    BY <1>2 DEF Subscribed
  <1> QED BY <1>1, <1>2

\* poll_oneoff
LEMMA poll_oneoffKeeps ==
  ASSUME IInv, NEW t \in Threads, th[t].pc = "idle", NEW fd, NEW fd2, poll_oneoff(t, fd, fd2)
  PROVE  IInv'
  <1>0. Shapes
    BY Start
  <1>1. PICK h : h = Subscribed(fd) \o Subscribed(fd2)
    OBVIOUS
  <1> DEFINE refs(o) == Cardinality({i \in DOMAIN h : h[i].obj = o})
  <1>2. /\ h # <<>> /\ objs' = [o \in Objects |-> [objs[o] EXCEPT !.ref = @ + refs(o)]]
        /\ th' = [th EXCEPT ![t] = Begun("use", h)] /\ entries' = entries /\ host' = host /\ leaked' = leaked
    BY <1>1 DEF poll_oneoff, Begin, table, Same, Begun
  <1>3. h \in Seq(Leased) /\ Len(h) \in 1..2 /\ \A i \in 1..Len(h) : OwnLease(h[i])
    <2>1. PICK a, b : a = Subscribed(fd) /\ b = Subscribed(fd2)
      OBVIOUS
    <2>2. h = a \o b
      BY <1>1, <2>1
    <2>3. CASE a = <<>> /\ b = <<>>
      BY <1>2, <2>2, <2>3
    <2>4. CASE a = <<>> /\ b # <<>>
      <3>1. PICK c \in Leased : OwnLease(c) /\ b = <<c>>
        BY <2>1, <2>4, SubscribedIs
      <3>2. h = <<c>>
        BY <2>2, <2>4, <3>1
      <3>3. h \in Seq(Leased) /\ Len(h) = 1 /\ h[1] = c
        BY ONLY <3>2, c \in Leased
      <3> QED BY <3>1, <3>3
    <2>5. CASE a # <<>> /\ b = <<>>
      <3>1. PICK c \in Leased : OwnLease(c) /\ a = <<c>>
        BY <2>1, <2>5, SubscribedIs
      <3>2. h = <<c>>
        BY <2>2, <2>5, <3>1
      <3>3. h \in Seq(Leased) /\ Len(h) = 1 /\ h[1] = c
        BY ONLY <3>2, c \in Leased
      <3> QED BY <3>1, <3>3
    <2>6. CASE a # <<>> /\ b # <<>>
      <3>1. PICK c \in Leased : OwnLease(c) /\ a = <<c>>
        BY <2>1, <2>6, SubscribedIs
      <3>2. PICK d \in Leased : OwnLease(d) /\ b = <<d>>
        BY <2>1, <2>6, SubscribedIs
      <3>3. a \in Seq(Leased) /\ b \in Seq(Leased) /\ Len(a) = 1 /\ Len(b) = 1 /\ a[1] = c /\ b[1] = d
        BY ONLY <3>1, <3>2, c \in Leased, d \in Leased
      <3>4. h \in Seq(Leased) /\ Len(h) = 2 /\ h[1] = c /\ h[2] = d
        <4>1. /\ a \o b \in Seq(Leased) /\ Len(a \o b) = Len(a) + Len(b)
              /\ \A i \in 1..Len(a) + Len(b) : (a \o b)[i] = IF i <= Len(a) THEN a[i] ELSE b[i - Len(a)]
          BY ONLY <3>3, ConcatProperties
        <4>2. 1 \in 1..1 + 1 /\ 2 \in 1..1 + 1 /\ 1 <= 1 /\ ~(2 <= 1) /\ 2 - 1 = 1 /\ 1 + 1 = 2
          OBVIOUS
        <4> QED BY ONLY <2>2, <3>3, <4>1, <4>2
      <3> QED BY <3>1, <3>2, <3>4
    <2> QED BY <2>3, <2>4, <2>5, <2>6
  <1>4. Len(h) <= 2
    BY <1>3
  <1>5. \A o \in Objects : refs(o) = Uses(h, o) /\ Uses(h, o) \in 0..2
    BY <1>3, <1>4, CountHeld DEF LeakedOf
  <1> HIDE DEF refs
  <1>6. ASSUME NEW o \in Objects
        PROVE  /\ {"ref", "num", "node", "dirh"} \subseteq DOMAIN objs'[o] /\ objs[o].ref \in Nat
               /\ objs'[o].num = objs[o].num /\ objs'[o].node = objs[o].node /\ objs'[o].ref = objs[o].ref + Uses(h, o)
    <2>1. objs'[o] = [objs[o] EXCEPT !.ref = @ + Uses(h, o)]
      BY <1>2, <1>5
    <2> QED BY <2>1, <1>0 DEF Shapes, ObjectTable
  <1>7. ObjectTable(objs')
    <2>1. DOMAIN objs' = Objects
      BY <1>2
    <2>2. \A o \in Objects : objs'[o].ref \in Nat /\ objs'[o].num \in HostFds
      BY <1>0, <1>5, <1>6 DEF Shapes, ObjectTable
    <2> QED BY <2>1, <2>2, <1>6 DEF ObjectTable
  <1>8. SameObjs
    <2>1. ASSUME NEW o \in Objects PROVE objs'[o].ref > 0 <=> objs[o].ref > 0
      <3>1. CASE \E i \in 1..Len(h) : h[i].obj = o
        <4>1. objs[o].ref > 0
          BY <3>1, <1>3 DEF OwnLease
        <4> QED BY <4>1, <1>5, <1>6
      <3>2. CASE ~\E i \in 1..Len(h) : h[i].obj = o
        <4>1. \A n \in 1..2 : 1 \in 1..n /\ (n >= 2 => 2 \in 1..n)
          OBVIOUS
        <4>2. ~(Len(h) >= 1 /\ h[1].obj = o) /\ ~(Len(h) >= 2 /\ h[2].obj = o)
          BY <3>2, <4>1, <1>3
        <4>3. Uses(h, o) = 0
          BY <4>2 DEF Uses, One
        <4> QED BY <4>3, <1>6
      <3> QED BY <3>1, <3>2
    <2> QED BY <2>1, <1>6 DEF SameObjs
  <1>9. Balanced(h)
    <2>1. ASSUME NEW o \in Objects
          PROVE  /\ Cardinality(EntriesOf(entries', o)) \in Nat
                 /\ objs'[o].ref + Cardinality(EntriesOf(entries, o))
                    = objs[o].ref + Cardinality(EntriesOf(entries', o)) + Uses(h, o)
      <3> DEFINE e == Cardinality(EntriesOf(entries, o))
                 u == Uses(h, o)
                 a == objs[o].ref
                 b == objs'[o].ref
      <3>1. e \in Nat /\ u \in Nat /\ a \in Nat /\ b = a + u
        BY <1>5, <1>6, Countable
      <3>2. e = Cardinality(EntriesOf(entries', o))
        BY <1>2
      <3> HIDE DEF e, u, a, b
      <3>3. b + e = a + e + u
        BY ONLY <3>1
      <3> QED BY <3>1, <3>2, <3>3 DEF e, u, a, b
    <2> QED BY <2>1 DEF Balanced
  <1>10. EntryTable(entries')
    BY <1>0, <1>2 DEF Shapes
  <1> QED BY <1>2, <1>3, <1>7, <1>8, <1>9, <1>10, BeginWith

-----------------------------------------------------------------------------
(* Steps that neither take nor give back.                                  *)

\* A thread that goes on with its leases.
LEMMA AbleOn ==
  ASSUME NEW r, Able(r), r.held # <<>>, NEW q, {"pc", "held", "l", "opened", "nfd"} \subseteq DOMAIN q,
         q.held = r.held, q.opened = <<>>, q.nfd = r.nfd, IsLookup(q.l),
         q.pc = "use" \/ (q.pc \in {"read", "found", "lost"} /\ q.nfd = -1)
  PROVE  Able(q)
  <1>1. q.held \in Seq(Leased) /\ Len(q.held) <= 2 /\ q.held # <<>> /\ q.nfd \in HostFds \cup {-1}
    BY DEF Able
  <1>2. q.opened \in Seq(HostFds)
    OBVIOUS
  <1> QED BY <1>1, <1>2 DEF Able

\* A thread changes nothing but what it is about to do.
LEMMA Quiet ==
  ASSUME IInv, NEW t \in Threads, Alone(t), Able(th'[t]), th'[t].pc # "lookup",
         th'[t].held = th[t].held, th'[t].opened = th[t].opened, th'[t].nfd = th[t].nfd,
         SameObjs, \A o \in Objects : objs'[o].ref = objs[o].ref,
         ObjectTable(objs'), EntryTable(entries'), SameEntries, host' = host, leaked' = leaked
  PROVE  IInv'
  <1>1. Shapes'
    BY Start DEF Shapes, Alone
  <1>2. Charged(t)
    BY DEF Charged
  <1>3. Adds(th[t].held, th'[t].held)
    <2>1. PICK h : h = th[t].held
      OBVIOUS
    <2>2. Len(h) \in 0..2
      BY <2>1, Start, HeldLeases
    <2>3. \A i \in 1..2 : i <= Len(h) => h[i].obj \in Objects
      <3>1. \A n \in 0..2, i \in 1..2 : i <= n => i \in 1..n
        OBVIOUS
      <3> QED BY <2>1, <2>2, <3>1, Referenced
    <2>4. Adds(h, h)
      BY <2>3 DEF Adds
    <2> QED BY <2>1, <2>4
  <1> QED BY <1>1, <1>2, <1>3, Borrow

\* The same with what the steps of an operation leave alone.
LEMMA QuietHere ==
  ASSUME IInv, NEW t \in Threads, NEW q, th' = [th EXCEPT ![t] = q], Able(q), q.pc # "lookup",
         q.held = th[t].held, q.opened = th[t].opened, q.nfd = th[t].nfd,
         objs' = objs, entries' = entries, host' = host, leaked' = leaked
  PROVE  IInv'
  <1>1. Shapes
    BY Start
  <1>2. th'[t] = q /\ Alone(t)
    BY <1>1 DEF Shapes, Alone
  <1>3. SameObjs /\ SameEntries /\ ObjectTable(objs') /\ EntryTable(entries')
    BY <1>1, SMTT(30), ZenonT(30) DEF SameObjs, SameEntries, Shapes
  <1> QED BY <1>2, <1>3, Quiet

\* ReaddirLock
LEMMA ReaddirLockKeeps ==
  ASSUME IInv, NEW t \in Threads, ReaddirLock(t)
  PROVE  IInv'
  <1>0. Shapes /\ Able(th[t]) /\ th[t].pc = "lock"
    BY Start DEF ReaddirLock
  <1>1. th[t].held # <<>> /\ th[t].opened = <<>> /\ th[t].nfd = -1 /\ IsLookup(th[t].l)
        /\ {"pc", "held", "l", "opened", "nfd"} \subseteq DOMAIN th[t]
    BY <1>0 DEF Able
  <1>2. ASSUME NEW p \in {"use", "read"}, NEW q, q = [th[t] EXCEPT !.pc = p]
        PROVE  Able(q) /\ q.pc # "lookup" /\ q.held = th[t].held /\ q.opened = th[t].opened /\ q.nfd = th[t].nfd
    <2>1. /\ q.pc = p /\ q.held = th[t].held /\ q.opened = th[t].opened /\ q.nfd = th[t].nfd /\ q.l = th[t].l
          /\ {"pc", "held", "l", "opened", "nfd"} \subseteq DOMAIN q
      BY <1>1, <1>2
    <2>2. Able(q)
      BY <1>0, <1>1, <2>1, AbleOn
    <2> QED BY <2>1, <2>2
  <1>3. CASE th' = [th EXCEPT ![t].pc = "use"] /\ objs' = objs
    <2>1. PICK q : q = [th[t] EXCEPT !.pc = "use"]
      OBVIOUS
    <2>2. th' = [th EXCEPT ![t] = q] /\ entries' = entries /\ host' = host /\ leaked' = leaked
      BY <1>3, <2>1 DEF ReaddirLock, table, Same
    <2>3. Able(q) /\ q.pc # "lookup" /\ q.held = th[t].held /\ q.opened = th[t].opened /\ q.nfd = th[t].nfd
      BY <1>2, <2>1
    <2> QED BY <1>3, <2>2, <2>3, QuietHere
  <1>4. CASE th' = [th EXCEPT ![t].pc = "read"] /\ objs' = [objs EXCEPT ![th[t].held[1].obj].dirh = TRUE]
    <2>1. PICK q, x : q = [th[t] EXCEPT !.pc = "read"] /\ x = th[t].held[1].obj
      OBVIOUS
    <2>2. /\ th' = [th EXCEPT ![t] = q] /\ objs' = [objs EXCEPT ![x].dirh = TRUE]
          /\ entries' = entries /\ host' = host /\ leaked' = leaked
      BY <1>4, <2>1 DEF ReaddirLock, table, Same
    <2>3. Able(q) /\ q.pc # "lookup" /\ q.held = th[t].held /\ q.opened = th[t].opened /\ q.nfd = th[t].nfd
      BY <1>2, <2>1
    <2>4. th'[t] = q /\ Alone(t)
      BY <1>0, <2>2 DEF Shapes, Alone
    <2>5. ASSUME NEW o \in Objects
          PROVE  /\ objs'[o].num = objs[o].num /\ objs'[o].node = objs[o].node /\ objs'[o].ref = objs[o].ref
                 /\ {"ref", "num", "node", "dirh"} \subseteq DOMAIN objs'[o]
      <3>1. objs'[o] = objs[o] \/ objs'[o] = [objs[o] EXCEPT !.dirh = TRUE]
        BY <1>0, <2>2 DEF Shapes, ObjectTable
      <3>2. {"ref", "num", "node", "dirh"} \subseteq DOMAIN objs[o]
        BY <1>0 DEF Shapes, ObjectTable
      <3> QED BY <3>1, <3>2
    <2>6. DOMAIN objs' = Objects
      BY <1>0, <2>2 DEF Shapes, ObjectTable
    <2>7. ObjectTable(objs') /\ SameObjs /\ SameEntries /\ EntryTable(entries')
      BY <1>0, <2>2, <2>5, <2>6 DEF Shapes, ObjectTable, SameObjs, SameEntries
    <2> QED BY <2>2, <2>3, <2>4, <2>5, <2>7, Quiet
  <1> QED BY <1>3, <1>4, SMTT(30), ZenonT(30) DEF ReaddirLock

\* The end of a lookup, or of the system call after it.
LEMMA DoneAble ==
  ASSUME NEW r, Able(r), r.pc \in {"found", "lost"}
  PROVE  /\ Able(Done(r)) /\ Done(r).pc = "use" /\ Done(r).held = r.held /\ Done(r).opened = r.opened
         /\ Done(r).nfd = r.nfd /\ r.opened = <<>> /\ r.nfd = -1 /\ r.held # <<>>
         /\ {"pc", "held", "l", "opened", "nfd"} \subseteq DOMAIN Done(r)
  <1>0. PICK q : q = Done(r)
    OBVIOUS
  <1>1. /\ r.held # <<>> /\ r.opened = <<>> /\ r.nfd = -1
        /\ {"pc", "held", "l", "opened", "nfd"} \subseteq DOMAIN r
    BY DEF Able
  <1>2. /\ q.pc = "use" /\ q.held = r.held /\ q.opened = r.opened /\ q.nfd = r.nfd /\ q.l = NoLookup
        /\ {"pc", "held", "l", "opened", "nfd"} \subseteq DOMAIN q
    BY <1>0, <1>1 DEF Done
  <1>3. IsLookup(NoLookup)
    <2>1. Idle.l = NoLookup
      BY DEF Idle
    <2> QED BY <2>1, IdleAble
  <1>4. Able(q)
    BY <1>1, <1>2, <1>3, AbleOn
  <1> QED BY <1>0, <1>1, <1>2, <1>4

\* Lost, SystemCall, and a second path that is refused.
LEMMA DoneKeeps ==
  ASSUME IInv, NEW t \in Threads, th[t].pc \in {"found", "lost"}, th' = [th EXCEPT ![t] = Done(@)],
         objs' = objs, entries' = entries, host' = host, leaked' = leaked
  PROVE  IInv'
  <1>1. PICK q : q = Done(th[t])
    OBVIOUS
  <1>2. Able(q) /\ q.pc # "lookup" /\ q.held = th[t].held /\ q.opened = th[t].opened /\ q.nfd = th[t].nfd
    BY <1>1, Start, DoneAble
  <1>3. th' = [th EXCEPT ![t] = q]
    BY <1>1
  <1> QED BY <1>2, <1>3, QuietHere

\* fd_fdstat_set_rights
LEMMA fd_fdstat_set_rightsKeeps ==
  ASSUME IInv, NEW t \in Threads, th[t].pc = "idle", NEW fd, NEW r, fd_fdstat_set_rights(t, fd, r)
  PROVE  IInv'
  <1>0. Shapes /\ Able(th[t]) /\ th[t].held = <<>> /\ th[t].opened = <<>> /\ th[t].nfd = -1
    BY Start DEF Able
  <1>1. /\ th' = [th EXCEPT ![t] = Idle] /\ fd \in DOMAIN entries
        /\ entries' = [entries EXCEPT ![fd] = [@ EXCEPT !.base = r.base, !.inh = r.inh]]
        /\ objs' = objs /\ host' = host /\ leaked' = leaked
    BY DEF fd_fdstat_set_rights, Begin, Same, Granted
  <1>2. th'[t] = Idle /\ Alone(t)
    BY <1>0, <1>1 DEF Shapes, Alone
  <1>3. DOMAIN entries' = DOMAIN entries
    BY <1>1
  <1>4. ASSUME NEW s \in DOMAIN entries
        PROVE  entries'[s].obj = entries[s].obj /\ {"obj", "base", "inh"} \subseteq DOMAIN entries'[s]
    <2>1. {"obj", "base", "inh"} \subseteq DOMAIN entries[s]
      BY <1>0 DEF Shapes, EntryTable
    <2>2. CASE s = fd
      BY <1>1, <2>1, <2>2
    <2>3. CASE s # fd
      BY <1>1, <2>1, <2>3
    <2> QED BY <2>2, <2>3
  <1>5. EntryTable(entries') /\ SameEntries
    BY <1>0, <1>3, <1>4 DEF Shapes, EntryTable, SameEntries, EntriesOf
  <1>6. SameObjs /\ ObjectTable(objs')
    BY <1>0, <1>1 DEF SameObjs, Shapes
  <1>7. Able(th'[t]) /\ th'[t].pc # "lookup" /\ th'[t].held = th[t].held /\ th'[t].opened = th[t].opened /\ th'[t].nfd = th[t].nfd
    BY <1>0, <1>2, IdleAble
  <1> QED BY <1>1, <1>2, <1>5, <1>6, <1>7, Quiet

\* fd_renumber of a descriptor to itself
LEMMA RenumberSameKeeps ==
  ASSUME IInv, NEW t \in Threads, th[t].pc = "idle", NEW from, fd_renumber(t, from, from)
  PROVE  IInv'
  <1>0. Able(th[t]) /\ th[t].held = <<>> /\ th[t].opened = <<>> /\ th[t].nfd = -1
    BY Start DEF Able
  <1>1. PICK q : q = [Idle EXCEPT !.pc = "crashed"]
    OBVIOUS
  <1>2. th' = [th EXCEPT ![t] = q] /\ entries' = entries /\ objs' = objs /\ host' = host /\ leaked' = leaked
    BY <1>1 DEF fd_renumber, Begin, Same
  <1>3. /\ q.pc = "crashed" /\ q.held = Idle.held /\ q.opened = Idle.opened /\ q.nfd = Idle.nfd /\ q.l = Idle.l
        /\ DOMAIN q = DOMAIN Idle
    BY <1>1 DEF Idle
  <1>4. Able(q) /\ q.held = <<>> /\ q.opened = <<>> /\ q.nfd = -1
    BY <1>3, IdleAble DEF Able
  <1> QED BY <1>0, <1>2, <1>3, <1>4, QuietHere

-----------------------------------------------------------------------------
(* The beginning of a lookup.                                              *)

\* One more lease.
Longer(h, a, k) == h \in Seq(Leased) /\ Len(h) <= 1 /\ a \in Leased /\ k = Append(h, a)

\* It is the last, and counts.
LEMMA OneMore ==
  ASSUME NEW h, NEW a, NEW k, Longer(h, a, k)
  PROVE  /\ k \in Seq(Leased) /\ Len(k) = Len(h) + 1 /\ Len(k) \in 1..2 /\ Len(h) \in 0..1
         /\ k[Len(k)] = a /\ \A i \in 1..2 : i <= Len(h) => k[i] = h[i]
         /\ \A i \in 1..2 : i <= Len(k) /\ ~(i <= Len(h)) => k[i] = a
         /\ \A o : Uses(k, o) = Uses(h, o) + Is(a.obj, o)
  <1>1. /\ k \in Seq(Leased) /\ Len(k) = Len(h) + 1 /\ Len(h) \in Nat
        /\ \A i \in 1..Len(h) : k[i] = h[i]
        /\ k[Len(h) + 1] = a
    BY AppendProperties DEF Longer
  <1>2. \A n \in Nat : n <= 1 => n = 0 \/ n = 1
    OBVIOUS
  <1>3. Len(h) = 0 \/ Len(h) = 1
    BY <1>1, <1>2 DEF Longer
  <1>4. CASE Len(h) = 0
    <2>1. Len(k) = 1 /\ k[1] = a
      BY <1>1, <1>4
    <2>2. \A o : Uses(k, o) = Uses(h, o) + Is(a.obj, o)
      BY <1>4, <2>1 DEF Uses, One, Is
    <2>3. \A i \in 1..2 : i <= 1 => i = 1
      OBVIOUS
    <2> QED BY <1>1, <1>4, <2>1, <2>2, <2>3
  <1>5. CASE Len(h) = 1
    <2>1. Len(k) = 2 /\ k[1] = h[1] /\ k[2] = a
      BY <1>1, <1>5
    <2>2. \A o : Uses(k, o) = Uses(h, o) + Is(a.obj, o)
      BY <1>5, <2>1 DEF Uses, One, Is
    <2>3. \A i \in 1..2 : i = 1 \/ i = 2
      OBVIOUS
    <2> QED BY <1>1, <1>5, <2>1, <2>2, <2>3
  <1> QED BY <1>3, <1>4, <1>5

\* A lookup that starts.
LEMMA StartIsLookup ==
  ASSUME NEW dir, NEW path, NEW follow, NEW final
  PROVE  IsLookup(StartLookup(dir, path, follow, final)) /\ Len(StartLookup(dir, path, follow, final).fds) = 1
  <1>1. PICK l : l = StartLookup(dir, path, follow, final)
    OBVIOUS
  <1>2. l.fds = <<dir>> /\ LookupRecord(l)
    BY <1>1 DEF StartLookup, LookupRecord
  <1>3. <<dir>> \in Seq({dir}) /\ <<dir>> # <<>> /\ Len(<<dir>>) = 1
    OBVIOUS
  <1> QED BY <1>1, <1>2, <1>3 DEF IsLookup

\* path_get
LEMMA path_getKeeps ==
  ASSUME IInv, NEW t \in Threads, NEW r, Able(r), r.held = th[t].held, Len(r.held) <= 1, r.nfd = -1,
         th[t].opened = <<>>, th[t].nfd = -1,
         NEW fd, NEW path, NEW follow, NEW final, NEW base, NEW inh,
         path_get(t, r, fd, path, follow, final, base, inh)
  PROVE  IInv'
  <1>0. Shapes
    BY Start
  <1>1. PICK x \in Objects : x = entries[fd].obj /\ fd \in DOMAIN entries /\ objs[x].ref > 0
    BY Referenced DEF path_get, Granted
  <1>20. PICK l, k : l = StartLookup(objs[x].node, path, follow, final) /\ k = Append(r.held, Lease(x))
    OBVIOUS
  <1>2. PICK q : q = [r EXCEPT !.pc = "lookup", !.held = k, !.path = path, !.l = l, !.opened = <<>>, !.stale = FALSE]
    OBVIOUS
  <1>3. objs' = Acquired(objs, x) /\ th' = [th EXCEPT ![t] = q] /\ entries' = entries /\ host' = host /\ leaked' = leaked
    BY <1>1, <1>20, <1>2 DEF path_get, table, Same, Acquired
  <1>4. Lease(x) \in Leased /\ Lease(x).obj = x /\ Lease(x).fd = objs[x].num
    BY <1>0, LeaseIs
  <1>5. PICK h : h = th[t].held /\ h \in Seq(Leased) /\ Len(h) <= 1 /\ k = Append(h, Lease(x))
    BY <1>20 DEF Able
  <1>6. PICK a \in Leased : a = Lease(x) /\ a.obj = x /\ a.fd = objs[x].num
    BY <1>4
  <1>70. Longer(h, a, k)
    BY <1>5, <1>6 DEF Longer
  <1>7. /\ k \in Seq(Leased) /\ Len(k) \in 1..2 /\ k[Len(k)] = a
        /\ \A i \in 1..2 : i <= Len(h) => k[i] = h[i]
        /\ \A i \in 1..2 : i <= Len(k) /\ ~(i <= Len(h)) => k[i] = a
        /\ \A o : Uses(k, o) = Uses(h, o) + Is(x, o)
        /\ Len(k) = Len(h) + 1 /\ Len(h) \in 0..1
    BY <1>6, <1>70, OneMore
  <1>8. /\ q.pc = "lookup" /\ q.held = k /\ q.l = l /\ q.opened = <<>> /\ q.nfd = -1
        /\ {"pc", "held", "l", "opened", "nfd"} \subseteq DOMAIN q
    <2>1. {"pc", "held", "l", "opened", "nfd"} \subseteq DOMAIN r
      BY DEF Able
    <2> QED BY <1>2, <2>1
  <1>9. IsLookup(l) /\ Len(l.fds) = 1
    BY <1>20, StartIsLookup
  <1>10. Able(q)
    <2>1. Len(k) <= 2 /\ k # <<>>
      <3>1. \A n \in 1..2 : n <= 2 /\ n # 0
        OBVIOUS
      <3> QED BY <1>7, <3>1, Short
    <2>2. <<>> \in Seq(HostFds)
      OBVIOUS
    <2> QED BY <1>7, <1>8, <1>9, <2>1, <2>2 DEF Able
  <1>11. th'[t] = q /\ Alone(t)
    BY <1>0, <1>3 DEF Shapes, Alone
  <1>12. /\ ObjectTable(objs')
         /\ \A o \in Objects : objs'[o].num = objs[o].num /\ objs'[o].node = objs[o].node /\ objs'[o].ref = objs[o].ref + Is(x, o)
    BY <1>0, <1>3, Acquire DEF Shapes
  <1>13. SameObjs
    BY <1>0, <1>1, <1>12, AcquireSame
  <1>14. Shapes'
    BY <1>0, <1>3, <1>11, <1>12 DEF Shapes, Alone
  <1>15. Charged(t)
    <2>1. ASSUME NEW o \in Objects PROVE objs'[o].ref + Uses(h, o) = objs[o].ref + Uses(k, o)
      <3> DEFINE a1 == objs[o].ref
                 b1 == objs'[o].ref
                 u == Uses(h, o)
                 v == Uses(k, o)
                 w == Is(x, o)
      <3>1. a1 \in Nat /\ b1 = a1 + w /\ v = u + w
        BY <1>0, <1>7, <1>12 DEF Shapes, ObjectTable
      <3>2. u \in 0..2 /\ w \in 0..1
        BY DEF Uses, One, Is
      <3> HIDE DEF a1, b1, u, v, w
      <3>3. b1 + u = a1 + v
        BY ONLY <3>1, <3>2
      <3> QED BY <3>3 DEF a1, b1, u, v
    <2> QED BY <2>1, <1>5, <1>8, <1>11 DEF Charged
  <1>16. Adds(h, k)
    <2>1. \A i \in 1..2 : i <= Len(h) => i <= Len(k)
      BY <1>7
    <2> QED BY <2>1, <1>6, <1>7 DEF Adds
  <1>17. Follows(q, objs', host')
    <2>1. Len(q.opened) = 0 /\ Len(q.l.fds) = Len(q.opened) + 1
      BY <1>8, <1>9
    <2>2. \A i \in 1..0 : FALSE
      OBVIOUS
    <2>3. q.held[Len(q.held)] = a /\ a.fd = objs'[a.obj].num
      BY <1>6, <1>7, <1>8, <1>12
    <2> QED BY <2>1, <2>2, <2>3 DEF Follows
  <1>18. SameEntries
    BY <1>3 DEF SameEntries
  <1> QED BY <1>3, <1>5, <1>8, <1>10, <1>11, <1>13, <1>14, <1>15, <1>16, <1>17, <1>18, Borrow

\* A call with a path.
LEMMA CallWithPathKeeps ==
  ASSUME IInv, NEW t \in Threads, th[t].pc = "idle", NEW fd, CallWithPath(t, fd)
  PROVE  IInv'
  <1>0. Able(th[t]) /\ th[t].held = <<>> /\ th[t].opened = <<>> /\ th[t].nfd = -1
    BY Start DEF Able
  <1>1. ASSUME NEW r, r.pc = "idle", r.held = <<>>, r.opened = <<>>, r.nfd = -1, r.l = Idle.l, DOMAIN r = DOMAIN Idle,
               NEW path, NEW follow, NEW final, NEW base, NEW inh, path_get(t, r, fd, path, follow, final, base, inh)
        PROVE  IInv'
    <2>1. Able(r)
      BY <1>1, IdleAble DEF Able
    <2>2. Len(r.held) <= 1
      BY <1>1
    <2> QED BY <1>0, <1>1, <2>1, <2>2, path_getKeeps
  <1>2. ASSUME NEW op, NEW p, NEW follow, NEW final, NEW right, PathCall(t, op, fd, p, follow, final, right)
        PROVE  IInv'
    <2>1. PICK r : r = [Idle EXCEPT !.op = op]
      OBVIOUS
    <2>2. /\ r.pc = "idle" /\ r.held = <<>> /\ r.opened = <<>> /\ r.nfd = -1 /\ r.l = Idle.l /\ DOMAIN r = DOMAIN Idle
      BY <2>1 DEF Idle
    <2>3. path_get(t, r, fd, p, follow, final, {right}, {})
      BY <1>2, <2>1 DEF PathCall
    <2> QED BY <2>2, <2>3, <1>1
  <1>3. ASSUME NEW p, NEW follow, NEW f, NEW w, path_open(t, fd, p, follow, f, w)
        PROVE  IInv'
    <2> DEFINE r == Opening(fd, w)
    <2>2. /\ r.pc = "idle" /\ r.held = <<>> /\ r.opened = <<>> /\ r.nfd = -1 /\ r.l = Idle.l /\ DOMAIN r = DOMAIN Idle
      BY DEF Idle, Opening
    <2> DEFINE base == NeededBase(f)
               inh == NeededInheriting(f, w)
    <2>3. path_get(t, r, fd, p, follow, "CREAT" \in f, base, inh)
      BY <1>3, Zenon DEF path_open
    <2> HIDE DEF r
    <2> HIDE DEF base, inh
    <2> QED BY <2>2, <2>3, <1>1
  <1>4. ASSUME NEW p, NEW b, PathOperation(t, fd, p, b) PROVE IInv'
    BY <1>2, <1>4 DEF PathOperation, path_create_directory, path_readlink, path_filestat_get,
         path_filestat_set_times, path_unlink_file, path_remove_directory, path_symlink, path_link, path_rename
  <1> QED BY <1>3, <1>4 DEF CallWithPath

\* SecondPath
LEMMA SecondPathKeeps ==
  ASSUME IInv, NEW t \in Threads, NEW fd, NEW p, SecondPath(t, fd, p)
  PROVE  IInv'
  <1>0. Able(th[t]) /\ th[t].pc = "found" /\ Len(th[t].held) = 1 /\ th[t].opened = <<>> /\ th[t].nfd = -1
    BY Start DEF Able, SecondPath
  <1>1. PICK r, right : /\ r = th[t]
                        /\ \/ path_get(t, r, fd, p, FALSE, TRUE, {right}, {})
                           \/ th' = [th EXCEPT ![t] = Done(@)] /\ UNCHANGED <<table, objs, host>> /\ Same
    BY DEF SecondPath
  <1>2. CASE path_get(t, r, fd, p, FALSE, TRUE, {right}, {})
    <2>0. r = th[t] /\ 1 <= 1
      BY <1>1
    <2>1. Able(r) /\ r.held = th[t].held /\ Len(r.held) <= 1 /\ r.nfd = -1
      BY ONLY <1>0, <2>0
    <2> QED BY <1>0, <1>2, <2>1, path_getKeeps
  <1>3. CASE th' = [th EXCEPT ![t] = Done(@)] /\ UNCHANGED <<table, objs, host>> /\ Same
    BY <1>0, <1>3, DoneKeeps DEF table, Same
  <1> QED BY <1>1, <1>2, <1>3

-----------------------------------------------------------------------------
(* Giving leases back.                                                     *)

Fds(h) == h = [n \in HostFds |-> h[n]]

\* k is h with some descriptors closed.
Closing(h, k) == Fds(k) /\ \A n \in HostFds : k[n] = h[n] \/ k[n] = None

\* CLOSE_NON_STD_FD
LEMMA Closes ==
  ASSUME NEW h, Fds(h), NEW n
  PROVE  Closing(h, HostClose(h, n))
  <1>1. CASE n > 2
    <2>1. PICK k : k = [h EXCEPT ![n] = None]
      OBVIOUS
    <2>2. Fds(k) /\ \A m \in HostFds : k[m] = h[m] \/ k[m] = None
      BY <2>1 DEF Fds
    <2>3. HostClose(h, n) = k
      BY <1>1, <2>1 DEF HostClose
    <2> QED BY <2>2, <2>3 DEF Closing
  <1>2. CASE ~(n > 2)
    <2>1. HostClose(h, n) = h
      BY <1>2 DEF HostClose
    <2> QED BY <2>1 DEF Closing
  <1> QED BY <1>1, <1>2

\* fd_object_release
LEMMA Released ==
  ASSUME NEW O, ObjectTable(O), NEW H, NEW x \in Objects, O[x].ref > 0
  PROVE  /\ ObjectTable(fd_object_release(O, H, x)[1])
         /\ \A o \in Objects : /\ fd_object_release(O, H, x)[1][o].num = O[o].num
                              /\ fd_object_release(O, H, x)[1][o].node = O[o].node
                              /\ fd_object_release(O, H, x)[1][o].ref = O[o].ref - Is(x, o)
         /\ fd_object_release(O, H, x)[2] = IF O[x].ref = 1 THEN HostClose(H, O[x].num) ELSE H
  <1>1. PICK P : P = fd_object_release(O, H, x)[1]
    OBVIOUS
  <1>2. /\ P = IF O[x].ref = 1 THEN [O EXCEPT ![x].ref = 0, ![x].dirh = FALSE] ELSE [O EXCEPT ![x].ref = @ - 1]
        /\ fd_object_release(O, H, x)[2] = IF O[x].ref = 1 THEN HostClose(H, O[x].num) ELSE H
    BY <1>1 DEF fd_object_release
  <1>3. /\ DOMAIN O = Objects /\ {"ref", "num", "node", "dirh"} \subseteq DOMAIN O[x]
        /\ O[x].ref \in Nat
    BY DEF ObjectTable
  <1>4. DOMAIN P = Objects /\ \A o \in Objects : o # x => P[o] = O[o]
    <2>1. CASE O[x].ref = 1
      BY <1>2, <1>3, <2>1
    <2>2. CASE O[x].ref # 1
      BY <1>2, <1>3, <2>2
    <2> QED BY <2>1, <2>2
  <1>5. /\ {"ref", "num", "node", "dirh"} \subseteq DOMAIN P[x]
        /\ P[x].ref = O[x].ref - 1 /\ P[x].num = O[x].num /\ P[x].node = O[x].node
    <2>1. CASE O[x].ref = 1
      <3>1. P[x] = [O[x] EXCEPT !.ref = 0, !.dirh = FALSE]
        BY <1>2, <1>3, <2>1
      <3> QED BY <1>3, <2>1, <3>1
    <2>2. CASE O[x].ref # 1
      <3>1. P[x] = [O[x] EXCEPT !.ref = @ - 1]
        BY <1>2, <1>3, <2>2
      <3> QED BY <1>3, <3>1
    <2> QED BY <2>1, <2>2
  <1>6. P[x].ref \in Nat
    BY <1>3, <1>5
  <1>7. ObjectTable(P)
    BY <1>4, <1>5, <1>6 DEF ObjectTable
  <1>8. ASSUME NEW o \in Objects
        PROVE  P[o].num = O[o].num /\ P[o].node = O[o].node /\ P[o].ref = O[o].ref - Is(x, o)
    <2>1. CASE o = x
      BY <1>5, <2>1 DEF Is
    <2>2. CASE o # x
      <3>1. O[o].ref \in Nat /\ Is(x, o) = 0 /\ P[o] = O[o]
        BY <1>4, <2>2 DEF Is, ObjectTable
      <3> QED BY <3>1
    <2> QED BY <2>1, <2>2
  <1> QED BY <1>1, <1>2, <1>7, <1>8

\* What the objects own after one of them is released.
Less(f, O, x) == IF O[x].ref = 1 THEN [f EXCEPT ![Obj(x)] = -1] ELSE f

\* The last reference closes what the object owns.
LEMMA ReleaseAccounts ==
  ASSUME NEW f, NEW h, Accounted(f, h), Fds(h), NEW O, ObjectTable(O), NEW x \in Objects, O[x].ref > 0,
         f[Obj(x)] = O[x].num
  PROVE  /\ Accounted(Less(f, O, x), fd_object_release(O, h, x)[2])
         /\ Closing(h, fd_object_release(O, h, x)[2])
  <1>1. fd_object_release(O, h, x)[2] = IF O[x].ref = 1 THEN HostClose(h, O[x].num) ELSE h
    BY Released
  <1>2. Obj(x) \in Who
    BY Names
  <1>3. CASE O[x].ref = 1
    <2>1. PICK w \in Who : w = Obj(x)
      BY <1>2
    <2>2. Accounted([f EXCEPT ![w] = -1], HostClose(h, f[w]))
      BY DropOne DEF Fds
    <2>3. Closing(h, HostClose(h, O[x].num))
      BY Closes
    <2> QED BY <1>1, <1>3, <2>1, <2>2, <2>3 DEF Less
  <1>4. CASE O[x].ref # 1
    <2>1. fd_object_release(O, h, x)[2] = h /\ Less(f, O, x) = f
      BY <1>1, <1>4 DEF Less
    <2>2. Closing(h, h)
      BY DEF Closing
    <2> QED BY <2>1, <2>2
  <1> QED BY <1>3, <1>4

\* Closing twice.
LEMMA ClosingTwice ==
  ASSUME NEW h, NEW k, NEW m, Closing(h, k), Closing(k, m)
  PROVE  Closing(h, m)
  BY DEF Closing

\* A thread that put a lease back has the other one, if any.
LEMMA AfterPutAble ==
  ASSUME NEW r, Able(r), r.pc \in {"use", "read"}, NEW q, q = AfterPut(r)
  PROVE  /\ Able(q) /\ q.pc # "lookup" /\ q.opened = <<>> /\ r.opened = <<>> /\ q.nfd = r.nfd
         /\ Len(r.held) \in 1..2 /\ Len(q.held) = Len(r.held) - 1
         /\ Len(r.held) = 2 => q.held[1] = r.held[2]
         /\ \A o : Uses(r.held, o) = Is(r.held[1].obj, o) + Uses(q.held, o)
  <1>0. /\ r.held # <<>> /\ r.opened = <<>> /\ {"pc", "held", "l", "opened", "nfd"} \subseteq DOMAIN r
        /\ r.held \in Seq(Leased) /\ r.nfd \in HostFds \cup {-1} /\ IsLookup(r.l)
    BY DEF Able
  <1>1. Len(r.held) = 1 \/ Len(r.held) = 2
    <2>1. \A n \in 0..2 : n = 0 \/ n = 1 \/ n = 2
      OBVIOUS
    <2> QED BY <2>1, <1>0, HeldLeases
  <1>2. CASE Len(r.held) = 2
    <2>1. PICK k : k = Tail(r.held)
      OBVIOUS
    <2>2. k \in Seq(Leased) /\ Len(k) = 1 /\ k[1] = r.held[2]
      BY <1>0, <1>2, <2>1
    <2>3. q = [r EXCEPT !.held = k]
      BY <1>2, <2>1 DEF AfterPut
    <2>4. /\ q.held = k /\ q.pc = r.pc /\ q.opened = <<>> /\ q.nfd = r.nfd /\ q.l = r.l
          /\ {"pc", "held", "l", "opened", "nfd"} \subseteq DOMAIN q
      BY <1>0, <2>3
    <2>5. k # <<>> /\ Len(k) <= 2
      <3>1. 1 # 0 /\ 1 <= 2
        OBVIOUS
      <3>2. k # <<>>
        BY ONLY <2>2, <3>1, Short
      <3> QED BY ONLY <2>2, <3>1, <3>2
    <2>6. Able(q)
      <3>1. q.held \in Seq(Leased) /\ Len(q.held) <= 2 /\ q.held # <<>>
        BY <2>2, <2>4, <2>5
      <3>2. q.pc \in {"use", "read"} /\ (q.pc \notin {"use", "insert"} => q.nfd = -1)
        BY <2>4 DEF Able
      <3>3. q.opened \in Seq(HostFds) /\ q.nfd \in HostFds \cup {-1} /\ IsLookup(q.l)
        BY <1>0, <2>4
      <3> QED BY <2>4, <3>1, <3>2, <3>3 DEF Able
    <2>7. ASSUME NEW o PROVE Uses(r.held, o) = Is(r.held[1].obj, o) + Uses(q.held, o)
      <3>1. 2 >= 1 /\ 2 >= 2 /\ 1 >= 1 /\ ~(1 >= 2)
        OBVIOUS
      <3>2. Uses(r.held, o) = Is(r.held[1].obj, o) + Is(r.held[2].obj, o)
        BY <1>2, <3>1 DEF Uses, One, Is
      <3>3. Uses(q.held, o) = Is(r.held[2].obj, o) + 0
        BY <2>2, <2>4, <3>1 DEF Uses, One, Is
      <3>4. Is(r.held[1].obj, o) \in 0..1 /\ Is(r.held[2].obj, o) \in 0..1
        BY UsesOf
      <3> QED BY ONLY <3>2, <3>3, <3>4
    <2> QED BY <1>0, <1>2, <2>2, <2>4, <2>6, <2>7
  <1>3. CASE Len(r.held) = 1
    <2>1. ASSUME NEW o PROVE Uses(r.held, o) = Is(r.held[1].obj, o) + Uses(<<>>, o)
      <3>1. 1 >= 1 /\ ~(1 >= 2)
        OBVIOUS
      <3>2. Uses(r.held, o) = Is(r.held[1].obj, o) + 0 /\ Uses(<<>>, o) = 0
        BY <1>3, <3>1, UsesOf DEF Uses, One, Is
      <3> QED BY <3>2
    <2>2. CASE r.nfd >= 0
      <3>1. q = [r EXCEPT !.held = <<>>, !.pc = "insert"]
        BY <1>3, <2>2 DEF AfterPut
      <3>2. /\ q.held = <<>> /\ q.pc = "insert" /\ q.opened = <<>> /\ q.nfd = r.nfd /\ q.l = r.l
            /\ {"pc", "held", "l", "opened", "nfd"} \subseteq DOMAIN q
        BY <1>0, <3>1
      <3>3. <<>> \in Seq(Leased) /\ Len(<<>>) = 0 /\ <<>> \in Seq(HostFds) /\ q.nfd # -1
        BY <2>2, <3>2
      <3>4. Able(q)
        BY <1>0, <3>2, <3>3 DEF Able
      <3>5. \A o : Uses(r.held, o) = Is(r.held[1].obj, o) + Uses(q.held, o)
        BY <2>1, <3>2
      <3>6. Len(r.held) \in 1..2 /\ Len(q.held) = Len(r.held) - 1 /\ Len(r.held) # 2
        BY <1>3, <3>2, <3>3
      <3> QED BY <1>0, <3>2, <3>4, <3>5, <3>6
    <2>3. CASE ~(r.nfd >= 0)
      <3>1. q = Idle
        BY <1>3, <2>3 DEF AfterPut
      <3>2. r.nfd = -1
        <4>1. \A n \in Nat : n >= 0
          OBVIOUS
        <4> QED BY <1>0, <2>3, <4>1, Bounds
      <3>3. Len(<<>>) = 1 - 1 /\ 1 \in 1..2 /\ 1 # 2
        OBVIOUS
      <3>4. Able(q) /\ q.pc # "lookup" /\ q.held = <<>> /\ q.opened = <<>> /\ q.nfd = -1
        BY <3>1, IdleAble
      <3>5. \A o : Uses(r.held, o) = Is(r.held[1].obj, o) + Uses(q.held, o)
        BY <2>1, <3>4
      <3>6. Len(r.held) \in 1..2 /\ Len(q.held) = Len(r.held) - 1 /\ Len(r.held) # 2
        BY <1>3, <3>3, <3>4
      <3> QED BY <1>0, <3>2, <3>4, <3>5, <3>6
    <2> QED BY <2>2, <2>3
  <1> QED BY <1>1, <1>2, <1>3

\* A lease on another descriptor than its object's is on one above 2, and path_put
\* closes it.
LEMMA PutCloses ==
  ASSUME IInv, NEW t \in Threads, NEW a, a = th[t].held[1], Len(th[t].held) \in 1..2
  PROVE  HostClose(host, own[Hold(t, 1)]) = IF a.fd # objs[a.obj].num THEN [host EXCEPT ![a.fd] = None] ELSE host
  <1>0. OwnIs(own, objs, th, leaked) /\ Accounted(own, host)
    BY Owns, Start
  <1>1. PICK w \in Who : w = Hold(t, 1)
    <2>1. 1 \in 1..2
      OBVIOUS
    <2> QED BY <2>1, Names
  <1>2. own[w] = IF a.fd # objs[a.obj].num THEN a.fd ELSE -1
    <2>1. 1 \in 1..2 /\ \A n \in 1..2 : 1 <= n
      OBVIOUS
    <2> QED BY <2>1, <1>0, <1>1 DEF OwnIs
  <1>3. own[w] \in HostFds \cup {-1} /\ own[w] \notin 0..2
    BY <1>0, <1>1, Different DEF Accounted
  <1>4. CASE a.fd # objs[a.obj].num
    <2>0. a.fd \in HostFds
      <3>1. \A n \in 1..2 : 1 \in 1..n
        OBVIOUS
      <3> QED BY <3>1, Start, HeldLeases
    <2>1. \A n \in Nat : n \notin 0..2 => n > 2
      OBVIOUS
    <2>2. own[w] > 2 /\ own[w] = a.fd
      BY <1>2, <1>3, <1>4, <2>0, <2>1, Bounds
    <2> QED BY <1>1, <1>4, <2>2 DEF HostClose
  <1>5. CASE a.fd = objs[a.obj].num
    <2>1. ~(-1 > 2)
      OBVIOUS
    <2> QED BY <1>1, <1>2, <1>5, <2>1 DEF HostClose
  <1> QED BY <1>4, <1>5

\* Release
LEMMA ReleaseKeeps ==
  ASSUME IInv, NEW t \in Threads, Release(t)
  PROVE  IInv'
  <1>0. Shapes /\ Able(th[t]) /\ th[t].pc \in {"use", "read"} /\ Fds(host) /\ Accounted(own, host)
    BY Start DEF Release, Shapes, Fds
  <1>1. PICK q : q = AfterPut(th[t])
    OBVIOUS
  <1>2. /\ Able(q) /\ q.pc # "lookup" /\ q.opened = <<>> /\ th[t].opened = <<>> /\ q.nfd = th[t].nfd
        /\ Len(th[t].held) \in 1..2 /\ Len(q.held) = Len(th[t].held) - 1
        /\ Len(th[t].held) = 2 => q.held[1] = th[t].held[2]
        /\ \A o : Uses(th[t].held, o) = Is(th[t].held[1].obj, o) + Uses(q.held, o)
    BY <1>0, <1>1, AfterPutAble, SMTT(30), ZenonT(30)
  <1>3. PICK a : a = th[t].held[1] /\ a = Head(th[t].held)
    <2>1. th[t].held \in Seq(Leased) /\ th[t].held # <<>>
      BY <1>0 DEF Able
    <2> QED BY <2>1
  <1>4. PICK x \in Objects : x = a.obj /\ objs[x].ref > 0
    <2>1. \A n \in 1..2 : 1 \in 1..n
      OBVIOUS
    <2> QED BY <1>2, <1>3, <2>1, Referenced
  <1>5. PICK H : H = IF a.fd # objs[x].num THEN [host EXCEPT ![a.fd] = None] ELSE host
    OBVIOUS
  <1>6. /\ objs' = fd_object_release(objs, H, x)[1] /\ host' = fd_object_release(objs, H, x)[2]
        /\ th' = [th EXCEPT ![t] = q] /\ entries' = entries /\ leaked' = leaked
    <2>0. th' = [th EXCEPT ![t] = AfterPut(th[t])]
      BY DEF Release
    <2>1. th' = [th EXCEPT ![t] = q]
      BY <1>1, <2>0
    <2> QED BY <2>1, <1>3, <1>4, <1>5 DEF Release, Apply, path_put, table, Same
  <1>7. th'[t] = q /\ Alone(t)
    BY <1>0, <1>6 DEF Shapes, Alone
  <1>8. /\ ObjectTable(objs')
        /\ \A o \in Objects : objs'[o].num = objs[o].num /\ objs'[o].node = objs[o].node /\ objs'[o].ref = objs[o].ref - Is(x, o)
    <2>1. PICK O : O = objs /\ ObjectTable(O) /\ O[x].ref > 0
      BY <1>0, <1>4 DEF Shapes
    <2> QED BY <1>6, <2>1, Released
  <1>9. PICK v, w \in Who : v = Hold(t, 1) /\ w = Hold(t, 2)
    <2>1. 1 \in 1..2 /\ 2 \in 1..2
      OBVIOUS
    <2> QED BY <2>1, Names
  <1>10. PICK g : g = [own EXCEPT ![v] = -1]
    OBVIOUS
  <1>11. H = HostClose(host, own[v])
    BY <1>2, <1>3, <1>4, <1>5, <1>9, PutCloses
  <1>12. Accounted(g, H) /\ Closing(host, H) /\ Fds(H)
    <2>1. Accounted(g, H)
      BY <1>0, <1>10, <1>11, DropOne DEF Fds
    <2>2. Closing(host, H)
      BY <1>0, <1>11, Closes
    <2> QED BY <2>1, <2>2 DEF Closing
  <1>13. OwnIs(own, objs, th, leaked) /\ OwnIs(own', objs', th', leaked') /\ own = [z \in Who |-> own[z]]
    BY Owns DEF OwnIs
  <1>14. g[v] = -1 /\ (\A z \in Who : z # v => g[z] = own[z]) /\ g = [z \in Who |-> g[z]]
    BY <1>10, <1>13
  <1>15. Obj(x) \in Who /\ Obj(x) # v /\ Obj(x) # w /\ v # w
    <2>1. 1 # 2
      OBVIOUS
    <2> QED BY <2>1, <1>9, Names, Different
  <1>16. g[Obj(x)] = objs[x].num
    BY <1>4, <1>13, <1>14, <1>15 DEF OwnIs
  <1>17. PICK f : f = Less(g, objs, x)
    OBVIOUS
  <1>18. Accounted(f, host') /\ Closing(H, host')
    <2>1. PICK O : O = objs /\ ObjectTable(O) /\ O[x].ref > 0
      BY <1>0, <1>4 DEF Shapes
    <2> QED BY <1>6, <1>12, <1>16, <1>17, <2>1, ReleaseAccounts
  <1>19. Closing(host, host')
    BY <1>12, <1>18, ClosingTwice
  <1>20. Keeps
    BY <1>8, <1>19 DEF Keeps, Closing
  <1>21. /\ f = [z \in Who |-> f[z]] /\ f[Obj(x)] = IF objs[x].ref = 1 THEN -1 ELSE objs[x].num
         /\ \A z \in Who : z # Obj(x) => f[z] = g[z]
    BY <1>14, <1>15, <1>16, <1>17 DEF Less
  <1>22. PICK e : e = [f EXCEPT ![v] = f[w], ![w] = -1]
    OBVIOUS
  <1>23. Accounted(e, host')
    <2>1. f[v] = -1 /\ \A o \in Objects : w # Obj(o)
      BY <1>9, <1>14, <1>15, <1>21, Different
    <2> QED BY <1>15, <1>18, <1>22, <2>1, Move
  <1>24. /\ e = [z \in Who |-> e[z]] /\ e[v] = own[w] /\ e[w] = -1
         /\ e[Obj(x)] = IF objs[x].ref = 1 THEN -1 ELSE objs[x].num
         /\ \A z \in Who : z # v /\ z # w /\ z # Obj(x) => e[z] = own[z]
    BY <1>14, <1>15, <1>21, <1>22
  <1>25. \A o \in Objects : own'[Obj(o)] = e[Obj(o)]
    <2>1. ASSUME NEW o \in Objects PROVE own'[Obj(o)] = e[Obj(o)]
      <3>0. objs[o].ref \in Nat
        BY <1>0 DEF Shapes, ObjectTable
      <3>1. own'[Obj(o)] = IF objs'[o].ref > 0 THEN objs'[o].num ELSE -1
        BY <1>13 DEF OwnIs
      <3>2. own[Obj(o)] = IF objs[o].ref > 0 THEN objs[o].num ELSE -1
        BY <1>13 DEF OwnIs
      <3>3. CASE o = x
        <4>1. objs'[o].ref = objs[o].ref - 1
          BY <1>8, <3>3 DEF Is
        <4> QED BY <1>4, <1>8, <1>24, <3>0, <3>1, <3>3, <4>1
      <3>4. CASE o # x
        <4>1. objs'[o].ref = objs[o].ref /\ objs'[o].num = objs[o].num
          BY <1>8, <3>0, <3>4 DEF Is
        <4>2. Obj(o) \in Who /\ Obj(o) # v /\ Obj(o) # w /\ Obj(o) # Obj(x)
          BY <1>9, <3>4, Names, Different
        <4> QED BY <1>24, <3>1, <3>2, <4>1, <4>2
      <3> QED BY <3>3, <3>4
    <2> QED BY <2>1
  <1>26. own'[v] = own[w] /\ own'[w] = -1
    <2>0. 1 \in 1..2 /\ 2 \in 1..2 /\ 2 - 1 = 1 /\ 1 - 1 = 0 /\ ~(2 <= 1) /\ ~(1 <= 0) /\ 1 <= 1 /\ 2 <= 2 /\ ~(2 <= 0)
      OBVIOUS
    <2>1. /\ own[w] = IF 2 <= Len(th[t].held) /\ th[t].held[2].fd # objs[th[t].held[2].obj].num
                      THEN th[t].held[2].fd ELSE -1
          /\ own'[v] = IF 1 <= Len(q.held) /\ q.held[1].fd # objs'[q.held[1].obj].num
                       THEN q.held[1].fd ELSE -1
          /\ own'[w] = IF 2 <= Len(q.held) /\ q.held[2].fd # objs'[q.held[2].obj].num
                       THEN q.held[2].fd ELSE -1
      BY <1>7, <1>9, <1>13, <2>0 DEF OwnIs
    <2>2. Len(th[t].held) = 1 \/ Len(th[t].held) = 2
      BY <1>2
    <2>3. CASE Len(th[t].held) = 1
      BY <1>2, <2>0, <2>1, <2>3
    <2>4. CASE Len(th[t].held) = 2
      <3>1. th[t].held[2].obj \in Objects
        <4>1. 2 \in 1..Len(th[t].held)
          BY <2>4
        <4> QED BY <4>1, Referenced
      <3> QED BY <1>2, <1>8, <2>0, <2>1, <2>4, <3>1
    <2> QED BY <2>2, <2>3, <2>4
  <1>27. /\ \A u \in Threads, i \in 1..2 : own'[Hold(u, i)] = e[Hold(u, i)]
         /\ \A u \in Threads, i \in Nat : own'[Walked(u, i)] = e[Walked(u, i)]
         /\ \A u \in Threads : own'[New(u)] = e[New(u)]
         /\ \A i \in Nat : own'[Left(i)] = e[Left(i)]
    <2>1. /\ \A u \in Threads, i \in 1..2 : u # t => own'[Hold(u, i)] = own[Hold(u, i)]
          /\ \A u \in Threads, i \in Nat : u # t => own'[Walked(u, i)] = own[Walked(u, i)]
          /\ \A u \in Threads : u # t => own'[New(u)] = own[New(u)]
          /\ \A i \in Nat : own'[Left(i)] = own[Left(i)]
      BY <1>6, <1>7, <1>20, Elsewhere
    <2>2. ASSUME NEW i \in Nat PROVE own'[Walked(t, i)] = own[Walked(t, i)]
      <3>1. th'[t].opened = th[t].opened
        BY <1>2, <1>7
      <3>2. /\ own'[Walked(t, i)] = IF i \in 1..Len(th'[t].opened) THEN th'[t].opened[i] ELSE -1
            /\ own[Walked(t, i)] = IF i \in 1..Len(th[t].opened) THEN th[t].opened[i] ELSE -1
        BY <1>13 DEF OwnIs
      <3> QED BY <3>1, <3>2
    <2>3. own'[New(t)] = own[New(t)]
      BY <1>2, <1>7, <1>13 DEF OwnIs
    <2>4. ASSUME NEW u \in Threads, NEW i \in 1..2 PROVE own'[Hold(u, i)] = e[Hold(u, i)]
      <3>1. CASE u = t
        <4>1. i = 1 \/ i = 2
          OBVIOUS
        <4> QED BY <1>9, <1>24, <1>26, <3>1, <4>1
      <3>2. CASE u # t
        BY <1>9, <1>24, <2>1, <3>2, Names, Different
      <3> QED BY <3>1, <3>2
    <2>5. ASSUME NEW u \in Threads, NEW i \in Nat PROVE own'[Walked(u, i)] = e[Walked(u, i)]
      <3>1. own'[Walked(u, i)] = own[Walked(u, i)]
        BY <2>1, <2>2
      <3>2. Walked(u, i) \in Who /\ Walked(u, i) # v /\ Walked(u, i) # w /\ Walked(u, i) # Obj(x)
        BY <1>9, Names, Different
      <3> QED BY <1>24, <3>1, <3>2
    <2>6. \A u \in Threads : own'[New(u)] = e[New(u)]
      BY <1>9, <1>24, <2>1, <2>3, Names, Different
    <2>7. \A i \in Nat : own'[Left(i)] = e[Left(i)]
      BY <1>9, <1>24, <2>1, Names, Different
    <2> QED BY <2>4, <2>5, <2>6, <2>7
  <1>28. own' = e
    <2>1. own' = [z \in Who |-> own'[z]]
      BY <1>13 DEF OwnIs
    <2>2. Agree(own', e)
      BY <2>1, <1>24, <1>25, <1>27 DEF Agree
    <2> QED BY <2>2, SameOwners, Zenon
  <1>29. Accounted(own', host')
    BY <1>23, <1>28
  <1>30. Shapes'
    <2>1. host' = [n \in HostFds |-> host'[n]]
      BY <1>19 DEF Closing, Fds
    <2> QED BY <1>0, <1>6, <1>7, <1>8, <2>1 DEF Shapes, Alone
  <1>31. RefsMatch'
    <2>1. \A u \in Threads : u # t => th'[u].held = th[u].held
      BY <1>7 DEF Alone
    <2>2. ASSUME NEW o \in Objects
          PROVE  /\ Cardinality(EntriesOf(entries', o)) \in Nat /\ Cardinality(LeakedOf(leaked', o)) \in Nat
                 /\ objs'[o].ref \in Nat
                 /\ objs'[o].ref + Cardinality(EntriesOf(entries, o)) + Cardinality(LeakedOf(leaked, o)) + Uses(th[t].held, o)
                    = objs[o].ref + Cardinality(EntriesOf(entries', o)) + Cardinality(LeakedOf(leaked', o)) + Uses(th'[t].held, o)
      <3> DEFINE c == Cardinality(EntriesOf(entries, o))
                 d == Cardinality(LeakedOf(leaked, o))
                 r1 == objs[o].ref
                 r2 == objs'[o].ref
                 u1 == Uses(th[t].held, o)
                 u2 == Uses(th'[t].held, o)
                 b == Is(x, o)
      <3>1. c \in Nat /\ d \in Nat
        BY Countable
      <3>2. r1 \in Nat /\ r2 \in Nat /\ r2 = r1 - b
        BY <1>0, <1>8 DEF Shapes, ObjectTable
      <3>3. u1 = b + u2
        BY <1>2, <1>3, <1>4, <1>7
      <3>4. b \in 0..1 /\ u2 \in 0..2
        BY DEF Is, Uses, One
      <3>5. c = Cardinality(EntriesOf(entries', o)) /\ d = Cardinality(LeakedOf(leaked', o))
        BY <1>6
      <3> HIDE DEF c, d, r1, r2, u1, u2, b
      <3>6. r2 + c + d + u1 = r1 + c + d + u2
        BY ONLY <3>1, <3>2, <3>3, <3>4
      <3> QED BY <3>1, <3>2, <3>5, <3>6 DEF c, d, r1, r2, u1, u2
    <2> QED BY <1>2, <1>7, <2>1, <2>2, Rebalance
  <1>32. \A o \in Objects : objs'[o].ref > 0 => objs[o].ref > 0
    <2>1. ASSUME NEW o \in Objects, objs'[o].ref > 0 PROVE objs[o].ref > 0
      <3>1. objs[o].ref \in Nat /\ objs'[o].ref = objs[o].ref - Is(x, o) /\ Is(x, o) \in 0..1
        BY <1>0, <1>8, UsesOf DEF Shapes, ObjectTable
      <3> QED BY <2>1, <3>1
    <2> QED BY <2>1
  <1> QED BY <1>2, <1>7, <1>20, <1>29, <1>30, <1>31, <1>32, Finish

-----------------------------------------------------------------------------
(* Renumbering.                                                            *)

Renumbered(E, from, to) == Detached([E EXCEPT ![to] = E[from]], from)

\* One entry goes, the one of to.
LEMMA RenumberEntries ==
  ASSUME NEW E, EntryTable(E), NEW from \in DOMAIN E, NEW to \in DOMAIN E, from # to
  PROVE  /\ EntryTable(Renumbered(E, from, to))
         /\ to \in EntriesOf(Renumbered(E, from, to), E[from].obj)
         /\ \A z : /\ Cardinality(EntriesOf(Renumbered(E, from, to), z)) \in Nat
                   /\ IsFiniteSet(EntriesOf(Renumbered(E, from, to), z))
                   /\ Cardinality(EntriesOf(E, z)) = Cardinality(EntriesOf(Renumbered(E, from, to), z)) + Is(E[to].obj, z)
  <1>0. IsFiniteSet(DOMAIN E)
    BY DEF EntryTable
  <1>1. PICK F : F = [E EXCEPT ![to] = E[from]]
    OBVIOUS
  <1>2. DOMAIN F = DOMAIN E /\ F[to] = E[from] /\ \A s \in DOMAIN E : s # to => F[s] = E[s]
    BY <1>1
  <1>3. PICK G : G = Detached(F, from) /\ G = Renumbered(E, from, to)
    BY <1>1 DEF Renumbered
  <1>4. DOMAIN G = DOMAIN E \ {from} /\ (\A s \in DOMAIN E \ {from} : G[s] = F[s]) /\ IsFiniteSet(DOMAIN G)
    <2>1. IsFiniteSet(DOMAIN F) /\ from \in DOMAIN F
      BY <1>0, <1>2
    <2>2. DOMAIN G = DOMAIN F \ {from} /\ (\A s \in DOMAIN F \ {from} : G[s] = F[s]) /\ IsFiniteSet(DOMAIN G)
      <3>1. DOMAIN G = DOMAIN F \ {from} /\ \A s \in DOMAIN F \ {from} : G[s] = F[s]
        BY <1>3 DEF Detached
      <3> QED BY <2>1, <3>1, FS_Subset
    <2> QED BY <1>2, <2>2
  <1>5. EntryTable(G)
    <2>1. ASSUME NEW s \in DOMAIN G PROVE {"obj", "base", "inh"} \subseteq DOMAIN G[s] /\ G[s].obj \in Objects
      <3>1. G[s] = E[s] \/ G[s] = E[from]
        BY <1>2, <1>4
      <3>2. s \in DOMAIN E
        BY <1>4
      <3> QED BY <3>1, <3>2 DEF EntryTable
    <2> QED BY <2>1, <1>4 DEF EntryTable
  <1>6. to \in EntriesOf(G, E[from].obj)
    BY <1>2, <1>4 DEF EntriesOf
  <1>7. ASSUME NEW z
        PROVE  /\ Cardinality(EntriesOf(G, z)) \in Nat /\ IsFiniteSet(EntriesOf(G, z))
               /\ Cardinality(EntriesOf(E, z)) = Cardinality(EntriesOf(G, z)) + Is(E[to].obj, z)
    <2>1. IsFiniteSet(DOMAIN F) /\ from \in DOMAIN F /\ to \in DOMAIN F
      BY <1>0, <1>2
    <2>2. Costs(F, from, z)
      BY <2>1, EntryGoes
    <2>3. Costs(F, to, z)
      BY <2>1, EntryGoes
    <2>4. Costs(E, to, z)
      BY <1>0, EntryGoes
    <2>5. Detached(F, to) = Detached(E, to)
      <3>1. Detached(F, to) = [s \in DOMAIN E \ {to} |-> F[s]] /\ Detached(E, to) = [s \in DOMAIN E \ {to} |-> E[s]]
        BY <1>2 DEF Detached
      <3>2. \A s \in DOMAIN E \ {to} : F[s] = E[s]
        BY <1>2
      <3> QED BY <3>1, <3>2
    <2>6. F[from] = F[to] /\ F[to] = E[from]
      BY <1>2
    <2> DEFINE e == Cardinality(EntriesOf(E, z))
               f == Cardinality(EntriesOf(F, z))
               g == Cardinality(EntriesOf(G, z))
               d == Cardinality(EntriesOf(Detached(E, to), z))
               i == Is(E[from].obj, z)
               j == Is(E[to].obj, z)
    <2>7. f = g + i /\ g \in Nat /\ f = d + i /\ e = d + j /\ d \in Nat /\ i \in 0..1 /\ j \in 0..1
      BY <1>3, <2>2, <2>3, <2>4, <2>5, <2>6, UsesOf DEF Costs
    <2> HIDE DEF e, f, g, d, i, j
    <2>8. e = g + j
      BY ONLY <2>7
    <2>9. IsFiniteSet(EntriesOf(G, z))
      BY <1>4, FS_Subset DEF EntriesOf
    <2> QED BY <2>7, <2>8, <2>9 DEF e, g, j
  <1> QED BY <1>3, <1>5, <1>6, <1>7

\* Objects and descriptors of the host after o is given to the slot of y.
Exchanged(O, H, o, y) ==
  LET p == fd_object_release(Acquired(O, o), H, y) IN fd_object_release(p[1], p[2], o)

\* The object of to is released once, and the one of from not in the end.
LEMMA RenumberObjects ==
  ASSUME NEW O, ObjectTable(O), NEW H, NEW o \in Objects, NEW y \in Objects, O[o].ref > 0, O[y].ref > 0,
         o = y => O[o].ref >= 2
  PROVE  /\ ObjectTable(Exchanged(O, H, o, y)[1])
         /\ \A z \in Objects : /\ Exchanged(O, H, o, y)[1][z].num = O[z].num
                              /\ Exchanged(O, H, o, y)[1][z].node = O[z].node
                              /\ Exchanged(O, H, o, y)[1][z].ref = O[z].ref - Is(y, z)
         /\ Exchanged(O, H, o, y)[2] = fd_object_release(O, H, y)[2]
  <1>20. PICK p : p = fd_object_release(Acquired(O, o), H, y)
    OBVIOUS
  <1>21. PICK q : q = fd_object_release(p[1], p[2], o) /\ q = Exchanged(O, H, o, y)
    BY <1>20 DEF Exchanged
  <1>1. PICK A : A = Acquired(O, o)
    OBVIOUS
  <1>2. /\ ObjectTable(A)
        /\ \A z \in Objects : A[z].num = O[z].num /\ A[z].node = O[z].node /\ A[z].ref = O[z].ref + Is(o, z)
    BY <1>1, Acquire
  <1>3. \A z \in Objects : O[z].ref \in Nat /\ Is(o, z) \in 0..1 /\ Is(y, z) \in 0..1
    BY UsesOf DEF ObjectTable
  <1>4. Is(o, o) = 1 /\ Is(y, y) = 1 /\ (o = y => Is(o, y) = 1 /\ Is(y, o) = 1) /\ (o # y => Is(o, y) = 0 /\ Is(y, o) = 0)
    BY DEF Is
  <1>5. A[y].ref > 0 /\ (A[y].ref = 1 <=> O[y].ref = 1)
    <2>1. A[y].ref = O[y].ref + Is(o, y) /\ O[y].ref \in Nat
      BY <1>2, <1>3
    <2>2. CASE o = y
      BY <1>4, <2>1, <2>2
    <2>3. CASE o # y
      BY <1>4, <2>1, <2>3
    <2> QED BY <2>2, <2>3
  <1>6. PICK P : P = p[1]
    OBVIOUS
  <1>7. /\ ObjectTable(P)
        /\ \A z \in Objects : P[z].num = A[z].num /\ P[z].node = A[z].node /\ P[z].ref = A[z].ref - Is(y, z)
        /\ p[2] = IF A[y].ref = 1 THEN HostClose(H, A[y].num) ELSE H
    BY <1>1, <1>2, <1>5, <1>6, <1>20, Released
  <1>8. P[o].ref > 0 /\ P[o].ref # 1
    <2>1. P[o].ref = (O[o].ref + Is(o, o)) - Is(y, o) /\ O[o].ref \in Nat
      BY <1>2, <1>3, <1>7
    <2>2. CASE o = y
      BY <1>4, <2>1, <2>2
    <2>3. CASE o # y
      BY <1>4, <2>1, <2>3
    <2> QED BY <2>2, <2>3
  <1>9. PICK Q, K : Q = q[1] /\ K = p[2] /\ q[2] = fd_object_release(P, K, o)[2] /\ Q = fd_object_release(P, K, o)[1]
    BY <1>6, <1>21
  <1>10. /\ ObjectTable(Q)
         /\ \A z \in Objects : Q[z].num = P[z].num /\ Q[z].node = P[z].node /\ Q[z].ref = P[z].ref - Is(o, z)
         /\ fd_object_release(P, K, o)[2] = IF P[o].ref = 1 THEN HostClose(K, P[o].num) ELSE K
    BY <1>7, <1>8, <1>9, Released
  <1>11. q[2] = p[2]
    BY <1>8, <1>9, <1>10
  <1>12. p[2] = fd_object_release(O, H, y)[2]
    <2>1. fd_object_release(O, H, y)[2] = IF O[y].ref = 1 THEN HostClose(H, O[y].num) ELSE H
      BY Released
    <2> QED BY <2>1, <1>2, <1>5, <1>7
  <1>13. ASSUME NEW z \in Objects
         PROVE  Q[z].num = O[z].num /\ Q[z].node = O[z].node /\ Q[z].ref = O[z].ref - Is(y, z)
    <2>1. Q[z].num = O[z].num /\ Q[z].node = O[z].node
      BY <1>2, <1>7, <1>10
    <2>2. Q[z].ref = ((O[z].ref + Is(o, z)) - Is(y, z)) - Is(o, z)
      BY <1>2, <1>7, <1>10
    <2>3. O[z].ref \in Nat /\ Is(o, z) \in 0..1 /\ Is(y, z) \in 0..1
      BY <1>3
    <2>4. Q[z].ref = O[z].ref - Is(y, z)
      BY ONLY <2>2, <2>3
    <2> QED BY <2>1, <2>4
  <1> QED BY <1>9, <1>10, <1>11, <1>12, <1>13, <1>21, ZenonT(60), SMTT(30)

\* fd_renumber of a descriptor to another
LEMMA RenumberKeeps ==
  ASSUME IInv, NEW t \in Threads, th[t].pc = "idle", NEW from, NEW to, from # to, fd_renumber(t, from, to)
  PROVE  IInv'
  <1>0. /\ Shapes /\ Able(th[t]) /\ th[t].held = <<>> /\ th[t].opened = <<>> /\ th[t].nfd = -1
        /\ ObjectTable(objs) /\ EntryTable(entries) /\ Fds(host) /\ Accounted(own, host)
    BY Start DEF Able, Shapes, Fds
  <1>1. from \in DOMAIN entries /\ to \in DOMAIN entries
    BY DEF fd_renumber, Granted
  <1>2. PICK o \in Objects : o = entries[from].obj /\ objs[o].ref > 0
    BY <1>1, Referenced
  <1>3. PICK y \in Objects : y = entries[to].obj /\ objs[y].ref > 0
    BY <1>1, Referenced
  <1>5. PICK q : q = Exchanged(objs, host, o, y)
    OBVIOUS
  <1>6. /\ entries' = Renumbered(entries, from, to) /\ objs' = q[1] /\ host' = q[2]
        /\ th' = [th EXCEPT ![t] = Idle] /\ leaked' = leaked
    <2>1. th' = [th EXCEPT ![t] = Idle] /\ leaked' = leaked /\ entries' = Renumbered(entries, from, to)
      BY DEF fd_renumber, Begin, Same, Renumbered
    <2>2. Apply(Exchanged(objs, host, entries[from].obj, entries[to].obj))
      BY DEF fd_renumber, Acquired, Exchanged
    <2>3. Apply(q)
      BY <1>2, <1>3, <1>5, <2>2
    <2> QED BY <2>1, <2>3 DEF Apply
  <1>7. /\ EntryTable(entries') /\ to \in EntriesOf(entries', o)
        /\ \A z : /\ Cardinality(EntriesOf(entries', z)) \in Nat /\ IsFiniteSet(EntriesOf(entries', z))
                  /\ Cardinality(EntriesOf(entries, z)) = Cardinality(EntriesOf(entries', z)) + Is(y, z)
    BY <1>0, <1>1, <1>2, <1>3, <1>6, RenumberEntries
  <1>8. o = y => objs[o].ref >= 2
    <2>1. SUFFICES ASSUME o = y PROVE objs[o].ref >= 2
      OBVIOUS
    <2>2. Cardinality(EntriesOf(entries', o)) >= 1 /\ Cardinality(EntriesOf(entries', o)) \in Nat
      BY <1>7, SomeElement
    <2>3. Cardinality(EntriesOf(entries, o)) = Cardinality(EntriesOf(entries', o)) + 1
      BY <1>7, <2>1 DEF Is
    <2>4. /\ objs[o].ref = Cardinality(EntriesOf(entries, o)) + Cardinality(LeasesOf(th, o)) + Cardinality(LeakedOf(leaked, o))
          /\ Cardinality(LeasesOf(th, o)) \in Nat /\ Cardinality(LeakedOf(leaked, o)) \in Nat
      BY Countable
    <2> QED BY ONLY <2>2, <2>3, <2>4
  <1>9. /\ ObjectTable(objs')
        /\ \A z \in Objects : objs'[z].num = objs[z].num /\ objs'[z].node = objs[z].node /\ objs'[z].ref = objs[z].ref - Is(y, z)
        /\ host' = fd_object_release(objs, host, y)[2]
    <2>1. PICK O : /\ O = objs /\ ObjectTable(O) /\ O[o].ref > 0 /\ O[y].ref > 0 /\ (o = y => O[o].ref >= 2)
                   /\ q = Exchanged(O, host, o, y)
      BY <1>0, <1>2, <1>3, <1>5, <1>8
    <2>2. /\ ObjectTable(q[1])
          /\ \A z \in Objects : /\ q[1][z].num = O[z].num /\ q[1][z].node = O[z].node
                               /\ q[1][z].ref = O[z].ref - Is(y, z)
          /\ q[2] = fd_object_release(O, host, y)[2]
      BY <2>1, RenumberObjects, SMTT(30), ZenonT(30)
    <2> QED BY <1>6, <2>1, <2>2
  <1>10. OwnIs(own, objs, th, leaked) /\ OwnIs(own', objs', th', leaked') /\ own = [z \in Who |-> own[z]]
    BY Owns DEF OwnIs
  <1>11. PICK f : f = Less(own, objs, y)
    OBVIOUS
  <1>12. own[Obj(y)] = objs[y].num /\ Obj(y) \in Who
    BY <1>3, <1>10, Names DEF OwnIs
  <1>13. Accounted(f, host') /\ Closing(host, host')
    <2>1. PICK O : O = objs /\ ObjectTable(O) /\ O[y].ref > 0 /\ own[Obj(y)] = O[y].num
      BY <1>0, <1>3, <1>12
    <2> QED BY <1>0, <1>9, <1>11, <2>1, ReleaseAccounts
  <1>14. Keeps
    BY <1>9, <1>13 DEF Keeps, Closing
  <1>15. /\ f = [z \in Who |-> f[z]] /\ f[Obj(y)] = IF objs[y].ref = 1 THEN -1 ELSE objs[y].num
         /\ \A z \in Who : z # Obj(y) => f[z] = own[z]
    BY <1>10, <1>11, <1>12 DEF Less
  <1>16. \A z \in Objects : own'[Obj(z)] = f[Obj(z)]
    <2>1. ASSUME NEW z \in Objects PROVE own'[Obj(z)] = f[Obj(z)]
      <3>0. objs[z].ref \in Nat
        BY <1>0 DEF ObjectTable
      <3>1. own'[Obj(z)] = IF objs'[z].ref > 0 THEN objs'[z].num ELSE -1
        BY <1>10 DEF OwnIs
      <3>2. own[Obj(z)] = IF objs[z].ref > 0 THEN objs[z].num ELSE -1
        BY <1>10 DEF OwnIs
      <3>3. CASE z = y
        <4>1. objs'[z].ref = objs[z].ref - 1
          BY <1>9, <3>3 DEF Is
        <4> QED BY <1>3, <1>9, <1>15, <3>0, <3>1, <3>3, <4>1
      <3>4. CASE z # y
        <4>1. objs'[z].ref = objs[z].ref /\ objs'[z].num = objs[z].num
          BY <1>9, <3>0, <3>4 DEF Is
        <4>2. Obj(z) \in Who /\ Obj(z) # Obj(y)
          BY <3>4, Names, Different
        <4> QED BY <1>15, <3>1, <3>2, <4>1, <4>2
      <3> QED BY <3>3, <3>4
    <2> QED BY <2>1
  <1>17. th'[t] = Idle /\ Alone(t)
    BY <1>0, <1>6 DEF Shapes, Alone
  <1>18. th'[t].held = <<>> /\ th'[t].opened = <<>> /\ th'[t].nfd = -1 /\ Able(th'[t]) /\ th'[t].pc # "lookup"
    BY <1>17, IdleAble
  <1>19. /\ \A u \in Threads, i \in 1..2 : own'[Hold(u, i)] = own[Hold(u, i)]
         /\ \A u \in Threads, i \in Nat : own'[Walked(u, i)] = own[Walked(u, i)]
         /\ \A u \in Threads : own'[New(u)] = own[New(u)]
         /\ \A i \in Nat : own'[Left(i)] = own[Left(i)]
    <2>1. \A i \in 1..2 : own'[Hold(t, i)] = -1 /\ own[Hold(t, i)] = -1
      <3>1. \A i \in 1..2 : ~(i <= Len(<<>>))
        OBVIOUS
      <3> QED BY <1>0, <1>10, <1>18, <3>1 DEF OwnIs
    <2>2. ASSUME NEW i \in Nat PROVE own'[Walked(t, i)] = own[Walked(t, i)]
      <3>1. /\ own'[Walked(t, i)] = IF i \in 1..Len(th'[t].opened) THEN th'[t].opened[i] ELSE -1
            /\ own[Walked(t, i)] = IF i \in 1..Len(th[t].opened) THEN th[t].opened[i] ELSE -1
        BY <1>10 DEF OwnIs
      <3>2. th'[t].opened = th[t].opened
        BY <1>0, <1>18
      <3> QED BY <3>1, <3>2
    <2>3. own'[New(t)] = own[New(t)]
      BY <1>0, <1>10, <1>18 DEF OwnIs
    <2> QED BY <1>6, <1>14, <1>17, <2>1, <2>2, <2>3, Elsewhere, SMTT(30), ZenonT(30)
  <1>20. /\ \A u \in Threads, i \in 1..2 : own'[Hold(u, i)] = f[Hold(u, i)]
         /\ \A u \in Threads, i \in Nat : own'[Walked(u, i)] = f[Walked(u, i)]
         /\ \A u \in Threads : own'[New(u)] = f[New(u)]
         /\ \A i \in Nat : own'[Left(i)] = f[Left(i)]
    <2>1. \A u \in Threads, i \in 1..2 : own'[Hold(u, i)] = f[Hold(u, i)]
      BY <1>15, <1>19, Names, Different
    <2>2. ASSUME NEW u \in Threads, NEW i \in Nat PROVE own'[Walked(u, i)] = f[Walked(u, i)]
      <3>1. Walked(u, i) \in Who /\ Walked(u, i) # Obj(y)
        BY Names, Different
      <3> QED BY <1>15, <1>19, <3>1
    <2>3. \A u \in Threads : own'[New(u)] = f[New(u)]
      BY <1>15, <1>19, Names, Different
    <2>4. \A i \in Nat : own'[Left(i)] = f[Left(i)]
      BY <1>15, <1>19, Names, Different, ZenonT(60), SMTT(30)
    <2> QED BY <2>1, <2>2, <2>3, <2>4
  <1>21. Accounted(own', host')
    <2>1. own' = [z \in Who |-> own'[z]]
      BY <1>10 DEF OwnIs
    <2>2. own' = f
      <3>1. Agree(own', f)
        BY <2>1, <1>15, <1>16, <1>20 DEF Agree
      <3> QED BY <3>1, SameOwners, Zenon
    <2> QED BY <2>2, <1>13
  <1>22. Shapes'
    <2>1. host' = [n \in HostFds |-> host'[n]]
      BY <1>13 DEF Closing, Fds
    <2> QED BY <1>0, <1>6, <1>7, <1>9, <1>17, <2>1 DEF Shapes, Alone
  <1>23. RefsMatch'
    <2>1. \A u \in Threads : u # t => th'[u].held = th[u].held
      BY <1>17 DEF Alone
    <2>2. ASSUME NEW z \in Objects
          PROVE  /\ Cardinality(EntriesOf(entries', z)) \in Nat /\ Cardinality(LeakedOf(leaked', z)) \in Nat
                 /\ objs'[z].ref \in Nat
                 /\ objs'[z].ref + Cardinality(EntriesOf(entries, z)) + Cardinality(LeakedOf(leaked, z)) + Uses(th[t].held, z)
                    = objs[z].ref + Cardinality(EntriesOf(entries', z)) + Cardinality(LeakedOf(leaked', z)) + Uses(th'[t].held, z)
      <3> DEFINE c == Cardinality(EntriesOf(entries, z))
                 e == Cardinality(EntriesOf(entries', z))
                 d == Cardinality(LeakedOf(leaked, z))
                 r1 == objs[z].ref
                 r2 == objs'[z].ref
                 b == Is(y, z)
      <3>1. d \in Nat /\ e \in Nat /\ c = e + b
        BY <1>7, Countable
      <3>2. r1 \in Nat /\ r2 \in Nat /\ r2 = r1 - b
        BY <1>0, <1>9 DEF ObjectTable
      <3>3. b \in 0..1
        BY UsesOf
      <3>4. d = Cardinality(LeakedOf(leaked', z)) /\ Uses(th[t].held, z) = 0 /\ Uses(th'[t].held, z) = 0
        BY <1>0, <1>6, <1>18, UsesOf
      <3> HIDE DEF c, d, e, r1, r2, b
      <3>5. r2 + c + d + 0 = r1 + e + d + 0
        BY ONLY <3>1, <3>2, <3>3
      <3> QED BY <3>1, <3>2, <3>4, <3>5 DEF c, d, e, r1, r2
    <2> QED BY <1>18, <2>1, <2>2, Rebalance
  <1>24. \A z \in Objects : objs'[z].ref > 0 => objs[z].ref > 0
    <2>1. ASSUME NEW z \in Objects, objs'[z].ref > 0 PROVE objs[z].ref > 0
      <3>1. objs[z].ref \in Nat /\ objs'[z].ref = objs[z].ref - Is(y, z) /\ Is(y, z) \in 0..1
        BY <1>0, <1>9, UsesOf DEF ObjectTable
      <3> QED BY <2>1, <3>1
    <2> QED BY <2>1
  <1> QED BY <1>14, <1>17, <1>18, <1>21, <1>22, <1>23, <1>24, Finish

-----------------------------------------------------------------------------
(* Resolve.                                                                *)

\* A free descriptor of the host, if there is one.
LEMMA FreeHostIs ==
  ASSUME NEW h, \E n \in HostFds : h[n] = None
  PROVE  FreeHost(h) \in HostFds /\ h[FreeHost(h)] = None
  <1> DEFINE S == {n \in HostFds : h[n] = None}
  <1>1. S \in SUBSET Nat /\ S # {}
    BY Bounds
  <1>2. \E n \in S : \A m \in S : n <= m
    BY <1>1, Least
  <1>3. FreeHost(h) = CHOOSE n \in S : \A m \in S : n <= m
    BY DEF FreeHost, Min
  <1>4. FreeHost(h) \in S
    BY <1>2, <1>3
  <1> QED BY <1>4

\* f owns what is owned, but for the directories of the lookup of t.
But(t, f) ==
  /\ f = [w \in Who |-> f[w]]
  /\ \A o \in Objects : f[Obj(o)] = own[Obj(o)]
  /\ \A u \in Threads, i \in 1..2 : f[Hold(u, i)] = own[Hold(u, i)]
  /\ \A u \in Threads, i \in Nat : u # t => f[Walked(u, i)] = own[Walked(u, i)]
  /\ \A u \in Threads : f[New(u)] = own[New(u)]
  /\ \A i \in Nat : f[Left(i)] = own[Left(i)]

\* Between two turns: the lookup l of t has the descriptors s, and f says who owns what of h.
Turned(t, l, s, h, f) ==
  /\ IsLookup(l) /\ s \in Seq(HostFds) /\ Len(l.fds) = Len(s) + 1
  /\ \A j \in 1..Len(s) : h[s[j]] = l.fds[j + 1]
  /\ l.st \in {"run", "ok"} \/ s = <<>>
  /\ Accounted(f, h) /\ Fds(h) /\ But(t, f)
  /\ \A j \in Nat : f[Walked(t, j)] = IF j \in 1..Len(s) THEN s[j] ELSE -1
  /\ \A n \in HostFds : host[n] # None /\ h[n] # None => h[n] = host[n]

\* What a lookup has open.
LEMMA WalkOpen ==
  ASSUME IInv, NEW t \in Threads, th[t].pc = "lookup"
  PROVE  /\ th[t].opened \in Seq(HostFds) /\ Len(th[t].opened) \in Nat
         /\ Len(th[t].l.fds) = Len(th[t].opened) + 1
         /\ \A j \in 1..Len(th[t].opened) : /\ th[t].opened[j] \in HostFds /\ own[Walked(t, j)] = th[t].opened[j]
                                           /\ host[th[t].opened[j]] = th[t].l.fds[j + 1]
                                           /\ host[th[t].opened[j]] # None /\ th[t].opened[j] > 2
         /\ \A j \in Nat : j \notin 1..Len(th[t].opened) => own[Walked(t, j)] = -1
         /\ \A i, j \in 1..Len(th[t].opened) : th[t].opened[i] = th[t].opened[j] => i = j
  <1>1. Able(th[t]) /\ Follows(th[t], objs, host) /\ OwnIs(own, objs, th, leaked) /\ Accounted(own, host)
    BY Start, Owns
  <1>2. PICK s \in Seq(HostFds) : s = th[t].opened
    BY <1>1 DEF Able
  <1>3. Len(s) \in Nat /\ \A j \in 1..Len(s) : j \in Nat /\ s[j] \in HostFds
    OBVIOUS
  <1>4. \A j \in Nat : own[Walked(t, j)] = (IF j \in 1..Len(s) THEN s[j] ELSE -1) /\ Walked(t, j) \in Who
    BY <1>1, <1>2, Names DEF OwnIs
  <1>5. ASSUME NEW j \in 1..Len(s) PROVE host[s[j]] # None /\ s[j] > 2
    <2>1. own[Walked(t, j)] = s[j] /\ Walked(t, j) \in Who /\ s[j] # -1 /\ s[j] \in Nat /\ s[j] \in HostFds
      BY <1>3, <1>4, Bounds
    <2>2. s[j] \notin 0..2
      BY <1>1, <2>1, Different DEF Accounted
    <2>3. s[j] > 2
      BY <2>1, <2>2
    <2> QED BY <1>1, <2>1, <2>3 DEF Accounted
  <1>6. ASSUME NEW i \in 1..Len(s), NEW j \in 1..Len(s), s[i] = s[j] PROVE i = j
    <2>1. own[Walked(t, i)] = s[i] /\ own[Walked(t, j)] = s[j] /\ Walked(t, i) \in Who /\ Walked(t, j) \in Who /\ s[i] # -1
      BY <1>3, <1>4, Bounds
    <2>2. Walked(t, i) = Walked(t, j)
      BY <1>1, <1>6, <2>1 DEF Accounted
    <2> QED BY <2>2, Different
  <1>7. Len(th[t].l.fds) = Len(s) + 1 /\ \A j \in 1..Len(s) : host[s[j]] = th[t].l.fds[j + 1]
    BY <1>1, <1>2 DEF Follows
  <1> QED BY <1>2, <1>3, <1>4, <1>5, <1>6, <1>7

\* A directory is opened.
LEMMA TurnDown ==
  ASSUME IInv, NEW t \in Threads, th[t].pc = "lookup", NEW n, n # None, NEW l, IsLookup(l),
         l.fds = Append(th[t].l.fds, n), l.st \in {"run", "ok"},
         NEW m \in HostFds, host[m] = None, NEW s, s = Append(th[t].opened, m),
         NEW h, h = [host EXCEPT ![m] = n]
  PROVE  \E f : Turned(t, l, s, h, f)
  <1>0. /\ Shapes /\ Accounted(own, host) /\ own = [w \in Who |-> own[w]] /\ host = [x \in HostFds |-> host[x]]
        /\ IsLookup(th[t].l)
    BY Start DEF Shapes, Able
  <1>1. PICK o \in Seq(HostFds) : o = th[t].opened
    BY WalkOpen
  <1>2. PICK k \in Nat : k = Len(o)
    OBVIOUS
  <1>3. /\ Len(th[t].l.fds) = k + 1
        /\ \A j \in 1..k : o[j] \in HostFds /\ own[Walked(t, j)] = o[j] /\ host[o[j]] = th[t].l.fds[j + 1] /\ host[o[j]] # None
        /\ \A j \in Nat : j \notin 1..k => own[Walked(t, j)] = -1
    BY <1>1, <1>2, WalkOpen
  <1>4. s \in Seq(HostFds) /\ Len(s) = k + 1 /\ s[k + 1] = m /\ \A j \in 1..k : s[j] = o[j]
    BY <1>1, <1>2, AppendProperties
  <1>5. PICK S : th[t].l.fds \in Seq(S)
    BY <1>0 DEF IsLookup
  <1>6. Len(l.fds) = k + 2 /\ l.fds[k + 2] = n /\ \A j \in 1..k + 1 : l.fds[j] = th[t].l.fds[j]
    <2>1. th[t].l.fds \in Seq(S \cup {n}) /\ n \in S \cup {n}
      BY <1>5
    <2>2. /\ Len(l.fds) = Len(th[t].l.fds) + 1 /\ l.fds[Len(th[t].l.fds) + 1] = n
          /\ \A j \in 1..Len(th[t].l.fds) : l.fds[j] = th[t].l.fds[j]
      <3> DEFINE g == th[t].l.fds
                 T == S \cup {n}
      <3>1. g \in Seq(T) /\ n \in T /\ l.fds = Append(g, n)
        BY <2>1
      <3> HIDE DEF g, T
      <3>2. /\ Len(Append(g, n)) = Len(g) + 1 /\ Append(g, n)[Len(g) + 1] = n
            /\ \A j \in 1..Len(g) : Append(g, n)[j] = g[j]
        BY <3>1, AppendProperties
      <3> QED BY <3>1, <3>2, Zenon DEF g
    <2>3. (k + 1) + 1 = k + 2
      OBVIOUS
    <2> QED BY <1>3, <2>2, <2>3
  <1>7. PICK w \in Who : w = Walked(t, k + 1)
    <2>1. k + 1 \in Nat
      OBVIOUS
    <2> QED BY <2>1, Names
  <1>8. PICK f : f = [own EXCEPT ![w] = m]
    OBVIOUS
  <1>9. f[w] = m /\ (\A v \in Who : v # w => f[v] = own[v]) /\ f = [v \in Who |-> f[v]]
    BY <1>0, <1>8
  <1>10. own[w] = -1
    <2>1. k + 1 \in Nat /\ k + 1 \notin 1..k
      OBVIOUS
    <2> QED BY <1>3, <1>7, <2>1
  <1>11. Accounted(f, h)
    BY <1>0, <1>8, <1>10, Take
  <1>12. h[m] = n /\ (\A x \in HostFds : x # m => h[x] = host[x]) /\ Fds(h)
    BY <1>0 DEF Fds
  <1>13. But(t, f)
    <2>1. ASSUME NEW x \in Objects PROVE f[Obj(x)] = own[Obj(x)]
      <3>1. Obj(x) \in Who /\ Obj(x) # w
        BY <1>7, Names DEF Obj, Walked
      <3> QED BY <1>9, <3>1
    <2>2. \A u \in Threads, i \in 1..2 : f[Hold(u, i)] = own[Hold(u, i)]
      BY <1>7, <1>9, Names, Different
    <2>3. ASSUME NEW u \in Threads, NEW i \in Nat, u # t PROVE f[Walked(u, i)] = own[Walked(u, i)]
      <3>1. Walked(u, i) \in Who /\ Walked(u, i) # w
        BY <1>7, <2>3, Names, Different
      <3> QED BY <1>9, <3>1
    <2>4. \A u \in Threads : f[New(u)] = own[New(u)]
      BY <1>7, <1>9, Names, Different
    <2>5. \A i \in Nat : f[Left(i)] = own[Left(i)]
      BY <1>7, <1>9, Names, Different
    <2> QED BY <1>9, <2>1, <2>2, <2>3, <2>4, <2>5 DEF But
  <1>14. ASSUME NEW j \in Nat PROVE f[Walked(t, j)] = IF j \in 1..Len(s) THEN s[j] ELSE -1
    <2>1. CASE j = k + 1
      <3>1. k + 1 \in 1..k + 1
        OBVIOUS
      <3> QED BY <1>4, <1>7, <1>9, <2>1, <3>1
    <2>2. CASE j # k + 1
      <3>1. Walked(t, j) \in Who /\ Walked(t, j) # w
        BY <1>7, <2>2, Names, Different
      <3>2. j \in 1..k <=> j \in 1..k + 1
        BY <2>2
      <3> QED BY <1>3, <1>4, <1>9, <3>1, <3>2, SMTT(30), ZenonT(30)
    <2> QED BY <2>1, <2>2
  <1>15. ASSUME NEW j \in 1..Len(s) PROVE h[s[j]] = l.fds[j + 1]
    <2>1. CASE j = k + 1
      <3>1. (k + 1) + 1 = k + 2
        OBVIOUS
      <3> QED BY <1>4, <1>6, <1>12, <2>1, <3>1
    <2>2. CASE j # k + 1
      <3>1. j \in 1..k /\ j + 1 \in 1..k + 1
        BY <1>4, <2>2
      <3>2. s[j] = o[j] /\ o[j] # m
        BY <1>3, <1>4, <3>1
      <3> QED BY <1>3, <1>6, <1>12, <3>1, <3>2
    <2> QED BY <2>1, <2>2
  <1>16. Len(l.fds) = Len(s) + 1
    BY <1>4, <1>6
  <1>17. \A x \in HostFds : host[x] # None /\ h[x] # None => h[x] = host[x]
    BY <1>12
  <1>18. Turned(t, l, s, h, f)
    BY <1>4, <1>11, <1>12, <1>13, <1>14, <1>15, <1>16, <1>17 DEF Turned
  <1> QED BY <1>18

\* Directories at the end of the stack are closed.
LEMMA TurnUp ==
  ASSUME IInv, NEW t \in Threads, th[t].pc = "lookup", NEW l, IsLookup(l), NEW k \in 1..Len(th[t].l.fds),
         l.fds = SubSeq(th[t].l.fds, 1, k), l.st \in {"run", "ok"} \/ k = 1,
         NEW s, s = SubSeq(th[t].opened, 1, k - 1),
         NEW h, h = CloseAll(host, Range(th[t].opened) \ Range(s))
  PROVE  \E f : Turned(t, l, s, h, f)
  <1>0. /\ Shapes /\ Accounted(own, host) /\ own = [w \in Who |-> own[w]] /\ IsLookup(th[t].l)
    BY Start DEF Able
  <1>1. PICK o \in Seq(HostFds) : o = th[t].opened
    BY WalkOpen
  <1>2. PICK c \in Nat : c = Len(o) /\ DOMAIN o = 1..c
    OBVIOUS
  <1>3. /\ Len(th[t].l.fds) = c + 1
        /\ \A j \in 1..c : /\ o[j] \in HostFds /\ own[Walked(t, j)] = o[j] /\ host[o[j]] = th[t].l.fds[j + 1]
                          /\ host[o[j]] # None /\ o[j] > 2
        /\ \A j \in Nat : j \notin 1..c => own[Walked(t, j)] = -1
        /\ \A i, j \in 1..c : o[i] = o[j] => i = j
    BY <1>1, <1>2, WalkOpen
  <1>4. k \in 1..c + 1 /\ k - 1 \in 0..c
    BY <1>3
  <1>5. s \in Seq(HostFds) /\ Len(s) = k - 1 /\ DOMAIN s = 1..k - 1 /\ \A j \in 1..k - 1 : s[j] = o[j]
    BY <1>1, <1>2, <1>4
  <1>6. PICK S : th[t].l.fds \in Seq(S)
    BY <1>0 DEF IsLookup
  <1>7. Len(l.fds) = k /\ \A j \in 1..k : l.fds[j] = th[t].l.fds[j]
    BY <1>6
  <1>8. PICK D \in SUBSET Who : D = {Walked(t, j) : j \in k..c}
    <2>1. \A j \in k..c : j \in Nat
      BY <1>4
    <2>2. {Walked(t, j) : j \in k..c} \in SUBSET Who
      BY <2>1, Names
    <2> QED BY <2>2
  <1>9. PICK f : f = [w \in Who |-> IF w \in D THEN -1 ELSE own[w]]
    OBVIOUS
  <1>10. ASSUME NEW n \in HostFds PROVE h[n] = IF n > 2 /\ \E w \in D : own[w] = n THEN None ELSE host[n]
    <2>1. h[n] = IF n \in Range(o) \ Range(s) THEN None ELSE host[n]
      BY <1>1 DEF CloseAll
    <2>2. n \in Range(o) <=> \E j \in 1..c : o[j] = n
      BY <1>2 DEF Range
    <2>3. n \in Range(s) <=> \E j \in 1..k - 1 : o[j] = n
      BY <1>5 DEF Range
    <2>4. n \in Range(o) \ Range(s) <=> \E j \in k..c : o[j] = n
      <3>1. \A j \in 1..c : j \in k..c \/ j \in 1..k - 1
        BY <1>4
      <3>2. \A j \in k..c : j \in 1..c /\ j \notin 1..k - 1
        BY <1>4
      <3>3. \A j \in 1..k - 1 : j \in 1..c
        BY <1>4
      <3>4. ASSUME NEW j \in k..c, o[j] = n PROVE n \in Range(o) /\ n \notin Range(s)
        BY <1>3, <2>2, <2>3, <3>2, <3>3, <3>4
      <3> QED BY <2>2, <2>3, <3>1, <3>4
    <2>5. (n > 2 /\ \E w \in D : own[w] = n) <=> \E j \in k..c : o[j] = n
      <3>1. \A j \in k..c : own[Walked(t, j)] = o[j] /\ o[j] > 2 /\ Walked(t, j) \in D
        <4>1. \A j \in k..c : j \in 1..c
          BY <1>4
        <4> QED BY <1>3, <1>8, <4>1
      <3>2. \A w \in D : \E j \in k..c : w = Walked(t, j)
        BY <1>8
      <3>3. ASSUME NEW w \in D, own[w] = n PROVE \E j \in k..c : o[j] = n
        BY <3>1, <3>2, <3>3
      <3>4. ASSUME NEW j \in k..c, o[j] = n PROVE n > 2 /\ \E w \in D : own[w] = n
        BY <3>1, <3>4
      <3> QED BY <3>3, <3>4
    <2> QED BY <2>1, <2>4, <2>5
  <1>11. Accounted(f, h)
    <2>1. \A n \in HostFds : h[n] = IF n > 2 /\ \E w \in D : own[w] = n THEN None ELSE host[n]
      BY <1>10
    <2>2. Drops(own, host, D, f, h)
      BY <1>9, <2>1 DEF Drops
    <2> QED BY <1>0, <2>2, DropAll
  <1>12. Fds(h)
    BY DEF Fds, CloseAll
  <1>13. f = [w \in Who |-> f[w]] /\ \A w \in Who : w \notin D => f[w] = own[w]
    BY <1>9
  <1>14. But(t, f)
    <2>1. ASSUME NEW x \in Objects PROVE f[Obj(x)] = own[Obj(x)]
      <3>1. Obj(x) \in Who /\ Obj(x) \notin D
        BY <1>8, Names DEF Obj, Walked
      <3> QED BY <1>13, <3>1
    <2>2. ASSUME NEW u \in Threads, NEW i \in 1..2 PROVE f[Hold(u, i)] = own[Hold(u, i)]
      <3>1. Hold(u, i) \in Who /\ Hold(u, i) \notin D
        BY <1>8, Names, Different
      <3> QED BY <1>13, <3>1
    <2>3. ASSUME NEW u \in Threads, NEW i \in Nat, u # t PROVE f[Walked(u, i)] = own[Walked(u, i)]
      <3>1. Walked(u, i) \in Who /\ Walked(u, i) \notin D
        BY <1>8, <2>3, Names, Different
      <3> QED BY <1>13, <3>1
    <2>4. \A u \in Threads : f[New(u)] = own[New(u)]
      BY <1>8, <1>13, Names, Different
    <2>5. \A i \in Nat : f[Left(i)] = own[Left(i)]
      BY <1>8, <1>13, Names, Different
    <2> QED BY <1>13, <2>1, <2>2, <2>3, <2>4, <2>5 DEF But
  <1>15. ASSUME NEW j \in Nat PROVE f[Walked(t, j)] = IF j \in 1..Len(s) THEN s[j] ELSE -1
    <2>0. Walked(t, j) \in Who /\ (Walked(t, j) \in D <=> j \in k..c)
      BY <1>8, Names, Different
    <2>1. CASE j \in k..c
      <3>1. j \notin 1..k - 1
        BY <1>4, <2>1
      <3> QED BY <1>5, <1>9, <2>0, <2>1, <3>1
    <2>2. CASE j \in 1..k - 1
      <3>1. j \notin k..c /\ j \in 1..c
        BY <1>4, <2>2
      <3> QED BY <1>3, <1>5, <1>13, <2>0, <2>2, <3>1, ZenonT(60), SMTT(30)
    <2>3. CASE j \notin k..c /\ j \notin 1..k - 1
      <3>1. j \notin 1..c
        BY <1>4, <2>3
      <3> QED BY <1>3, <1>5, <1>13, <2>0, <2>3, <3>1
    <2> QED BY <2>1, <2>2, <2>3
  <1>16. ASSUME NEW j \in 1..Len(s) PROVE h[s[j]] = l.fds[j + 1]
    <2>1. j \in 1..k - 1 /\ j \in 1..c /\ j + 1 \in 1..k /\ j \in Nat
      BY <1>4, <1>5
    <2>2. s[j] = o[j] /\ o[j] \in HostFds /\ host[o[j]] = th[t].l.fds[j + 1]
      BY <1>3, <1>5, <2>1
    <2>3. f[Walked(t, j)] = s[j] /\ Walked(t, j) \in Who /\ s[j] # -1
      BY <1>15, <2>1, <2>2, Names, Bounds
    <2>4. h[s[j]] # None
      BY <1>11, <2>3, OwnedOpen
    <2>5. h[s[j]] = host[s[j]]
      BY <1>10, <2>2, <2>4
    <2> QED BY <1>7, <2>1, <2>2, <2>5
  <1>17. Len(l.fds) = Len(s) + 1 /\ (k = 1 => s = <<>>)
    <2>1. (k - 1) + 1 = k /\ (k = 1 => k - 1 = 0)
      OBVIOUS
    <2>2. k = 1 => s = <<>>
      BY <1>5, <2>1, Short
    <2> QED BY <1>5, <1>7, <2>1, <2>2
  <1>18. \A n \in HostFds : host[n] # None /\ h[n] # None => h[n] = host[n]
    BY <1>10
  <1>19. Turned(t, l, s, h, f)
    BY <1>5, <1>11, <1>12, <1>14, <1>15, <1>16, <1>17, <1>18 DEF Turned
  <1> QED BY <1>19

\* Descriptors that stay open keep their node.
SameNodes(h, k) == Fds(k) /\ \A n \in HostFds : h[n] # None /\ k[n] # None => k[n] = h[n]

\* A step of a thread that changes neither the table nor the objects nor what it holds.
LEMMA HostOnly ==
  ASSUME IInv, NEW t \in Threads, Alone(t), objs' = objs, entries' = entries, leaked' = leaked,
         SameNodes(host, host'), Accounted(own', host'), Able(th'[t]),
         th'[t].pc = "lookup" => Follows(th'[t], objs', host'),
         \A o \in Objects : Uses(th'[t].held, o) = Uses(th[t].held, o)
  PROVE  IInv'
  <1>0. Shapes
    BY Start
  <1>1. Keeps
    BY DEF Keeps, SameNodes
  <1>2. Shapes'
    BY <1>0 DEF Shapes, Alone, SameNodes, Fds
  <1>3. RefsMatch'
    <2>1. \A u \in Threads : u # t => th'[u].held = th[u].held
      BY DEF Alone
    <2>2. ASSUME NEW o \in Objects
          PROVE  /\ Cardinality(EntriesOf(entries', o)) \in Nat /\ Cardinality(LeakedOf(leaked', o)) \in Nat
                 /\ objs'[o].ref \in Nat
                 /\ objs'[o].ref + Cardinality(EntriesOf(entries, o)) + Cardinality(LeakedOf(leaked, o)) + Uses(th[t].held, o)
                    = objs[o].ref + Cardinality(EntriesOf(entries', o)) + Cardinality(LeakedOf(leaked', o)) + Uses(th'[t].held, o)
      <3>1. Cardinality(EntriesOf(entries, o)) \in Nat /\ Cardinality(LeakedOf(leaked, o)) \in Nat /\ objs[o].ref \in Nat
        BY <1>0, Countable DEF Shapes, ObjectTable
      <3> QED BY <3>1
    <2> QED BY <2>1, <2>2, Rebalance
  <1>4. \A o \in Objects : objs'[o].ref > 0 => objs[o].ref > 0
    OBVIOUS
  <1> QED BY <1>1, <1>2, <1>3, <1>4, Finish

\* The thread q in the middle of a lookup of r.
GoesOn(r, l, s, q) ==
  q = [r EXCEPT !.l = l, !.opened = s, !.pc = IF l.st = "run" THEN "lookup" ELSE "lost"]

\* A lookup that goes on, or fails.
LEMMA TurnKeeps ==
  ASSUME IInv, NEW t \in Threads, th[t].pc = "lookup", NEW l, NEW s, NEW h, NEW f, Turned(t, l, s, h, f),
         l.st # "ok", NEW q, GoesOn(th[t], l, s, q), th' = [th EXCEPT ![t] = q],
         host' = h, objs' = objs, entries' = entries, leaked' = leaked
  PROVE  IInv'
  <1>0. /\ Shapes /\ Able(th[t]) /\ {"pc", "held", "l", "opened", "nfd"} \subseteq DOMAIN th[t]
        /\ th[t].nfd = -1 /\ th[t].held # <<>> /\ th[t].held \in Seq(Leased) /\ Len(th[t].held) <= 2
        /\ Follows(th[t], objs, host)
    BY Start DEF Able
  <1>a. PICK pc : pc = IF l.st = "run" THEN "lookup" ELSE "lost"
    OBVIOUS
  <1>1. q = [th[t] EXCEPT !.l = l, !.opened = s, !.pc = pc]
    BY <1>a DEF GoesOn
  <1>2. /\ q.l = l /\ q.opened = s /\ q.pc = pc /\ q.held = th[t].held /\ q.nfd = -1
        /\ {"pc", "held", "l", "opened", "nfd"} \subseteq DOMAIN q
    BY <1>0, <1>1
  <1>3. th'[t] = q /\ Alone(t)
    BY <1>0, <1>1 DEF Shapes, Alone
  <1>4. SameNodes(host, host') /\ Keeps
    BY DEF SameNodes, Keeps, Turned
  <1>5. OwnIs(own, objs, th, leaked) /\ OwnIs(own', objs', th', leaked')
    BY Owns
  <1>6. But(t, f) /\ Accounted(f, host') /\ \A j \in Nat : f[Walked(t, j)] = IF j \in 1..Len(s) THEN s[j] ELSE -1
    BY DEF Turned
  <1>7. /\ \A o \in Objects : own'[Obj(o)] = own[Obj(o)]
        /\ \A i \in 1..2 : own'[Hold(t, i)] = own[Hold(t, i)]
        /\ own'[New(t)] = own[New(t)]
    <2>1. th'[t].held = th[t].held /\ th'[t].nfd = th[t].nfd
      BY <1>0, <1>2, <1>3
    <2>2. ASSUME NEW o \in Objects PROVE own'[Obj(o)] = own[Obj(o)]
      <3>1. /\ own[Obj(o)] = IF objs[o].ref > 0 THEN objs[o].num ELSE -1
            /\ own'[Obj(o)] = IF objs'[o].ref > 0 THEN objs'[o].num ELSE -1
        BY <1>5 DEF OwnIs
      <3> QED BY <3>1
    <2>3. ASSUME NEW i \in 1..2 PROVE own'[Hold(t, i)] = own[Hold(t, i)]
      <3>1. /\ own[Hold(t, i)] = IF i <= Len(th[t].held) /\ th[t].held[i].fd # objs[th[t].held[i].obj].num
                                 THEN th[t].held[i].fd ELSE -1
            /\ own'[Hold(t, i)] = IF i <= Len(th'[t].held) /\ th'[t].held[i].fd # objs'[th'[t].held[i].obj].num
                                  THEN th'[t].held[i].fd ELSE -1
        BY <1>5 DEF OwnIs
      <3> QED BY <2>1, <3>1
    <2>4. own'[New(t)] = own[New(t)]
      BY <1>5, <2>1 DEF OwnIs
    <2> QED BY <2>2, <2>3, <2>4
  <1>8. \A j \in Nat : own'[Walked(t, j)] = f[Walked(t, j)]
    <2>1. ASSUME NEW j \in Nat PROVE own'[Walked(t, j)] = f[Walked(t, j)]
      <3>1. own'[Walked(t, j)] = IF j \in 1..Len(th'[t].opened) THEN th'[t].opened[j] ELSE -1
        BY <1>5 DEF OwnIs
      <3>2. th'[t].opened = s
        BY <1>2, <1>3
      <3> QED BY <1>6, <3>1, <3>2
    <2> QED BY <2>1
  <1>9. /\ \A o \in Objects : own'[Obj(o)] = f[Obj(o)]
        /\ \A u \in Threads, i \in 1..2 : own'[Hold(u, i)] = f[Hold(u, i)]
        /\ \A u \in Threads, i \in Nat : own'[Walked(u, i)] = f[Walked(u, i)]
        /\ \A u \in Threads : own'[New(u)] = f[New(u)]
        /\ \A i \in Nat : own'[Left(i)] = f[Left(i)]
    <2>1. /\ \A u \in Threads, i \in 1..2 : u # t => own'[Hold(u, i)] = own[Hold(u, i)]
          /\ \A u \in Threads, i \in Nat : u # t => own'[Walked(u, i)] = own[Walked(u, i)]
          /\ \A u \in Threads : u # t => own'[New(u)] = own[New(u)]
          /\ \A i \in Nat : own'[Left(i)] = own[Left(i)]
      BY <1>3, <1>4, Elsewhere
    <2>2. /\ \A o \in Objects : f[Obj(o)] = own[Obj(o)]
          /\ \A u \in Threads, i \in 1..2 : f[Hold(u, i)] = own[Hold(u, i)]
          /\ \A u \in Threads, i \in Nat : u # t => f[Walked(u, i)] = own[Walked(u, i)]
          /\ \A u \in Threads : f[New(u)] = own[New(u)]
          /\ \A i \in Nat : f[Left(i)] = own[Left(i)]
      BY <1>6 DEF But
    <2>3. \A u \in Threads, i \in 1..2 : own'[Hold(u, i)] = f[Hold(u, i)]
      BY <1>7, <2>1, <2>2
    <2>4. ASSUME NEW u \in Threads, NEW i \in Nat PROVE own'[Walked(u, i)] = f[Walked(u, i)]
      BY <1>8, <2>1, <2>2
    <2>5. \A u \in Threads : own'[New(u)] = f[New(u)]
      BY <1>7, <2>1, <2>2
    <2> QED BY <1>7, <2>1, <2>2, <2>3, <2>4, <2>5
  <1>10. own' = f
    <2>1. own' = [w \in Who |-> own'[w]] /\ f = [w \in Who |-> f[w]]
      BY <1>5, <1>6 DEF OwnIs, But
    <2>2. Agree(own', f)
      BY <1>9, <2>1 DEF Agree
    <2> QED BY <2>2, SameOwners, Zenon
  <1>11. Able(q)
    <2>1. /\ IsLookup(l) /\ s \in Seq(HostFds) /\ (pc = "lost" => s = <<>>) /\ pc \in {"lookup", "lost"}
      BY <1>a DEF Turned
    <2> QED BY <1>0, <1>2, <2>1 DEF Able
  <1>12. Follows(q, objs', host')
    <2>1. Len(l.fds) = Len(s) + 1 /\ \A j \in 1..Len(s) : host'[s[j]] = l.fds[j + 1]
      BY DEF Turned
    <2>2. LET last == q.held[Len(q.held)] IN last.fd = objs'[last.obj].num
      BY <1>0, <1>2 DEF Follows
    <2> QED BY <1>2, <2>1, <2>2 DEF Follows
  <1>13. \A o \in Objects : Uses(th'[t].held, o) = Uses(th[t].held, o)
    BY <1>2, <1>3
  <1> QED BY <1>3, <1>4, <1>6, <1>10, <1>11, <1>12, <1>13, HostOnly

\* The last lease of h is on the descriptor b now.
Moved(h, b, k) ==
  h \in Seq(Leased) /\ Len(h) \in 1..2 /\ b \in HostFds /\ k = [h EXCEPT ![Len(h)].fd = b]

\* The objects that are held are the same.
LEMMA MovedHeld ==
  ASSUME NEW h, NEW b, NEW k, Moved(h, b, k)
  PROVE  /\ k \in Seq(Leased) /\ Len(k) = Len(h) /\ k[Len(h)].obj = h[Len(h)].obj /\ k[Len(h)].fd = b
         /\ \A i \in 1..Len(h) : i # Len(h) => k[i] = h[i]
         /\ \A o : Uses(k, o) = Uses(h, o)
  <1>0. h \in Seq(Leased) /\ Len(h) \in 1..2 /\ b \in HostFds /\ k = [h EXCEPT ![Len(h)].fd = b]
    BY DEF Moved
  <1>1. PICK n \in 1..2 : n = Len(h) /\ DOMAIN h = 1..n
    BY <1>0
  <1>2. n \in 1..n /\ n \in Nat
    OBVIOUS
  <1>3. PICK a \in Leased : a = h[n]
    BY <1>0, <1>1, <1>2
  <1>4. PICK c : c = [a EXCEPT !.fd = b]
    OBVIOUS
  <1>5. c \in Leased /\ c.obj = a.obj /\ c.fd = b
    BY <1>0, <1>4 DEF Leased
  <1>6. k = [h EXCEPT ![n] = c]
    BY <1>0, <1>1, <1>3, <1>4
  <1>7. k[n] = c /\ (\A i \in 1..n : i # n => k[i] = h[i]) /\ DOMAIN k = 1..n
    BY <1>1, <1>2, <1>6
  <1>8. k \in Seq(Leased) /\ Len(k) = n
    BY <1>0, <1>1, <1>2, <1>5, <1>6
  <1>9. \A i \in 1..n : k[i].obj = h[i].obj
    BY <1>3, <1>5, <1>7
  <1>10. ASSUME NEW o PROVE Uses(k, o) = Uses(h, o)
    <2>1. n = 1 \/ n = 2
      OBVIOUS
    <2>2. CASE n = 1
      <3>1. k[1].obj = h[1].obj /\ ~(1 >= 2)
        BY <1>9, <2>2
      <3> QED BY <1>1, <1>8, <2>2, <3>1 DEF Uses
    <2>3. CASE n = 2
      <3>1. k[1].obj = h[1].obj /\ k[2].obj = h[2].obj
        BY <1>9, <2>3
      <3> QED BY <1>1, <1>8, <3>1 DEF Uses
    <2> QED BY <2>1, <2>2, <2>3
  <1> QED BY <1>1, <1>3, <1>5, <1>7, <1>8, <1>10

\* Of the c descriptors s all but the last are closed.
Shuts(h, s, c, k) == c = Len(s) /\ k = CloseAll(h, Range(s) \ (IF c = 0 THEN {} ELSE {s[c]}))

\* g says who owns what of k after that.
Shut(t, s, c, h, k, g) ==
  /\ Accounted(g, k) /\ But(t, g) /\ Fds(k)
  /\ \A n \in HostFds : k[n] = h[n] \/ k[n] = None
  /\ \A j \in Nat : g[Walked(t, j)] = IF j = c /\ c > 0 THEN s[c] ELSE -1

\* At the end of a lookup all its directories but the last are closed.
LEMMA TurnedCloses ==
  ASSUME NEW t \in Threads, NEW l, NEW s, NEW h, NEW f, Turned(t, l, s, h, f),
         NEW c \in Nat, NEW k, Shuts(h, s, c, k)
  PROVE  \E g : Shut(t, s, c, h, k, g)
  <1>0. /\ c = Len(s) /\ s \in Seq(HostFds) /\ Accounted(f, h) /\ But(t, f) /\ f = [w \in Who |-> f[w]]
        /\ \A j \in Nat : f[Walked(t, j)] = IF j \in 1..Len(s) THEN s[j] ELSE -1
    BY DEF Turned, But, Shuts
  <1>a. DOMAIN s = 1..c /\ \A j \in 1..c : j \in Nat /\ s[j] \in HostFds
    BY <1>0
  <1>b. \A j \in 1..c : s[j] # -1 /\ f[Walked(t, j)] = s[j] /\ Walked(t, j) \in Who
    <2>1. ASSUME NEW j \in 1..c PROVE s[j] # -1 /\ f[Walked(t, j)] = s[j] /\ Walked(t, j) \in Who
      BY <1>0, <1>a, Bounds, Names
    <2> QED BY <2>1
  <1>1. DOMAIN s = 1..c /\ \A j \in 1..c : j \in Nat /\ s[j] \in HostFds /\ s[j] # -1 /\ f[Walked(t, j)] = s[j] /\ Walked(t, j) \in Who
    BY <1>a, <1>b
  <1>2. \A i, j \in 1..c : s[i] = s[j] => i = j
    <2>1. ASSUME NEW i \in 1..c, NEW j \in 1..c, s[i] = s[j] PROVE i = j
      <3>1. f[Walked(t, i)] = s[i] /\ f[Walked(t, j)] = s[j] /\ Walked(t, i) \in Who /\ Walked(t, j) \in Who /\ s[i] # -1
        BY <1>1
      <3>2. Walked(t, i) = Walked(t, j)
        BY <1>0, <2>1, <3>1 DEF Accounted
      <3> QED BY <3>2, Different
    <2> QED BY <2>1
  <1>3. \A j \in 1..c : s[j] > 2
    <2>1. ASSUME NEW j \in 1..c PROVE s[j] > 2
      <3>0. f[Walked(t, j)] = s[j] /\ Walked(t, j) \in Who
        BY <1>1
      <3>1. s[j] \notin 0..2
        BY <1>0, <3>0, Different DEF Accounted
      <3>2. s[j] \in Nat
        BY <1>1, Bounds
      <3> QED BY <3>1, <3>2
    <2> QED BY <2>1
  <1>4. PICK D \in SUBSET Who : D = {Walked(t, j) : j \in 1..c - 1}
    <2>1. \A j \in 1..c - 1 : j \in Nat
      OBVIOUS
    <2>2. {Walked(t, j) : j \in 1..c - 1} \in SUBSET Who
      BY <2>1, Names
    <2> QED BY <2>2
  <1>5. PICK g : g = [w \in Who |-> IF w \in D THEN -1 ELSE f[w]]
    OBVIOUS
  <1>6. ASSUME NEW n \in HostFds PROVE k[n] = IF n > 2 /\ \E w \in D : f[w] = n THEN None ELSE h[n]
    <2>1. k[n] = IF n \in Range(s) \ (IF c = 0 THEN {} ELSE {s[c]}) THEN None ELSE h[n]
      BY DEF CloseAll, Shuts
    <2>2. n \in Range(s) <=> \E j \in 1..c : s[j] = n
      BY <1>1 DEF Range
    <2>3. n \in Range(s) \ (IF c = 0 THEN {} ELSE {s[c]}) <=> \E j \in 1..c - 1 : s[j] = n
      <3>1. CASE c = 0
        BY <2>2, <3>1
      <3>2. CASE c # 0
        <4>1. c \in 1..c /\ (\A j \in 1..c : j # c => j \in 1..c - 1) /\ \A j \in 1..c - 1 : j \in 1..c /\ j # c
          BY <3>2
        <4>2. ASSUME NEW j \in 1..c - 1, s[j] = n PROVE n \in Range(s) /\ n # s[c]
          BY <1>2, <2>2, <4>1, <4>2
        <4>3. ASSUME n \in Range(s), n # s[c] PROVE \E j \in 1..c - 1 : s[j] = n
          BY <2>2, <4>1, <4>3
        <4> QED BY <3>2, <4>2, <4>3
      <3> QED BY <3>1, <3>2
    <2>4. (n > 2 /\ \E w \in D : f[w] = n) <=> \E j \in 1..c - 1 : s[j] = n
      <3>1. \A j \in 1..c - 1 : f[Walked(t, j)] = s[j] /\ s[j] > 2 /\ Walked(t, j) \in D
        <4>1. \A j \in 1..c - 1 : j \in 1..c
          OBVIOUS
        <4> QED BY <1>1, <1>3, <1>4, <4>1
      <3>2. \A w \in D : \E j \in 1..c - 1 : w = Walked(t, j)
        BY <1>4
      <3>3. ASSUME NEW w \in D, f[w] = n PROVE \E j \in 1..c - 1 : s[j] = n
        BY <3>1, <3>2, <3>3
      <3>4. ASSUME NEW j \in 1..c - 1, s[j] = n PROVE n > 2 /\ \E w \in D : f[w] = n
        BY <3>1, <3>4
      <3> QED BY <3>3, <3>4
    <2> QED BY <2>1, <2>3, <2>4
  <1>7. Accounted(g, k)
    <2>1. \A n \in HostFds : k[n] = IF n > 2 /\ \E w \in D : f[w] = n THEN None ELSE h[n]
      BY <1>6
    <2>2. Drops(f, h, D, g, k)
      BY <1>5, <2>1 DEF Drops
    <2> QED BY <1>0, <2>2, DropAll
  <1>8. g = [w \in Who |-> g[w]] /\ \A w \in Who : w \notin D => g[w] = f[w]
    BY <1>5
  <1>9. But(t, g)
    <2>1. ASSUME NEW x \in Objects PROVE g[Obj(x)] = f[Obj(x)]
      <3>1. Obj(x) \in Who /\ Obj(x) \notin D
        BY <1>4, Names DEF Obj, Walked
      <3> QED BY <1>8, <3>1
    <2>2. ASSUME NEW u \in Threads, NEW i \in 1..2 PROVE g[Hold(u, i)] = f[Hold(u, i)]
      <3>1. Hold(u, i) \in Who /\ Hold(u, i) \notin D
        BY <1>4, Names, Different
      <3> QED BY <1>8, <3>1
    <2>3. ASSUME NEW u \in Threads, NEW i \in Nat, u # t PROVE g[Walked(u, i)] = f[Walked(u, i)]
      <3>1. Walked(u, i) \in Who /\ Walked(u, i) \notin D
        BY <1>4, <2>3, Names, Different
      <3> QED BY <1>8, <3>1
    <2>4. \A u \in Threads : g[New(u)] = f[New(u)]
      BY <1>4, <1>8, Names, Different
    <2>5. \A i \in Nat : g[Left(i)] = f[Left(i)]
      BY <1>4, <1>8, Names, Different
    <2> QED BY <1>0, <1>8, <2>1, <2>2, <2>3, <2>4, <2>5, ZenonT(60), SMTT(30) DEF But
  <1>10. ASSUME NEW j \in Nat PROVE g[Walked(t, j)] = IF j = c /\ c > 0 THEN s[c] ELSE -1
    <2>0. Walked(t, j) \in Who /\ (Walked(t, j) \in D <=> j \in 1..c - 1)
      BY <1>4, Names, Different
    <2>1. CASE j \in 1..c - 1
      <3>1. j # c
        BY <2>1
      <3> QED BY <1>5, <2>0, <2>1, <3>1
    <2>2. CASE j \notin 1..c - 1
      <3>1. j \in 1..c <=> j = c /\ c > 0
        BY <2>2
      <3> QED BY <1>0, <1>8, <2>0, <2>2, <3>1
    <2> QED BY <2>1, <2>2
  <1>11. Fds(k) /\ \A n \in HostFds : k[n] = h[n] \/ k[n] = None
    BY DEF Fds, CloseAll, Shuts
  <1>12. Shut(t, s, c, h, k, g)
    BY <1>7, <1>9, <1>10, <1>11 DEF Shut
  <1> QED BY <1>12

\* The thread q after a lookup of r that ended with the descriptors s.
Finds(r, l, s, q) ==
  /\ {"pc", "held", "l", "opened", "nfd"} \subseteq DOMAIN q
  /\ q.l = l /\ q.opened = <<>> /\ q.pc = "found" /\ q.nfd = r.nfd
  /\ IF s = <<>> THEN q.held = r.held ELSE Moved(r.held, s[Len(s)], q.held)

\* The lease has the last directory from then on.
LEMMA FoundOwns ==
  ASSUME IInv, NEW t \in Threads, th[t].pc = "lookup", NEW l, NEW s, NEW h, NEW f, Turned(t, l, s, h, f),
         NEW q, Finds(th[t], l, s, q), th'[t] = q, Alone(t), objs' = objs, leaked' = leaked,
         NEW c \in Nat, Shuts(h, s, c, host')
  PROVE  SameNodes(host, host') /\ Accounted(own', host')
  <1>0. /\ Shapes /\ Able(th[t]) /\ th[t].nfd = -1 /\ th[t].held # <<>> /\ th[t].held \in Seq(Leased)
        /\ Follows(th[t], objs, host)
    BY Start DEF Able
  <1>1. PICK i \in 1..2 : i = Len(th[t].held) /\ i \in 1..i
    <2>1. Len(th[t].held) \in 0..2 /\ Len(th[t].held) # 0
      BY <1>0, HeldLeases
    <2>2. \A n \in 0..2 : n # 0 => n \in 1..2 /\ n \in 1..n
      OBVIOUS
    <2> QED BY <2>1, <2>2
  <1>2. PICK x \in Objects : x = th[t].held[i].obj /\ objs[x].ref > 0 /\ th[t].held[i].fd = objs[x].num
    <2>1. th[t].held[i].obj \in Objects /\ objs[th[t].held[i].obj].ref > 0
      BY <1>1, Referenced
    <2>2. th[t].held[i].fd = objs[th[t].held[i].obj].num
      BY <1>0, <1>1 DEF Follows
    <2> QED BY <2>1, <2>2
  <1>3. PICK g : /\ Accounted(g, host') /\ But(t, g) /\ Fds(host')
                 /\ \A n \in HostFds : host'[n] = h[n] \/ host'[n] = None
                 /\ \A j \in Nat : g[Walked(t, j)] = IF j = c /\ c > 0 THEN s[c] ELSE -1
    <2>1. \E g : Shut(t, s, c, h, host', g)
      BY TurnedCloses
    <2> QED BY <2>1 DEF Shut
  <1>4. SameNodes(host, host') /\ Keeps
    <2>1. \A n \in HostFds : host[n] # None /\ h[n] # None => h[n] = host[n]
      BY DEF Turned
    <2>2. \A n \in HostFds : host[n] # None /\ host'[n] # None => host'[n] = host[n]
      BY <1>3, <2>1
    <2> QED BY <1>3, <2>2 DEF SameNodes, Keeps
  <1>5. OwnIs(own, objs, th, leaked) /\ OwnIs(own', objs', th', leaked')
    BY Owns
  <1>6. own[Hold(t, i)] = -1 /\ own[Obj(x)] = objs[x].num
    <2>1. /\ own[Hold(t, i)] = IF i <= Len(th[t].held) /\ th[t].held[i].fd # objs[th[t].held[i].obj].num
                               THEN th[t].held[i].fd ELSE -1
          /\ own[Obj(x)] = IF objs[x].ref > 0 THEN objs[x].num ELSE -1
      BY <1>5 DEF OwnIs
    <2> QED BY <1>2, <2>1
  <1>7. q.opened = <<>> /\ q.nfd = -1 /\ (c = 0 => q.held = th[t].held) /\ (c # 0 => Moved(th[t].held, s[c], q.held))
    <2>1. s \in Seq(HostFds)
      BY DEF Turned
    <2>2. c = Len(s)
      BY DEF Shuts
    <2>3. c = 0 <=> s = <<>>
      BY <2>1, <2>2, Short
    <2> QED BY <1>0, <2>2, <2>3 DEF Finds
  <1>8. /\ \A o \in Objects : own'[Obj(o)] = g[Obj(o)]
        /\ \A u \in Threads, j \in 1..2 : u # t => own'[Hold(u, j)] = g[Hold(u, j)]
        /\ \A u \in Threads, j \in Nat : u # t => own'[Walked(u, j)] = g[Walked(u, j)]
        /\ \A u \in Threads : own'[New(u)] = g[New(u)]
        /\ \A j \in Nat : own'[Left(j)] = g[Left(j)]
        /\ g = [w \in Who |-> g[w]] /\ g[Obj(x)] = own[Obj(x)]
        /\ \A j \in 1..2 : g[Hold(t, j)] = own[Hold(t, j)]
    <2>1. /\ \A u \in Threads, j \in 1..2 : u # t => own'[Hold(u, j)] = own[Hold(u, j)]
          /\ \A u \in Threads, j \in Nat : u # t => own'[Walked(u, j)] = own[Walked(u, j)]
          /\ \A u \in Threads : u # t => own'[New(u)] = own[New(u)]
          /\ \A j \in Nat : own'[Left(j)] = own[Left(j)]
      BY <1>4, Elsewhere
    <2>2. /\ \A o \in Objects : g[Obj(o)] = own[Obj(o)]
          /\ \A u \in Threads, j \in 1..2 : g[Hold(u, j)] = own[Hold(u, j)]
          /\ \A u \in Threads, j \in Nat : u # t => g[Walked(u, j)] = own[Walked(u, j)]
          /\ \A u \in Threads : g[New(u)] = own[New(u)]
          /\ \A j \in Nat : g[Left(j)] = own[Left(j)]
          /\ g = [w \in Who |-> g[w]]
      BY <1>3 DEF But
    <2>3. own'[New(t)] = own[New(t)]
      BY <1>0, <1>5, <1>7 DEF OwnIs
    <2>4. ASSUME NEW o \in Objects PROVE own'[Obj(o)] = own[Obj(o)]
      <3>1. /\ own[Obj(o)] = IF objs[o].ref > 0 THEN objs[o].num ELSE -1
            /\ own'[Obj(o)] = IF objs'[o].ref > 0 THEN objs'[o].num ELSE -1
        BY <1>5 DEF OwnIs
      <3> QED BY <3>1
    <2>5. \A u \in Threads : own'[New(u)] = g[New(u)]
      BY <2>1, <2>2, <2>3
    <2> QED BY <2>1, <2>2, <2>4, <2>5, SMTT(30), ZenonT(30)
  <1>9. ASSUME NEW j \in Nat PROVE own'[Walked(t, j)] = -1
    <2>1. own'[Walked(t, j)] = IF j \in 1..Len(th'[t].opened) THEN th'[t].opened[j] ELSE -1
      BY <1>5 DEF OwnIs
    <2>2. th'[t].opened = <<>> /\ j \notin 1..Len(<<>>)
      BY <1>7
    <2> QED BY <2>1, <2>2
  <1>10. own' = [w \in Who |-> own'[w]]
    BY <1>5 DEF OwnIs
  <1>11. CASE c = 0
    <2>1. \A j \in Nat : g[Walked(t, j)] = -1
      BY <1>3, <1>11
    <2>2. ASSUME NEW j \in 1..2 PROVE own'[Hold(t, j)] = own[Hold(t, j)]
      <3>1. th'[t].held = th[t].held
        BY <1>7, <1>11
      <3>2. /\ own[Hold(t, j)] = IF j <= Len(th[t].held) /\ th[t].held[j].fd # objs[th[t].held[j].obj].num
                                 THEN th[t].held[j].fd ELSE -1
            /\ own'[Hold(t, j)] = IF j <= Len(th'[t].held) /\ th'[t].held[j].fd # objs'[th'[t].held[j].obj].num
                                  THEN th'[t].held[j].fd ELSE -1
        BY <1>5 DEF OwnIs
      <3> QED BY <3>1, <3>2
    <2>3. ASSUME NEW u \in Threads, NEW j \in 1..2 PROVE own'[Hold(u, j)] = g[Hold(u, j)]
      BY <1>8, <2>2
    <2>4. ASSUME NEW u \in Threads, NEW j \in Nat PROVE own'[Walked(u, j)] = g[Walked(u, j)]
      BY <1>8, <1>9, <2>1
    <2>5. own' = g
      <3>1. Agree(own', g)
        BY <1>8, <1>10, <2>3, <2>4 DEF Agree
      <3> QED BY <3>1, SameOwners, Zenon
    <2> QED BY <1>3, <1>4, <2>5
  <1>12. CASE c # 0
    <2>1. PICK v \in Who : v = Hold(t, i)
      BY Names
    <2>2. PICK w \in Who : w = Walked(t, c)
      BY Names
    <2>3. v # w /\ g[v] = -1 /\ g[w] = s[c] /\ \A o \in Objects : w # Obj(o)
      <3>1. v # w
        BY <2>1, <2>2, Different
      <3>2. g[v] = -1
        BY <1>6, <1>8, <2>1
      <3>3. g[w] = s[c]
        BY <1>3, <1>12, <2>2
      <3> QED BY <2>2, <3>1, <3>2, <3>3 DEF Obj, Walked
    <2>4. PICK e : e = [g EXCEPT ![v] = g[w], ![w] = -1]
      OBVIOUS
    <2>5. Accounted(e, host')
      BY <1>3, <2>3, <2>4, Move
    <2>6. /\ e = [z \in Who |-> e[z]] /\ e[v] = s[c] /\ e[w] = -1
          /\ \A z \in Who : z # v /\ z # w => e[z] = g[z]
      BY <1>8, <2>3, <2>4
    <2>7. s[c] # objs[x].num
      <3>1. g[Obj(x)] = objs[x].num /\ Obj(x) \in Who /\ objs[x].num # -1 /\ w # Obj(x)
        BY <1>0, <1>6, <1>8, <2>3, Names, Bounds DEF Shapes, ObjectTable
      <3> QED BY <1>3, <2>3, <3>1 DEF Accounted
    <2>8. ASSUME NEW j \in 1..2 PROVE own'[Hold(t, j)] = e[Hold(t, j)]
      <3>0. own'[Hold(t, j)] = IF j <= Len(th'[t].held) /\ th'[t].held[j].fd # objs'[th'[t].held[j].obj].num
                               THEN th'[t].held[j].fd ELSE -1
        BY <1>5 DEF OwnIs
      <3>1. PICK k : k = th'[t].held /\ Moved(th[t].held, s[c], k)
        BY <1>7, <1>12
      <3>2. Len(k) = i /\ k[i].obj = x /\ k[i].fd = s[c] /\ \A m \in 1..i : m # i => k[m] = th[t].held[m]
        BY <1>1, <1>2, <3>1, MovedHeld
      <3>3. CASE j = i
        <4>1. own'[Hold(t, j)] = s[c]
          BY <2>7, <3>0, <3>1, <3>2, <3>3
        <4> QED BY <2>1, <2>6, <3>3, <4>1
      <3>4. CASE j # i
        <4>1. Hold(t, j) \in Who /\ Hold(t, j) # v /\ Hold(t, j) # w
          BY <2>1, <2>2, <3>4, Names, Different
        <4>2. e[Hold(t, j)] = own[Hold(t, j)]
          BY <1>8, <2>6, <4>1
        <4>3. own[Hold(t, j)] = IF j <= Len(th[t].held) /\ th[t].held[j].fd # objs[th[t].held[j].obj].num
                               THEN th[t].held[j].fd ELSE -1
          BY <1>5 DEF OwnIs
        <4>4. j <= i => j \in 1..i /\ k[j] = th[t].held[j]
          BY <3>2, <3>4
        <4> QED BY <1>1, <3>0, <3>1, <3>2, <4>2, <4>3, <4>4
      <3> QED BY <3>3, <3>4
    <2>9. ASSUME NEW j \in Nat PROVE own'[Walked(t, j)] = e[Walked(t, j)]
      <3>1. CASE j = c
        BY <1>9, <2>2, <2>6, <3>1
      <3>2. CASE j # c
        <4>1. Walked(t, j) \in Who /\ Walked(t, j) # v /\ Walked(t, j) # w
          BY <2>1, <2>2, <3>2, Names, Different
        <4>2. e[Walked(t, j)] = -1
          BY <1>3, <2>6, <3>2, <4>1
        <4> QED BY <1>9, <4>2
      <3> QED BY <3>1, <3>2
    <2>10. ASSUME NEW o \in Objects PROVE own'[Obj(o)] = e[Obj(o)]
      <3>1. Obj(o) \in Who /\ Obj(o) # v /\ Obj(o) # w
        BY <2>1, <2>2, Names DEF Obj, Hold, Walked
      <3> QED BY <1>8, <2>6, <3>1
    <2>11. ASSUME NEW u \in Threads, NEW j \in 1..2, u # t PROVE own'[Hold(u, j)] = e[Hold(u, j)]
      <3>1. Hold(u, j) \in Who /\ Hold(u, j) # v /\ Hold(u, j) # w
        BY <2>1, <2>2, <2>11, Names, Different
      <3> QED BY <1>8, <2>6, <2>11, <3>1
    <2>12. ASSUME NEW u \in Threads, NEW j \in Nat, u # t PROVE own'[Walked(u, j)] = e[Walked(u, j)]
      <3>1. Walked(u, j) \in Who /\ Walked(u, j) # v /\ Walked(u, j) # w
        BY <2>1, <2>2, <2>12, Names, Different
      <3> QED BY <1>8, <2>6, <2>12, <3>1
    <2>13. ASSUME NEW u \in Threads PROVE own'[New(u)] = e[New(u)]
      <3>1. New(u) \in Who /\ New(u) # v /\ New(u) # w
        BY <2>1, <2>2, Names, Different
      <3> QED BY <1>8, <2>6, <3>1
    <2>14. ASSUME NEW j \in Nat PROVE own'[Left(j)] = e[Left(j)]
      <3>1. Left(j) \in Who /\ Left(j) # v /\ Left(j) # w
        BY <2>1, <2>2, Names, Different
      <3> QED BY <1>8, <2>6, <3>1
    <2>15. \A u \in Threads, j \in 1..2 : own'[Hold(u, j)] = e[Hold(u, j)]
      BY <2>8, <2>11
    <2>16. \A u \in Threads, j \in Nat : own'[Walked(u, j)] = e[Walked(u, j)]
      BY <2>9, <2>12
    <2>17. own' = e
      <3>1. Agree(own', e)
        BY <1>10, <2>6, <2>10, <2>13, <2>14, <2>15, <2>16 DEF Agree
      <3> QED BY <3>1, SameOwners, Zenon
    <2> QED BY <1>4, <2>5, <2>17
  <1> QED BY <1>11, <1>12

\* A lookup that ends.
LEMMA FoundKeeps ==
  ASSUME IInv, NEW t \in Threads, th[t].pc = "lookup", NEW l, NEW s, NEW h, NEW f, Turned(t, l, s, h, f),
         NEW q, Finds(th[t], l, s, q), th' = [th EXCEPT ![t] = q], objs' = objs, entries' = entries, leaked' = leaked,
         NEW c \in Nat, Shuts(h, s, c, host')
  PROVE  IInv'
  <1>0. /\ Shapes /\ Able(th[t]) /\ th[t].nfd = -1 /\ th[t].held # <<>> /\ th[t].held \in Seq(Leased)
        /\ Len(th[t].held) <= 2
    BY Start DEF Able
  <1>1. th'[t] = q /\ Alone(t)
    BY <1>0 DEF Shapes, Alone
  <1>2. SameNodes(host, host') /\ Accounted(own', host')
    BY <1>1, FoundOwns
  <1>3. /\ q.held \in Seq(Leased) /\ Len(q.held) <= 2 /\ q.held # <<>>
        /\ \A o \in Objects : Uses(q.held, o) = Uses(th[t].held, o)
    <2>1. CASE s = <<>>
      BY <1>0, <2>1 DEF Finds
    <2>2. CASE s # <<>>
      <3>1. PICK k : k = q.held /\ Moved(th[t].held, s[Len(s)], k)
        BY <2>2 DEF Finds
      <3>2. k \in Seq(Leased) /\ Len(k) = Len(th[t].held) /\ \A o : Uses(k, o) = Uses(th[t].held, o)
        BY <3>1, MovedHeld
      <3>3. Len(th[t].held) # 0
        BY <1>0, HeldLeases
      <3>4. k # <<>>
        BY ONLY <3>2, <3>3, Short
      <3> QED BY <1>0, <3>1, <3>2, <3>4
    <2> QED BY <2>1, <2>2
  <1>4. Able(q) /\ q.pc # "lookup"
    <2>1. IsLookup(l) /\ <<>> \in Seq(HostFds)
      BY DEF Turned
    <2> QED BY <1>0, <1>3, <2>1 DEF Able, Finds
  <1> QED BY <1>1, <1>2, <1>3, <1>4, HostOnly

\* What a turn of the loop does to the directories.
LEMMA ResolveTurns ==
  ASSUME IInv, NEW t \in Threads, th[t].pc = "lookup", th[t].l.st = "run",
         NEW step, step = LookupStep(th[t].l, fs),
         NEW down \in BOOLEAN, down <=> Len(step.fds) > Len(th[t].l.fds),
         NEW full \in BOOLEAN, full <=> down /\ \A n \in HostFds : host[n] # None,
         NEW l, l = IF full THEN Failed(th[t].l, "ENFILE") ELSE step,
         NEW s, s = IF down /\ ~full THEN Append(th[t].opened, FreeHost(host)) ELSE SubSeq(th[t].opened, 1, Len(l.fds) - 1),
         NEW h, h = IF down /\ ~full THEN HostOpen(host, Here(l)) ELSE CloseAll(host, Range(th[t].opened) \ Range(s))
  PROVE  \E f : Turned(t, l, s, h, f)
  <1>0. PICK a : a = th[t].l /\ IsLookup(a) /\ a.st = "run"
    BY Start DEF Able
  <1>1. IsLookup(step) /\ Turns(a, step) /\ LookupRecord(a)
    BY <1>0, LookupStepFds DEF IsLookup
  <1>2. PICK S : a.fds \in Seq(S) /\ Len(a.fds) \in Nat /\ Len(a.fds) >= 1
    <2>1. PICK S : a.fds \in Seq(S)
      BY <1>0 DEF IsLookup
    <2>2. Len(a.fds) \in Nat /\ Len(a.fds) # 0
      BY <1>0, <2>1, Short DEF IsLookup
    <2> QED BY <2>1, <2>2
  <1>3. Len(<<a.fds[1]>>) = 1
    OBVIOUS
  <1>4. CASE down /\ ~full
    <2>1. l = step /\ Len(step.fds) > Len(a.fds)
      BY <1>0, <1>4
    <2>2. PICK n : n # None /\ step.fds = Append(a.fds, n)
      <3>1. ASSUME NEW k \in 1..Len(a.fds), step.fds = SubSeq(a.fds, 1, k) PROVE FALSE
        <4>1. Len(step.fds) = k /\ k <= Len(a.fds) /\ k \in Nat
          BY <1>2, <3>1
        <4> QED BY <1>2, <2>1, <4>1
      <3> QED BY <1>1, <3>1 DEF Turns
    <2>3. Len(step.fds) = Len(a.fds) + 1 /\ step.fds[Len(step.fds)] = n
      <3>1. a.fds \in Seq(S \cup {n}) /\ n \in S \cup {n}
        BY <1>2, SMTT(30), ZenonT(30)
      <3> QED BY <2>2, <3>1, AppendProperties
    <2>4. l.st \in {"run", "ok"}
      <3>1. step.fds # <<a.fds[1]>>
        BY <1>2, <1>3, <2>3
      <3> QED BY <1>0, <1>1, <2>1, <3>1 DEF Turns
    <2>5. PICK m \in HostFds : m = FreeHost(host) /\ host[m] = None
      BY <1>4, FreeHostIs
    <2>6. s = Append(th[t].opened, m) /\ h = [host EXCEPT ![m] = n]
      BY <1>4, <2>1, <2>3, <2>5 DEF HostOpen, Here
    <2>7. IsLookup(l) /\ l.fds = Append(th[t].l.fds, n)
      BY <1>0, <1>1, <2>1, <2>2, SMTT(30), ZenonT(30)
    <2> QED BY <2>2, <2>4, <2>5, <2>6, <2>7, TurnDown
  <1>5. CASE ~(down /\ ~full)
    <2>1. s = SubSeq(th[t].opened, 1, Len(l.fds) - 1) /\ h = CloseAll(host, Range(th[t].opened) \ Range(s))
      BY <1>5
    <2>2. PICK k \in 1..Len(a.fds) : l.fds = SubSeq(a.fds, 1, k) /\ IsLookup(l) /\ (l.st \in {"run", "ok"} \/ k = 1)
      <3>1. CASE full
        <4>1. LookupRecord(l) /\ l.fds = <<a.fds[1]>>
          BY <1>0, <1>1, <3>1, FailedFds
        <4>2. 1 \in 1..Len(a.fds) /\ SubSeq(a.fds, 1, 1) \in Seq(S) /\ Len(SubSeq(a.fds, 1, 1)) = 1 /\ SubSeq(a.fds, 1, 1)[1] = a.fds[1]
          BY <1>2
        <4>3. SubSeq(a.fds, 1, 1) = <<a.fds[1]>> /\ SubSeq(a.fds, 1, 1) # <<>>
          <5>1. PICK y : y = a.fds[1]
            OBVIOUS
          <5>2. PICK z \in Seq(S) : z = SubSeq(a.fds, 1, 1) /\ Len(z) = 1 /\ z[1] = y
            BY <4>2, <5>1
          <5>3. z = <<>> <=> Len(z) = 0
            BY Short
          <5>4. z = <<y>> <=> Len(z) = 1 /\ z[1] = y
            BY Short
          <5> QED BY <5>1, <5>2, <5>3, <5>4
        <4>4. IsLookup(l)
          BY <4>1, <4>2, <4>3 DEF IsLookup
        <4> QED BY <4>1, <4>2, <4>3, <4>4
      <3>2. CASE ~full
        <4>1. l = step /\ ~(Len(step.fds) > Len(a.fds))
          BY <1>0, <1>5, <3>2
        <4>2. ASSUME NEW n, step.fds = Append(a.fds, n) PROVE FALSE
          <5>1. a.fds \in Seq(S \cup {n}) /\ n \in S \cup {n}
            BY <1>2
          <5>2. Len(step.fds) = Len(a.fds) + 1
            BY <4>2, <5>1, AppendProperties
          <5> QED BY <1>2, <4>1, <5>2
        <4>3. PICK k \in 1..Len(a.fds) : step.fds = SubSeq(a.fds, 1, k)
          BY <1>1, <4>2 DEF Turns
        <4>4. Len(step.fds) = k
          BY <1>2, <4>3
        <4>5. step.st \in {"run", "ok"} \/ k = 1
          BY <1>0, <1>1, <1>3, <4>4 DEF Turns
        <4> QED BY <1>1, <4>1, <4>3, <4>5
      <3> QED BY <3>1, <3>2
    <2>3. Len(l.fds) = k
      BY <1>2, <2>2, SMTT(30), ZenonT(30)
    <2>4. k \in 1..Len(th[t].l.fds) /\ l.fds = SubSeq(th[t].l.fds, 1, k) /\ s = SubSeq(th[t].opened, 1, k - 1)
      BY <1>0, <2>1, <2>2, <2>3
    <2> QED BY <2>1, <2>2, <2>4, TurnUp
  <1> QED BY <1>4, <1>5

\* One turn of the loop of path_get, and its end.
LEMMA ResolveKeeps ==
  ASSUME IInv, NEW t \in Threads, Resolve(t)
  PROVE  IInv'
  <1>0. /\ Shapes /\ Able(th[t]) /\ {"pc", "held", "l", "opened", "nfd"} \subseteq DOMAIN th[t]
        /\ th[t].held \in Seq(Leased)
    BY Start DEF Able
  <1>1. PICK step : step = LookupStep(th[t].l, fs)
    OBVIOUS
  <1>2. PICK down \in BOOLEAN : down <=> Len(step.fds) > Len(th[t].l.fds)
    OBVIOUS
  <1>3. PICK full \in BOOLEAN : full <=> down /\ \A n \in HostFds : host[n] # None
    OBVIOUS
  <1>4. PICK l : l = IF full THEN Failed(th[t].l, "ENFILE") ELSE step
    OBVIOUS
  <1>5. PICK s : s = IF down /\ ~full THEN Append(th[t].opened, FreeHost(host)) ELSE SubSeq(th[t].opened, 1, Len(l.fds) - 1)
    OBVIOUS
  <1>6. PICK h : h = IF down /\ ~full THEN HostOpen(host, Here(l)) ELSE CloseAll(host, Range(th[t].opened) \ Range(s))
    OBVIOUS
  <1>9. /\ th[t].pc = "lookup" /\ th[t].l.st = "run" /\ Walk(t, l, s, h)
        /\ objs' = objs /\ entries' = entries /\ leaked' = leaked
    BY <1>1, <1>2, <1>3, <1>4, <1>5, <1>6 DEF Resolve, table, Same
  <1>7. PICK i \in 1..2 : i = Len(th[t].held) /\ i \in 1..Len(th[t].held) /\ DOMAIN th[t].held = 1..Len(th[t].held)
    <2>1. Len(th[t].held) \in 0..2 /\ Len(th[t].held) # 0 /\ DOMAIN th[t].held = 1..Len(th[t].held)
      BY <1>0, <1>9, HeldLeases DEF Able
    <2>2. \A n \in 0..2 : n # 0 => n \in 1..2 /\ n \in 1..n
      OBVIOUS
    <2> QED BY <2>1, <2>2
  <1>8. PICK q : q = [th[t] EXCEPT !.l = l, !.opened = <<>>, !.pc = "found",
                                   !.held[i].fd = IF Len(s) = 0 THEN @ ELSE s[Len(s)]]
    OBVIOUS
  <1>10. PICK f : Turned(t, l, s, h, f)
    BY <1>1, <1>2, <1>3, <1>4, <1>5, <1>6, <1>9, ResolveTurns
  <1>11. PICK c \in Nat : c = Len(s) /\ (c = 0 <=> s = <<>>) /\ s \in Seq(HostFds)
    <2>1. s \in Seq(HostFds)
      BY <1>10 DEF Turned
    <2>2. Len(s) \in Nat /\ (Len(s) = 0 <=> s = <<>>)
      BY <2>1, Short
    <2> QED BY <2>1, <2>2
  <1>12. CASE l.st = "ok"
    <2>1. i \in 1..2 /\ i \in 1..Len(th[t].held) /\ DOMAIN th[t].held = 1..Len(th[t].held)
      BY <1>7
    <2>2. PICK a \in Leased : a = th[t].held[i]
      BY <1>0, <2>1
    <2>3. PICK b : b = IF c = 0 THEN a.fd ELSE s[c]
      OBVIOUS
    <2>4. PICK k : k = [th[t].held EXCEPT ![i] = [a EXCEPT !.fd = b]]
      OBVIOUS
    <2>5. /\ q.l = l /\ q.opened = <<>> /\ q.pc = "found" /\ q.nfd = th[t].nfd
          /\ {"pc", "held", "l", "opened", "nfd"} \subseteq DOMAIN q
          /\ q.held = k
      BY <1>0, <1>8, <1>11, <2>1, <2>2, <2>3, <2>4
    <2>6. IF s = <<>> THEN k = th[t].held ELSE Moved(th[t].held, s[Len(s)], k)
      <3>1. CASE s = <<>>
        <4>1. [a EXCEPT !.fd = b] = a
          BY <1>11, <2>3, <3>1 DEF Leased
        <4> QED BY <1>0, <2>1, <2>2, <2>4, <3>1, <4>1
      <3>2. CASE s # <<>>
        <4>1. c # 0 /\ c \in 1..Len(s)
          BY <1>11, <3>2
        <4>2. b = s[c] /\ s[c] \in HostFds
          BY <1>11, <2>3, <4>1
        <4>3. k = [th[t].held EXCEPT ![i].fd = s[c]]
          BY <2>2, <2>4, <4>2
        <4> QED BY <1>0, <1>7, <1>11, <2>1, <3>2, <4>2, <4>3 DEF Moved
      <3> QED BY <3>1, <3>2
    <2>7. Finds(th[t], l, s, q)
      BY <2>5, <2>6 DEF Finds
    <2>8. Shuts(h, s, c, host')
      BY <1>9, <1>11, <1>12 DEF Shuts, Walk
    <2>9. th' = [th EXCEPT ![t] = q]
      BY <1>7, <1>8, <1>9, <1>12 DEF Walk
    <2> QED BY <1>9, <1>10, <2>7, <2>8, <2>9, FoundKeeps
  <1>13. CASE l.st # "ok"
    <2>1. PICK p : GoesOn(th[t], l, s, p)
      BY DEF GoesOn
    <2>2. th' = [th EXCEPT ![t] = p] /\ host' = h
      BY <1>9, <1>13, <2>1 DEF Walk, GoesOn
    <2> QED BY <1>9, <1>10, <1>13, <2>1, <2>2, TurnKeeps
  <1> QED BY <1>12, <1>13

-----------------------------------------------------------------------------
(* Leases that are left behind.                                            *)

\* s is the list k, of length m, with the leases h behind it.
Joined(k, h, m, s) ==
  /\ s \in Seq(Leased)
  /\ \A j \in 1..m : s[j] = k[j] /\ j \in 1..Len(s)
  /\ s[m + 1] = h[1] /\ m + 1 \in 1..Len(s)
  /\ m + 2 \in 1..Len(s) <=> 2 <= Len(h)
  /\ 2 <= Len(h) => s[m + 2] = h[2]
  /\ \A j \in Nat : j \notin 1..m /\ j # m + 1 /\ j # m + 2 => j \notin 1..Len(s)

\* The list of leases left behind has two more places at most.
LEMMA LeftBehind ==
  ASSUME NEW k \in Seq(Leased), NEW h \in Seq(Leased), Len(h) \in 1..2, NEW m \in Nat, m = Len(k)
  PROVE  Joined(k, h, m, k \o h)
  <1>1. PICK n \in 1..2 : n = Len(h) /\ DOMAIN h = 1..n
    OBVIOUS
  <1>2. PICK s : s = k \o h
    OBVIOUS
  <1>3. /\ s \in Seq(Leased) /\ Len(s) = m + n
        /\ \A j \in 1..m : s[j] = k[j]
        /\ \A j \in 1..n : s[m + j] = h[j]
    BY <1>1, <1>2
  <1>4. 1 \in 1..n /\ (2 <= n => 2 \in 1..n) /\ m + 1 \in 1..m + n /\ (m + 2 \in 1..m + n <=> 2 <= n)
    OBVIOUS
  <1>5. \A j \in Nat : j \notin 1..m /\ j # m + 1 /\ j # m + 2 => j \notin 1..m + n
    OBVIOUS
  <1>6. \A j \in 1..m : j \in 1..m + n
    OBVIOUS
  <1>7. Joined(k, h, m, s)
    BY <1>1, <1>3, <1>4, <1>5, <1>6 DEF Joined
  <1> QED BY <1>2, <1>7

\* validate_path refuses: the leases are left behind with what they own.
LEMMA ValidateRefusesKeeps ==
  ASSUME IInv, NEW t \in Threads, ValidateRefuses(t)
  PROVE  IInv'
  <1>0. /\ Shapes /\ Able(th[t]) /\ th[t].nfd = -1 /\ th[t].opened = <<>> /\ th[t].held \in Seq(Leased)
        /\ leaked \in Seq(Leased) /\ Accounted(own, host)
        /\ leaked' = leaked \o th[t].held /\ th' = [th EXCEPT ![t] = Idle]
        /\ entries' = entries /\ objs' = objs /\ host' = host
    BY Start DEF ValidateRefuses, Able, Shapes, table
  <1>1. th'[t] = Idle /\ Alone(t)
    BY <1>0 DEF Shapes, Alone
  <1>2. /\ th'[t].held = <<>> /\ th'[t].opened = <<>> /\ th'[t].nfd = -1 /\ Able(th'[t]) /\ th'[t].pc # "lookup"
    BY <1>1, IdleAble
  <1>3. Keeps
    BY <1>0 DEF Keeps
  <1>4. Len(th[t].held) \in 1..2
    <2>1. Len(th[t].held) \in 0..2 /\ Len(th[t].held) # 0
      BY <1>0, HeldLeases DEF Able, ValidateRefuses
    <2>2. \A n \in 0..2 : n # 0 => n \in 1..2
      OBVIOUS
    <2> QED BY <2>1, <2>2
  <1>5. PICK m \in Nat : m = Len(leaked)
    BY <1>0
  <1>6. PICK h \in Seq(Leased) : h = th[t].held /\ Len(h) \in 1..2
    BY <1>0, <1>4
  <1>7. PICK k : k = leaked' /\ k = leaked \o h
    BY <1>0, <1>6
  <1>8. /\ k \in Seq(Leased)
        /\ \A j \in 1..m : k[j] = leaked[j] /\ j \in 1..Len(k)
        /\ k[m + 1] = h[1] /\ m + 1 \in 1..Len(k)
        /\ m + 2 \in 1..Len(k) <=> 2 <= Len(h)
        /\ 2 <= Len(h) => k[m + 2] = h[2]
        /\ \A j \in Nat : j \notin 1..m /\ j # m + 1 /\ j # m + 2 => j \notin 1..Len(k)
    <2>1. PICK L \in Seq(Leased) : L = leaked /\ m = Len(L) /\ k = L \o h
      BY <1>0, <1>5, <1>7
    <2>2. Len(h) \in 1..2
      BY <1>6
    <2>3. Joined(L, h, m, k)
      BY <2>1, <2>2, LeftBehind
    <2> QED BY <2>1, <2>3 DEF Joined
  <1>9. OwnIs(own, objs, th, leaked) /\ OwnIs(own', objs', th', leaked')
    BY Owns
  <1>10. /\ \A i \in 1..2 : own[Hold(t, i)] = IF i <= Len(h) /\ h[i].fd # objs[h[i].obj].num THEN h[i].fd ELSE -1
         /\ \A j \in Nat : own[Left(j)] = IF j \in 1..m /\ leaked[j].fd # objs[leaked[j].obj].num THEN leaked[j].fd ELSE -1
         /\ \A j \in Nat : own'[Left(j)] = IF j \in 1..Len(k) /\ k[j].fd # objs[k[j].obj].num THEN k[j].fd ELSE -1
    <2>1. ASSUME NEW i \in 1..2 PROVE own[Hold(t, i)] = IF i <= Len(h) /\ h[i].fd # objs[h[i].obj].num THEN h[i].fd ELSE -1
      BY <1>6, <1>9, ZenonT(60), SMTT(30) DEF OwnIs
    <2>2. ASSUME NEW j \in Nat
          PROVE  /\ own[Left(j)] = IF j \in 1..m /\ leaked[j].fd # objs[leaked[j].obj].num THEN leaked[j].fd ELSE -1
                 /\ own'[Left(j)] = IF j \in 1..Len(k) /\ k[j].fd # objs[k[j].obj].num THEN k[j].fd ELSE -1
      <3>1. own[Left(j)] = IF j \in 1..Len(leaked) /\ leaked[j].fd # objs[leaked[j].obj].num THEN leaked[j].fd ELSE -1
        BY <1>9 DEF OwnIs
      <3>2. own'[Left(j)] = IF j \in 1..Len(leaked') /\ leaked'[j].fd # objs'[leaked'[j].obj].num THEN leaked'[j].fd ELSE -1
        BY <1>9 DEF OwnIs
      <3> QED BY <1>0, <1>5, <1>7, <3>1, <3>2
    <2> QED BY <2>1, <2>2
  <1>11. PICK a \in Who : a = Left(m + 1)
    BY Names
  <1>12. PICK b \in Who : b = Left(m + 2)
    BY Names
  <1>13. PICK v \in Who : v = Hold(t, 1)
    <2>1. 1 \in 1..2
      OBVIOUS
    <2> QED BY <2>1, Names
  <1>14. PICK w \in Who : w = Hold(t, 2)
    <2>1. 2 \in 1..2
      OBVIOUS
    <2> QED BY <2>1, Names
  <1>15. /\ a # b /\ a # v /\ a # w /\ b # v /\ b # w /\ v # w
         /\ \A o \in Objects : v # Obj(o) /\ w # Obj(o)
    <2>1. a # b
      <3>1. m + 1 # m + 2
        OBVIOUS
      <3> QED BY <1>11, <1>12, <3>1, Different
    <2>2. a # v /\ a # w /\ b # v /\ b # w
      BY <1>11, <1>12, <1>13, <1>14, Different
    <2>3. v # w
      BY <1>13, <1>14 DEF Hold
    <2>4. \A o \in Objects : v # Obj(o) /\ w # Obj(o)
      BY <1>13, <1>14 DEF Obj, Hold
    <2> QED BY <2>1, <2>2, <2>3, <2>4
  <1>16. own[a] = -1 /\ own[b] = -1
    <2>1. m + 1 \in Nat /\ m + 1 \notin 1..m /\ m + 2 \in Nat /\ m + 2 \notin 1..m
      OBVIOUS
    <2> QED BY <1>10, <1>11, <1>12, <2>1
  <1>17. PICK f : f = [own EXCEPT ![a] = own[v], ![v] = -1]
    OBVIOUS
  <1>18. Accounted(f, host)
    BY <1>0, <1>15, <1>16, <1>17, Move
  <1>19. own = [z \in Who |-> own[z]] /\ own' = [z \in Who |-> own'[z]]
    BY <1>9 DEF OwnIs
  <1>20. f = [z \in Who |-> f[z]] /\ f[a] = own[v] /\ f[v] = -1 /\ \A z \in Who : z # a /\ z # v => f[z] = own[z]
    BY <1>15, <1>17, <1>19
  <1>21. PICK e : e = [f EXCEPT ![b] = f[w], ![w] = -1]
    OBVIOUS
  <1>22. Accounted(e, host)
    <2>1. f[b] = -1
      BY <1>15, <1>16, <1>20
    <2> QED BY <1>15, <1>18, <1>21, <2>1, Move
  <1>23. /\ e = [z \in Who |-> e[z]] /\ e[a] = own[v] /\ e[v] = -1 /\ e[b] = own[w] /\ e[w] = -1
         /\ \A z \in Who : z # a /\ z # v /\ z # b /\ z # w => e[z] = own[z]
    BY <1>15, <1>20, <1>21
  <1>24. /\ \A u \in Threads, j \in 1..2 : u # t => own'[Hold(u, j)] = own[Hold(u, j)]
         /\ \A u \in Threads, j \in Nat : u # t => own'[Walked(u, j)] = own[Walked(u, j)]
         /\ \A u \in Threads : u # t => own'[New(u)] = own[New(u)]
    BY <1>1, <1>3, Elsewhere
  <1>25. ASSUME NEW o \in Objects PROVE own'[Obj(o)] = e[Obj(o)]
    <2>1. Obj(o) \in Who /\ Obj(o) # a /\ Obj(o) # b /\ Obj(o) # v /\ Obj(o) # w
      BY <1>11, <1>12, <1>15, Names DEF Obj, Left
    <2>2. own[Obj(o)] = IF objs[o].ref > 0 THEN objs[o].num ELSE -1
      BY <1>9 DEF OwnIs
    <2>3. own'[Obj(o)] = IF objs'[o].ref > 0 THEN objs'[o].num ELSE -1
      BY <1>9 DEF OwnIs
    <2> QED BY <1>0, <1>23, <2>1, <2>2, <2>3
  <1>26. ASSUME NEW u \in Threads, NEW j \in 1..2 PROVE own'[Hold(u, j)] = e[Hold(u, j)]
    <2>1. CASE u = t
      <3>1. own'[Hold(t, j)] = -1
        <4>1. own'[Hold(t, j)] = IF j <= Len(th'[t].held) /\ th'[t].held[j].fd # objs'[th'[t].held[j].obj].num
                                 THEN th'[t].held[j].fd ELSE -1
          BY <1>9 DEF OwnIs
        <4>2. th'[t].held = <<>> /\ ~(j <= Len(<<>>))
          BY <1>2
        <4> QED BY <4>1, <4>2
      <3>2. j = 1 \/ j = 2
        OBVIOUS
      <3> QED BY <1>13, <1>14, <1>23, <2>1, <3>1, <3>2
    <2>2. CASE u # t
      <3>1. Hold(u, j) \in Who /\ Hold(u, j) # a /\ Hold(u, j) # b /\ Hold(u, j) # v /\ Hold(u, j) # w
        BY <1>11, <1>12, <1>13, <1>14, <2>2, Names, Different
      <3> QED BY <1>23, <1>24, <2>2, <3>1
    <2> QED BY <2>1, <2>2
  <1>27. ASSUME NEW u \in Threads, NEW j \in Nat PROVE own'[Walked(u, j)] = e[Walked(u, j)]
    <2>1. Walked(u, j) \in Who /\ Walked(u, j) # a /\ Walked(u, j) # b /\ Walked(u, j) # v /\ Walked(u, j) # w
      BY <1>11, <1>12, <1>13, <1>14, Names, Different
    <2>2. own'[Walked(t, j)] = own[Walked(t, j)]
      <3>1. /\ own'[Walked(t, j)] = IF j \in 1..Len(th'[t].opened) THEN th'[t].opened[j] ELSE -1
            /\ own[Walked(t, j)] = IF j \in 1..Len(th[t].opened) THEN th[t].opened[j] ELSE -1
        BY <1>9 DEF OwnIs
      <3>2. th'[t].opened = th[t].opened
        BY <1>0, <1>2
      <3> QED BY <3>1, <3>2
    <2>3. own'[Walked(u, j)] = own[Walked(u, j)]
      BY <1>24, <2>2
    <2> QED BY <1>23, <2>1, <2>3
  <1>28. ASSUME NEW u \in Threads PROVE own'[New(u)] = e[New(u)]
    <2>1. New(u) \in Who /\ New(u) # a /\ New(u) # b /\ New(u) # v /\ New(u) # w
      BY <1>11, <1>12, <1>13, <1>14, Names, Different, SMTT(30), ZenonT(30)
    <2>2. own'[New(t)] = own[New(t)]
      BY <1>0, <1>2, <1>9 DEF OwnIs
    <2>3. own'[New(u)] = own[New(u)]
      BY <1>24, <2>2
    <2> QED BY <1>23, <2>1, <2>3
  <1>29. ASSUME NEW j \in Nat PROVE own'[Left(j)] = e[Left(j)]
    <2>0. own'[Left(j)] = IF j \in 1..Len(k) /\ k[j].fd # objs[k[j].obj].num THEN k[j].fd ELSE -1
      BY <1>10
    <2>1. CASE j = m + 1
      <3>1. own[v] = IF 1 <= Len(h) /\ h[1].fd # objs[h[1].obj].num THEN h[1].fd ELSE -1
        <4>1. 1 \in 1..2
          OBVIOUS
        <4> QED BY <1>10, <1>13, <4>1
      <3>2. 1 <= Len(h)
        <4>1. \A n \in 1..2 : 1 <= n
          OBVIOUS
        <4> QED BY <1>6, <4>1
      <3> QED BY <1>8, <1>11, <1>23, <2>0, <2>1, <3>1, <3>2
    <2>2. CASE j = m + 2
      <3>1. own[w] = IF 2 <= Len(h) /\ h[2].fd # objs[h[2].obj].num THEN h[2].fd ELSE -1
        <4>1. 2 \in 1..2
          OBVIOUS
        <4> QED BY <1>10, <1>14, <4>1
      <3> QED BY <1>8, <1>12, <1>23, <2>0, <2>2, <3>1
    <2>3. CASE j # m + 1 /\ j # m + 2
      <3>1. Left(j) \in Who /\ Left(j) # a /\ Left(j) # b /\ Left(j) # v /\ Left(j) # w
        BY <1>11, <1>12, <1>13, <1>14, <2>3, Names, Different
      <3>2. own[Left(j)] = IF j \in 1..m /\ leaked[j].fd # objs[leaked[j].obj].num THEN leaked[j].fd ELSE -1
        BY <1>10
      <3>3. own'[Left(j)] = own[Left(j)]
        BY <1>8, <2>0, <2>3, <3>2
      <3> QED BY <1>23, <3>1, <3>3
    <2> QED BY <2>1, <2>2, <2>3
  <1>30. own' = e
    <2>1. own' = [z \in Who |-> own'[z]] /\ e = [z \in Who |-> e[z]]
      BY <1>19, <1>23
    <2>2. Agree(own', e)
      BY <1>25, <1>26, <1>27, <1>28, <1>29, <2>1 DEF Agree
    <2> QED BY <2>2, SameOwners
  <1>31. Accounted(own', host')
    BY <1>0, <1>22, <1>30
  <1>32. Shapes'
    BY <1>0, <1>1, <1>7, <1>8 DEF Shapes, Alone
  <1>33. RefsMatch'
    <2>1. \A u \in Threads : u # t => th'[u].held = th[u].held
      BY <1>1 DEF Alone
    <2>2. ASSUME NEW o \in Objects
          PROVE  /\ Cardinality(EntriesOf(entries', o)) \in Nat /\ Cardinality(LeakedOf(leaked', o)) \in Nat
                 /\ objs'[o].ref \in Nat
                 /\ objs'[o].ref + Cardinality(EntriesOf(entries, o)) + Cardinality(LeakedOf(leaked, o)) + Uses(th[t].held, o)
                    = objs[o].ref + Cardinality(EntriesOf(entries', o)) + Cardinality(LeakedOf(leaked', o)) + Uses(th'[t].held, o)
      <3> DEFINE c == Cardinality(EntriesOf(entries, o))
                 d == Cardinality(LeakedOf(leaked, o))
                 x == Cardinality(LeakedOf(leaked', o))
                 y == Uses(h, o)
                 r == objs[o].ref
      <3>1. c \in Nat /\ d \in Nat /\ r \in Nat
        BY <1>0, Countable DEF Shapes, ObjectTable
      <3>2. x = d + y
        <4>1. Len(h) <= 2
          <5>1. \A n \in 1..2 : n <= 2
            OBVIOUS
          <5> QED BY <1>6, <5>1
        <4> QED BY <1>0, <1>6, <1>7, <4>1, LeasesLeft
      <3>3. y \in 0..2
        BY DEF Uses, One
      <3>4. Uses(th[t].held, o) = y /\ Uses(th'[t].held, o) = 0 /\ objs'[o].ref = r /\ Cardinality(EntriesOf(entries', o)) = c
        BY <1>0, <1>2, <1>6, UsesOf
      <3> HIDE DEF c, d, x, y, r
      <3>5. x \in Nat /\ r + c + d + y = r + c + x + 0
        BY ONLY <3>1, <3>2, <3>3
      <3> QED BY <3>1, <3>4, <3>5 DEF c, d, x, y, r
    <2> QED BY <1>2, <2>1, <2>2, Rebalance
  <1>34. \A o \in Objects : objs'[o].ref > 0 => objs[o].ref > 0
    BY <1>0
  <1> QED BY <1>1, <1>2, <1>3, <1>31, <1>32, <1>33, <1>34, Finish

-----------------------------------------------------------------------------
(* Opening a file.                                                         *)

\* The file is opened: the thread has a descriptor that nobody has yet.
LEMMA OpenedKeeps ==
  ASSUME IInv, NEW t \in Threads, th[t].pc = "found", NEW n, n # None,
         NEW m \in HostFds, host[m] = None, NEW q, q = [Done(th[t]) EXCEPT !.nfd = m],
         th' = [th EXCEPT ![t] = q], host' = [host EXCEPT ![m] = n],
         objs' = objs, entries' = entries, leaked' = leaked
  PROVE  IInv'
  <1>0. /\ Shapes /\ Able(th[t]) /\ Accounted(own, host) /\ host = [x \in HostFds |-> host[x]]
    BY Start DEF Shapes
  <1>1. PICK d : /\ d = Done(th[t]) /\ Able(d) /\ d.pc = "use" /\ d.held = th[t].held /\ d.opened = th[t].opened
                 /\ th[t].opened = <<>> /\ th[t].nfd = -1 /\ th[t].held # <<>>
                 /\ {"pc", "held", "l", "opened", "nfd"} \subseteq DOMAIN d
    BY <1>0, DoneAble
  <1>2. /\ q.pc = "use" /\ q.held = th[t].held /\ q.opened = <<>> /\ q.nfd = m /\ q.l = d.l
        /\ {"pc", "held", "l", "opened", "nfd"} \subseteq DOMAIN q
    BY <1>1
  <1>3. Able(q)
    BY <1>1, <1>2 DEF Able
  <1>4. th'[t] = q /\ Alone(t)
    BY <1>0 DEF Shapes, Alone
  <1>5. host'[m] = n /\ (\A x \in HostFds : x # m => host'[x] = host[x]) /\ Fds(host')
    BY <1>0 DEF Fds
  <1>6. SameNodes(host, host') /\ Keeps
    BY <1>5 DEF SameNodes, Keeps
  <1>7. OwnIs(own, objs, th, leaked) /\ OwnIs(own', objs', th', leaked')
    BY Owns
  <1>8. PICK w \in Who : w = New(t)
    BY Names, SMTT(30), ZenonT(30)
  <1>9. own[w] = -1
    BY <1>1, <1>7, <1>8 DEF OwnIs
  <1>10. PICK e : e = [own EXCEPT ![w] = m]
    OBVIOUS
  <1>11. Accounted(e, host')
    <2>1. PICK h : h = host
      OBVIOUS
    <2>2. PICK k : k = host'
      OBVIOUS
    <2>3. PICK f : f = own
      OBVIOUS
    <2>4. /\ Accounted(f, h) /\ h = [x \in HostFds |-> h[x]] /\ f[w] = -1 /\ h[m] = None
          /\ e = [f EXCEPT ![w] = m] /\ k = [h EXCEPT ![m] = n]
      BY <1>0, <1>9, <1>10, <2>1, <2>2, <2>3
    <2>5. Accounted(e, k)
      BY ONLY w \in Who, m \in HostFds, n # None, <2>4, Take
    <2> QED BY <2>2, <2>5
  <1>12. own = [z \in Who |-> own[z]] /\ own' = [z \in Who |-> own'[z]]
    BY <1>7 DEF OwnIs
  <1>13. e = [z \in Who |-> e[z]] /\ e[w] = m /\ \A z \in Who : z # w => e[z] = own[z]
    BY <1>10, <1>12
  <1>14. /\ \A u \in Threads, j \in 1..2 : u # t => own'[Hold(u, j)] = own[Hold(u, j)]
         /\ \A u \in Threads, j \in Nat : u # t => own'[Walked(u, j)] = own[Walked(u, j)]
         /\ \A u \in Threads : u # t => own'[New(u)] = own[New(u)]
         /\ \A j \in Nat : own'[Left(j)] = own[Left(j)]
    BY <1>4, <1>6, Elsewhere
  <1>15. ASSUME NEW o \in Objects PROVE own'[Obj(o)] = e[Obj(o)]
    <2>1. Obj(o) \in Who /\ Obj(o) # w
      BY <1>8, Names DEF Obj, New
    <2>2. own[Obj(o)] = IF objs[o].ref > 0 THEN objs[o].num ELSE -1
      BY <1>7 DEF OwnIs
    <2>3. own'[Obj(o)] = IF objs'[o].ref > 0 THEN objs'[o].num ELSE -1
      BY <1>7 DEF OwnIs
    <2> QED BY <1>13, <2>1, <2>2, <2>3
  <1>16. ASSUME NEW u \in Threads, NEW j \in 1..2 PROVE own'[Hold(u, j)] = e[Hold(u, j)]
    <2>1. Hold(u, j) \in Who /\ Hold(u, j) # w
      BY <1>8, Names, Different
    <2>2. own'[Hold(t, j)] = own[Hold(t, j)]
      <3>1. /\ own[Hold(t, j)] = IF j <= Len(th[t].held) /\ th[t].held[j].fd # objs[th[t].held[j].obj].num
                                 THEN th[t].held[j].fd ELSE -1
            /\ own'[Hold(t, j)] = IF j <= Len(th'[t].held) /\ th'[t].held[j].fd # objs'[th'[t].held[j].obj].num
                                  THEN th'[t].held[j].fd ELSE -1
        BY <1>7 DEF OwnIs
      <3>2. th'[t].held = th[t].held
        BY <1>2, <1>4
      <3> QED BY <3>1, <3>2
    <2> QED BY <1>13, <1>14, <2>1, <2>2
  <1>17. ASSUME NEW u \in Threads, NEW j \in Nat PROVE own'[Walked(u, j)] = e[Walked(u, j)]
    <2>1. Walked(u, j) \in Who /\ Walked(u, j) # w
      BY <1>8, Names, Different
    <2>2. own'[Walked(t, j)] = own[Walked(t, j)]
      <3>1. /\ own'[Walked(t, j)] = IF j \in 1..Len(th'[t].opened) THEN th'[t].opened[j] ELSE -1
            /\ own[Walked(t, j)] = IF j \in 1..Len(th[t].opened) THEN th[t].opened[j] ELSE -1
        BY <1>7 DEF OwnIs
      <3>2. th'[t].opened = th[t].opened
        BY <1>1, <1>2, <1>4
      <3> QED BY <3>1, <3>2
    <2> QED BY <1>13, <1>14, <2>1, <2>2
  <1>18. ASSUME NEW u \in Threads PROVE own'[New(u)] = e[New(u)]
    <2>1. CASE u = t
      <3>1. own'[New(t)] = th'[t].nfd
        BY <1>7 DEF OwnIs
      <3> QED BY <1>2, <1>4, <1>8, <1>13, <2>1, <3>1, SMTT(30), ZenonT(30)
    <2>2. CASE u # t
      <3>1. New(u) \in Who /\ New(u) # w
        BY <1>8, <2>2, Names, Different
      <3> QED BY <1>13, <1>14, <2>2, <3>1
    <2> QED BY <2>1, <2>2
  <1>19. ASSUME NEW j \in Nat PROVE own'[Left(j)] = e[Left(j)]
    <2>1. Left(j) \in Who /\ Left(j) # w
      BY <1>8, Names, Different
    <2> QED BY <1>13, <1>14, <2>1
  <1>20. Agree(own', e)
    BY <1>12, <1>13, <1>15, <1>16, <1>17, <1>18, <1>19 DEF Agree
  <1>21. Accounted(own', host')
    BY <1>11, <1>20, SameOwners
  <1>22. \A o \in Objects : Uses(th'[t].held, o) = Uses(th[t].held, o)
    BY <1>2, <1>4
  <1> QED BY <1>2, <1>3, <1>4, <1>6, <1>21, <1>22, HostOnly

\* Openat
LEMMA OpenatKeeps ==
  ASSUME IInv, NEW t \in Threads, Openat(t)
  PROVE  IInv'
  <1>1. PICK n : n = Opens(th[t])
    OBVIOUS
  <1>2. /\ th[t].pc = "found" /\ objs' = objs /\ entries' = entries /\ leaked' = leaked
        /\ \/ /\ n # None /\ \E h \in HostFds : host[h] = None
              /\ th' = [th EXCEPT ![t] = [Done(th[t]) EXCEPT !.nfd = FreeHost(host)]]
              /\ host' = HostOpen(host, n)
           \/ th' = [th EXCEPT ![t] = Done(th[t])] /\ host' = host
    BY <1>1 DEF Openat, table, Same
  <1>3. CASE /\ n # None /\ \E h \in HostFds : host[h] = None
             /\ th' = [th EXCEPT ![t] = [Done(th[t]) EXCEPT !.nfd = FreeHost(host)]]
             /\ host' = HostOpen(host, n)
    <2>1. PICK m \in HostFds : m = FreeHost(host) /\ host[m] = None
      BY <1>3, FreeHostIs
    <2>2. PICK q : q = [Done(th[t]) EXCEPT !.nfd = m]
      OBVIOUS
    <2>3. th' = [th EXCEPT ![t] = q] /\ host' = [host EXCEPT ![m] = n]
      BY <1>2, <1>3, <2>1, <2>2 DEF HostOpen
    <2>4. n # None /\ th[t].pc = "found" /\ objs' = objs /\ entries' = entries /\ leaked' = leaked
      BY <1>2, <1>3
    <2> QED BY <2>1, <2>2, <2>3, <2>4, OpenedKeeps
  <1>4. CASE th' = [th EXCEPT ![t] = Done(th[t])] /\ host' = host
    BY <1>2, <1>4, DoneKeeps
  <1> QED BY <1>2, <1>3, <1>4

\* A step in which the thread becomes idle and only objects and descriptors of the
\* host change hands: what the others own stays theirs.
LEMMA OthersStill ==
  ASSUME IInv, Keeps, NEW t \in Threads, th[t].held = <<>>, th[t].opened = <<>>,
         th' = [th EXCEPT ![t] = Idle], leaked' = leaked
  PROVE  /\ th'[t] = Idle /\ Alone(t) /\ Able(th'[t]) /\ th'[t].pc # "lookup" /\ th'[t].held = <<>>
         /\ \A u \in Threads, j \in 1..2 : own'[Hold(u, j)] = own[Hold(u, j)]
         /\ \A u \in Threads, j \in Nat : own'[Walked(u, j)] = own[Walked(u, j)]
         /\ \A u \in Threads : u # t => own'[New(u)] = own[New(u)]
         /\ own'[New(t)] = -1
         /\ \A j \in Nat : own'[Left(j)] = own[Left(j)]
  <1>0. Shapes /\ OwnIs(own, objs, th, leaked) /\ OwnIs(own', objs', th', leaked')
    BY Start, Owns
  <1>1. th'[t] = Idle /\ Alone(t)
    BY <1>0 DEF Shapes, Alone
  <1>2. th'[t].held = <<>> /\ th'[t].opened = <<>> /\ th'[t].nfd = -1 /\ Able(th'[t]) /\ th'[t].pc # "lookup"
    BY <1>1, IdleAble
  <1>3. /\ \A u \in Threads, j \in 1..2 : u # t => own'[Hold(u, j)] = own[Hold(u, j)]
        /\ \A u \in Threads, j \in Nat : u # t => own'[Walked(u, j)] = own[Walked(u, j)]
        /\ \A u \in Threads : u # t => own'[New(u)] = own[New(u)]
        /\ \A j \in Nat : own'[Left(j)] = own[Left(j)]
    BY <1>1, Elsewhere
  <1>4. ASSUME NEW j \in 1..2 PROVE own'[Hold(t, j)] = own[Hold(t, j)]
    <2>1. /\ own[Hold(t, j)] = IF j <= Len(th[t].held) /\ th[t].held[j].fd # objs[th[t].held[j].obj].num
                               THEN th[t].held[j].fd ELSE -1
          /\ own'[Hold(t, j)] = IF j <= Len(th'[t].held) /\ th'[t].held[j].fd # objs'[th'[t].held[j].obj].num
                                THEN th'[t].held[j].fd ELSE -1
      BY <1>0, SMTT(30), ZenonT(30) DEF OwnIs
    <2>2. ~(j <= Len(<<>>))
      OBVIOUS
    <2> QED BY <1>2, <2>1, <2>2
  <1>5. ASSUME NEW j \in Nat PROVE own'[Walked(t, j)] = own[Walked(t, j)]
    <2>1. /\ own'[Walked(t, j)] = IF j \in 1..Len(th'[t].opened) THEN th'[t].opened[j] ELSE -1
          /\ own[Walked(t, j)] = IF j \in 1..Len(th[t].opened) THEN th[t].opened[j] ELSE -1
      BY <1>0 DEF OwnIs
    <2> QED BY <1>2, <2>1
  <1>6. own'[New(t)] = -1
    BY <1>0, <1>2 DEF OwnIs
  <1> QED BY <1>1, <1>2, <1>3, <1>4, <1>5, <1>6

\* fd_determine_type_rights or fd_object_new fails, and the file is closed.
LEMMA InsertFails ==
  ASSUME IInv, NEW t \in Threads, th[t].pc = "insert", th' = [th EXCEPT ![t] = Idle],
         host' = HostClose(host, th[t].nfd), objs' = objs, entries' = entries, leaked' = leaked
  PROVE  IInv'
  <1>0. /\ Shapes /\ Accounted(own, host) /\ host = [x \in HostFds |-> host[x]]
        /\ th[t].held = <<>> /\ th[t].opened = <<>>
        /\ OwnIs(own, objs, th, leaked) /\ OwnIs(own', objs', th', leaked')
    BY Start, Owns DEF Shapes, Able
  <1>1. PICK w \in Who : w = New(t) /\ own[w] = th[t].nfd
    BY <1>0, Names DEF OwnIs
  <1>2. SameNodes(host, host') /\ Keeps
    BY <1>0 DEF SameNodes, Keeps, HostClose, Fds
  <1>3. PICK e : e = [own EXCEPT ![w] = -1]
    OBVIOUS
  <1>4. Accounted(e, host')
    <2>1. Accounted([own EXCEPT ![w] = -1], HostClose(host, own[w]))
      BY <1>0, DropOne
    <2> QED BY <1>1, <1>3, <2>1
  <1>5. own = [z \in Who |-> own[z]] /\ own' = [z \in Who |-> own'[z]]
    BY <1>0 DEF OwnIs
  <1>6. e = [z \in Who |-> e[z]] /\ e[w] = -1 /\ \A z \in Who : z # w => e[z] = own[z]
    BY <1>3, <1>5
  <1>7. /\ Alone(t) /\ Able(th'[t]) /\ th'[t].pc # "lookup" /\ th'[t].held = <<>>
        /\ \A u \in Threads, j \in 1..2 : own'[Hold(u, j)] = own[Hold(u, j)]
        /\ \A u \in Threads, j \in Nat : own'[Walked(u, j)] = own[Walked(u, j)]
        /\ \A u \in Threads : u # t => own'[New(u)] = own[New(u)]
        /\ own'[New(t)] = -1
        /\ \A j \in Nat : own'[Left(j)] = own[Left(j)]
    BY <1>0, <1>2, OthersStill
  <1>8. ASSUME NEW o \in Objects PROVE own'[Obj(o)] = e[Obj(o)]
    <2>1. Obj(o) \in Who /\ Obj(o) # w
      BY <1>1, Names DEF Obj, New
    <2>2. own[Obj(o)] = IF objs[o].ref > 0 THEN objs[o].num ELSE -1
      BY <1>0 DEF OwnIs
    <2>3. own'[Obj(o)] = IF objs'[o].ref > 0 THEN objs'[o].num ELSE -1
      BY <1>0 DEF OwnIs
    <2> QED BY <1>6, <2>1, <2>2, <2>3
  <1>9. ASSUME NEW u \in Threads, NEW j \in 1..2 PROVE own'[Hold(u, j)] = e[Hold(u, j)]
    <2>1. Hold(u, j) \in Who /\ Hold(u, j) # w
      BY <1>1, Names, Different
    <2> QED BY <1>6, <1>7, <2>1
  <1>10. ASSUME NEW u \in Threads, NEW j \in Nat PROVE own'[Walked(u, j)] = e[Walked(u, j)]
    <2>1. Walked(u, j) \in Who /\ Walked(u, j) # w
      BY <1>1, Names, Different
    <2> QED BY <1>6, <1>7, <2>1
  <1>11. ASSUME NEW u \in Threads PROVE own'[New(u)] = e[New(u)]
    <2>1. CASE u = t
      BY <1>1, <1>6, <1>7, <2>1
    <2>2. CASE u # t
      <3>1. New(u) \in Who /\ New(u) # w
        BY <1>1, <2>2, Names, Different
      <3> QED BY <1>6, <1>7, <2>2, <3>1
    <2> QED BY <2>1, <2>2
  <1>12. ASSUME NEW j \in Nat PROVE own'[Left(j)] = e[Left(j)]
    <2>1. Left(j) \in Who /\ Left(j) # w
      BY <1>1, Names, Different
    <2> QED BY <1>6, <1>7, <2>1
  <1>13. Agree(own', e)
    BY <1>5, <1>6, <1>8, <1>9, <1>10, <1>11, <1>12 DEF Agree
  <1>14. Accounted(own', host')
    BY <1>4, <1>13, SameOwners
  <1>15. \A o \in Objects : Uses(th'[t].held, o) = Uses(th[t].held, o)
    BY <1>0, <1>7
  <1> QED BY <1>2, <1>7, <1>14, <1>15, HostOnly

\* fd_object_new
NewObject(n, node) == [ref |-> 1, num |-> n, node |-> node, dirh |-> FALSE]

\* An object that nobody refers to gets the descriptor, and an entry refers to it.
LEMMA InsertSucceeds ==
  ASSUME IInv, NEW t \in Threads, th[t].pc = "insert", th' = [th EXCEPT ![t] = Idle],
         NEW o \in Objects, objs[o].ref = 0, NEW n, n = th[t].nfd, NEW node, node = host[n],
         NEW s, NEW rights, Comes(entries, s, NewEntry(o, rights), entries'),
         objs' = [objs EXCEPT ![o] = NewObject(n, node)], host' = host, leaked' = leaked
  PROVE  IInv'
  <1>0. /\ Shapes /\ Accounted(own, host) /\ th[t].held = <<>> /\ th[t].opened = <<>> /\ n \in HostFds /\ n # -1
        /\ ObjectTable(objs) /\ EntryTable(entries)
        /\ OwnIs(own, objs, th, leaked) /\ OwnIs(own', objs', th', leaked')
    BY Start, Owns, SMTT(30), ZenonT(30) DEF Shapes, Able
  <1>1. PICK w \in Who : w = New(t) /\ own[w] = n
    BY <1>0, Names DEF OwnIs
  <1>2. PICK v \in Who : v = Obj(o) /\ own[v] = -1
    <2>1. ~(0 > 0)
      OBVIOUS
    <2> QED BY <1>0, <2>1, Names, ZenonT(60), SMTT(30) DEF OwnIs
  <1>3. node # None
    <2>1. own[w] # -1
      BY <1>0, <1>1
    <2>2. host[own[w]] # None
      BY <1>0, <2>1, OwnedOpen
    <2> QED BY <1>1, <2>2
  <1>a. PICK rec : rec = NewObject(n, node)
    OBVIOUS
  <1>4. rec.ref = 1 /\ rec.num = n /\ rec.node = node /\ {"ref", "num", "node", "dirh"} \subseteq DOMAIN rec
    BY <1>a DEF NewObject
  <1>5. objs'[o] = rec /\ (\A x \in Objects : x # o => objs'[x] = objs[x]) /\ DOMAIN objs' = Objects
    BY <1>0, <1>a DEF ObjectTable
  <1>6. ObjectTable(objs')
    <2>1. 1 \in Nat
      OBVIOUS
    <2> QED BY <1>0, <1>4, <1>5, <2>1 DEF ObjectTable
  <1>7. Keeps
    <2>1. ASSUME NEW x \in Objects, objs[x].ref > 0 PROVE objs'[x].num = objs[x].num /\ objs'[x].node = objs[x].node
      <3>1. x # o
        BY <2>1
      <3> QED BY <1>5, <3>1
    <2> QED BY <2>1 DEF Keeps
  <1>8. PICK e : e = [own EXCEPT ![v] = own[w], ![w] = -1]
    OBVIOUS
  <1>9. v # w /\ \A x \in Objects : w # Obj(x)
    BY <1>1, <1>2 DEF Obj, New
  <1>10. Accounted(e, host')
    BY <1>0, <1>2, <1>8, <1>9, Move
  <1>11. own = [z \in Who |-> own[z]] /\ own' = [z \in Who |-> own'[z]]
    BY <1>0 DEF OwnIs
  <1>12. e = [z \in Who |-> e[z]] /\ e[w] = -1 /\ e[v] = n /\ \A z \in Who : z # v /\ z # w => e[z] = own[z]
    BY <1>1, <1>8, <1>9, <1>11
  <1>13. /\ Alone(t) /\ Able(th'[t]) /\ th'[t].pc # "lookup" /\ th'[t].held = <<>>
         /\ \A u \in Threads, j \in 1..2 : own'[Hold(u, j)] = own[Hold(u, j)]
         /\ \A u \in Threads, j \in Nat : own'[Walked(u, j)] = own[Walked(u, j)]
         /\ \A u \in Threads : u # t => own'[New(u)] = own[New(u)]
         /\ own'[New(t)] = -1
         /\ \A j \in Nat : own'[Left(j)] = own[Left(j)]
    BY <1>0, <1>7, OthersStill
  <1>14. ASSUME NEW x \in Objects PROVE own'[Obj(x)] = e[Obj(x)]
    <2>0. own'[Obj(x)] = IF objs'[x].ref > 0 THEN objs'[x].num ELSE -1
      BY <1>0 DEF OwnIs
    <2>1. CASE x = o
      <3>1. 1 > 0
        OBVIOUS
      <3> QED BY <1>2, <1>4, <1>5, <1>12, <2>0, <2>1, <3>1
    <2>2. CASE x # o
      <3>1. Obj(x) \in Who /\ Obj(x) # v /\ Obj(x) # w
        BY <1>2, <1>9, <2>2, Names, Different, SMTT(30), ZenonT(30)
      <3>2. own[Obj(x)] = IF objs[x].ref > 0 THEN objs[x].num ELSE -1
        BY <1>0 DEF OwnIs
      <3> QED BY <1>5, <1>12, <2>0, <2>2, <3>1, <3>2
    <2> QED BY <2>1, <2>2
  <1>15. ASSUME NEW u \in Threads, NEW j \in 1..2 PROVE own'[Hold(u, j)] = e[Hold(u, j)]
    <2>1. Hold(u, j) \in Who /\ Hold(u, j) # v /\ Hold(u, j) # w
      BY <1>1, <1>2, Names, Different
    <2> QED BY <1>12, <1>13, <2>1
  <1>16. ASSUME NEW u \in Threads, NEW j \in Nat PROVE own'[Walked(u, j)] = e[Walked(u, j)]
    <2>1. Walked(u, j) \in Who /\ Walked(u, j) # v /\ Walked(u, j) # w
      BY <1>1, <1>2, Names, Different
    <2> QED BY <1>12, <1>13, <2>1
  <1>17. ASSUME NEW u \in Threads PROVE own'[New(u)] = e[New(u)]
    <2>1. CASE u = t
      BY <1>1, <1>12, <1>13, <2>1
    <2>2. CASE u # t
      <3>1. New(u) \in Who /\ New(u) # v /\ New(u) # w
        BY <1>1, <1>2, <2>2, Names, Different
      <3> QED BY <1>12, <1>13, <2>2, <3>1
    <2> QED BY <2>1, <2>2
  <1>18. ASSUME NEW j \in Nat PROVE own'[Left(j)] = e[Left(j)]
    <2>1. Left(j) \in Who /\ Left(j) # v /\ Left(j) # w
      BY <1>1, <1>2, Names, Different
    <2> QED BY <1>12, <1>13, <2>1
  <1>19. Agree(own', e)
    BY <1>11, <1>12, <1>14, <1>15, <1>16, <1>17, <1>18 DEF Agree
  <1>20. Accounted(own', host')
    BY <1>10, <1>19, SameOwners
  <1>21. PICK a : a = NewEntry(o, rights) /\ a.obj = o /\ {"obj", "base", "inh"} \subseteq DOMAIN a
    BY DEF NewEntry
  <1>22. PICK E, F : E = entries /\ F = entries' /\ IsFiniteSet(DOMAIN E) /\ Comes(E, s, a, F)
    BY <1>0, <1>21 DEF EntryTable
  <1>23. ASSUME NEW z
         PROVE  /\ IsFiniteSet(DOMAIN F) /\ Cardinality(EntriesOf(F, z)) = Cardinality(EntriesOf(E, z)) + Is(o, z)
                /\ Cardinality(EntriesOf(E, z)) \in Nat
    BY <1>21, <1>22, EntryComes
  <1>24. EntryTable(entries')
    <2>1. IsFiniteSet(DOMAIN F)
      BY <1>23
    <2>2. \A x \in DOMAIN E : {"obj", "base", "inh"} \subseteq DOMAIN E[x] /\ E[x].obj \in Objects
      BY <1>0, <1>22 DEF EntryTable
    <2>3. DOMAIN F = DOMAIN E \cup {s} /\ F[s] = a /\ \A x \in DOMAIN E : F[x] = E[x]
      BY <1>22 DEF Comes
    <2>4. EntryTable(F)
      BY <1>21, <2>1, <2>2, <2>3 DEF EntryTable
    <2> QED BY <1>22, <2>4
  <1>25. Shapes'
    BY <1>0, <1>6, <1>13, <1>24 DEF Shapes, Alone
  <1>26. RefsMatch'
    <2>1. \A u \in Threads : u # t => th'[u].held = th[u].held
      BY <1>13 DEF Alone
    <2>2. ASSUME NEW z \in Objects
          PROVE  /\ Cardinality(EntriesOf(entries', z)) \in Nat /\ Cardinality(LeakedOf(leaked', z)) \in Nat
                 /\ objs'[z].ref \in Nat
                 /\ objs'[z].ref + Cardinality(EntriesOf(entries, z)) + Cardinality(LeakedOf(leaked, z)) + Uses(th[t].held, z)
                    = objs[z].ref + Cardinality(EntriesOf(entries', z)) + Cardinality(LeakedOf(leaked', z)) + Uses(th'[t].held, z)
      <3> DEFINE c == Cardinality(EntriesOf(entries, z))
                 y == Cardinality(EntriesOf(entries', z))
                 d == Cardinality(LeakedOf(leaked, z))
                 r1 == objs[z].ref
                 r2 == objs'[z].ref
                 b == Is(o, z)
      <3>1. d \in Nat /\ r1 \in Nat /\ r2 \in Nat
        BY <1>0, <1>6, Countable DEF ObjectTable
      <3>2. c \in Nat /\ y = c + b
        BY <1>22, <1>23
      <3>3. b \in 0..1
        BY UsesOf
      <3>4. r2 = r1 + b
        <4>1. CASE z = o
          <5>1. b = 1 /\ r1 = 0 /\ r2 = 1
            BY <1>4, <1>5, <4>1 DEF Is
          <5> QED BY <5>1
        <4>2. CASE z # o
          <5>1. b = 0 /\ r2 = r1
            BY <1>5, <4>2 DEF Is
          <5> QED BY <3>1, <5>1
        <4> QED BY <4>1, <4>2
      <3>5. Cardinality(LeakedOf(leaked', z)) = d /\ Uses(th[t].held, z) = 0 /\ Uses(th'[t].held, z) = 0
        BY <1>0, <1>13, UsesOf
      <3> HIDE DEF c, d, y, r1, r2, b
      <3>6. y \in Nat /\ r2 + c + d + 0 = r1 + y + d + 0
        BY ONLY <3>1, <3>2, <3>3, <3>4
      <3> QED BY <3>1, <3>5, <3>6 DEF c, d, y, r1, r2
    <2> QED BY <1>13, <2>1, <2>2, Rebalance
  <1>27. ASSUME NEW x \in Objects, objs'[x].ref > 0
         PROVE  objs[x].ref > 0 \/ (host'[objs'[x].num] = objs'[x].node /\ objs'[x].node # None)
    BY <1>3, <1>4, <1>5, <1>27
  <1> QED BY <1>7, <1>13, <1>20, <1>25, <1>26, <1>27, Finish

\* fd_table_insert
LEMMA fd_table_insertKeeps ==
  ASSUME IInv, NEW t \in Threads, fd_table_insert(t)
  PROVE  IInv'
  <1>1. PICK o : o = Min({x \in Objects : objs[x].ref = 0})
    OBVIOUS
  <1>2. PICK n : n = th[t].nfd
    OBVIOUS
  <1>3. PICK node : node = host[n]
    OBVIOUS
  <1>4. PICK rights : rights = NewRights(node, th[t].want)
    OBVIOUS
  <1>5. PICK free : free = (0..Grown(0, 1) - 1) \ DOMAIN entries
    OBVIOUS
  <1>6. th[t].pc = "insert" /\ th' = [th EXCEPT ![t] = Idle] /\ leaked' = leaked
    BY DEF fd_table_insert, Same
  <1>7. \/ /\ \E x \in Objects : objs[x].ref = 0
           /\ \E s \in free : Comes(entries, s, NewEntry(o, rights), entries')
           /\ objs' = [objs EXCEPT ![o] = NewObject(n, node)] /\ host' = host
        \/ host' = HostClose(host, th[t].nfd) /\ entries' = entries /\ objs' = objs
    BY <1>1, <1>2, <1>3, <1>4, <1>5 DEF fd_table_insert, table, Comes, NewObject
  <1>8. CASE /\ \E x \in Objects : objs[x].ref = 0
             /\ \E s \in free : Comes(entries, s, NewEntry(o, rights), entries')
             /\ objs' = [objs EXCEPT ![o] = NewObject(n, node)] /\ host' = host
    <2>1. o \in Objects /\ objs[o].ref = 0
      <3> DEFINE S == {x \in Objects : objs[x].ref = 0}
      <3>1. S \in SUBSET Nat /\ S # {}
        BY <1>8, Bounds DEF Objects
      <3>2. \E x \in S : \A y \in S : x <= y
        BY <3>1, Least
      <3>3. o = CHOOSE x \in S : \A y \in S : x <= y
        BY <1>1 DEF Min
      <3>4. o \in S
        BY <3>2, <3>3
      <3> QED BY <3>4
    <2>2. PICK s : Comes(entries, s, NewEntry(o, rights), entries')
      BY <1>8
    <2>3. objs' = [objs EXCEPT ![o] = NewObject(n, node)] /\ host' = host
      BY <1>8
    <2> QED BY <1>2, <1>3, <1>6, <2>1, <2>2, <2>3, InsertSucceeds
  <1>9. CASE host' = HostClose(host, th[t].nfd) /\ entries' = entries /\ objs' = objs
    BY <1>6, <1>9, InsertFails
  <1> QED BY <1>7, <1>8, <1>9

-----------------------------------------------------------------------------
(* Steps of others.                                                        *)

\* The threads are where they were.
Unmoved ==
  /\ DOMAIN th' = Threads
  /\ \A t \in Threads : /\ {"pc", "held", "l", "opened", "nfd"} \subseteq DOMAIN th'[t]
                        /\ th'[t].pc = th[t].pc /\ th'[t].held = th[t].held /\ th'[t].l = th[t].l
                        /\ th'[t].opened = th[t].opened /\ th'[t].nfd = th[t].nfd

\* Nothing that the invariant is about changes.
LEMMA Framed ==
  ASSUME IInv, Unmoved, entries' = entries, objs' = objs, host' = host, leaked' = leaked
  PROVE  IInv'
  <1>0. /\ Shapes /\ RefsMatch /\ Accounted(own, host) /\ Behinds
        /\ OwnIs(own, objs, th, leaked) /\ OwnIs(own', objs', th', leaked')
    BY Start, Owns
  <1>1. Shapes'
    BY <1>0 DEF Shapes, Unmoved
  <1>2. ASSUME NEW t \in Threads PROVE Able(th'[t]) /\ (th'[t].pc = "lookup" => Follows(th'[t], objs', host'))
    <2>1. /\ {"pc", "held", "l", "opened", "nfd"} \subseteq DOMAIN th'[t]
          /\ th'[t].pc = th[t].pc /\ th'[t].held = th[t].held /\ th'[t].l = th[t].l
          /\ th'[t].opened = th[t].opened /\ th'[t].nfd = th[t].nfd
      BY DEF Unmoved
    <2>2. Able(th[t]) /\ (th[t].pc = "lookup" => Follows(th[t], objs, host))
      BY Start
    <2>3. Able(th'[t])
      BY <2>1, <2>2 DEF Able
    <2>4. th'[t].pc = "lookup" => Follows(th'[t], objs', host')
      BY <2>1, <2>2 DEF Follows
    <2> QED BY <2>3, <2>4
  <1>3. RefsMatch'
    <2>1. ASSUME NEW o \in Objects PROVE LeasesOf(th', o) = LeasesOf(th, o)
      <3>1. \A x \in Leases : th'[x[1]].held = th[x[1]].held
        BY DEF Leases, Unmoved
      <3> QED BY <3>1 DEF LeasesOf
    <2>2. \A o \in Objects : objs[o].ref = Cardinality(EntriesOf(entries, o)) + Cardinality(LeasesOf(th, o)) + Cardinality(LeakedOf(leaked, o))
      BY <1>0, Counted
    <2>3. \A o \in Objects : objs'[o].ref = Cardinality(EntriesOf(entries', o)) + Cardinality(LeasesOf(th', o)) + Cardinality(LeakedOf(leaked', o))
      BY <2>1, <2>2
    <2> QED BY <2>3, Counted
  <1>4. Agree(own', own)
    <2>1. own = [z \in Who |-> own[z]] /\ own' = [z \in Who |-> own'[z]]
      BY <1>0 DEF OwnIs
    <2>2. ASSUME NEW o \in Objects PROVE own'[Obj(o)] = own[Obj(o)]
      <3>1. own[Obj(o)] = IF objs[o].ref > 0 THEN objs[o].num ELSE -1
        BY <1>0 DEF OwnIs
      <3>2. own'[Obj(o)] = IF objs'[o].ref > 0 THEN objs'[o].num ELSE -1
        BY <1>0 DEF OwnIs
      <3> QED BY <3>1, <3>2
    <2>3. ASSUME NEW u \in Threads, NEW j \in 1..2 PROVE own'[Hold(u, j)] = own[Hold(u, j)]
      <3>1. /\ own[Hold(u, j)] = IF j <= Len(th[u].held) /\ th[u].held[j].fd # objs[th[u].held[j].obj].num
                                 THEN th[u].held[j].fd ELSE -1
            /\ own'[Hold(u, j)] = IF j <= Len(th'[u].held) /\ th'[u].held[j].fd # objs'[th'[u].held[j].obj].num
                                  THEN th'[u].held[j].fd ELSE -1
        BY <1>0 DEF OwnIs
      <3>2. th'[u].held = th[u].held
        BY DEF Unmoved
      <3> QED BY <3>1, <3>2
    <2>4. ASSUME NEW u \in Threads, NEW j \in Nat PROVE own'[Walked(u, j)] = own[Walked(u, j)]
      <3>1. /\ own'[Walked(u, j)] = IF j \in 1..Len(th'[u].opened) THEN th'[u].opened[j] ELSE -1
            /\ own[Walked(u, j)] = IF j \in 1..Len(th[u].opened) THEN th[u].opened[j] ELSE -1
        BY <1>0 DEF OwnIs
      <3>2. th'[u].opened = th[u].opened
        BY DEF Unmoved
      <3> QED BY <3>1, <3>2
    <2>5. ASSUME NEW u \in Threads PROVE own'[New(u)] = own[New(u)]
      <3>1. own'[New(u)] = th'[u].nfd /\ own[New(u)] = th[u].nfd
        BY <1>0 DEF OwnIs
      <3> QED BY <3>1 DEF Unmoved
    <2>6. ASSUME NEW j \in Nat PROVE own'[Left(j)] = own[Left(j)]
      <3>1. own[Left(j)] = IF j \in 1..Len(leaked) /\ leaked[j].fd # objs[leaked[j].obj].num THEN leaked[j].fd ELSE -1
        BY <1>0 DEF OwnIs
      <3>2. own'[Left(j)] = IF j \in 1..Len(leaked') /\ leaked'[j].fd # objs'[leaked'[j].obj].num THEN leaked'[j].fd ELSE -1
        BY <1>0 DEF OwnIs
      <3> QED BY <3>1, <3>2
    <2> QED BY <2>1, <2>2, <2>3, <2>4, <2>5, <2>6 DEF Agree
  <1>5. Accounted(own', host')
    <2>1. own' = own
      BY <1>4, SameOwners
    <2> QED BY <1>0, <2>1
  <1>6. Behinds'
    BY <1>0 DEF Behinds, Live
  <1> QED BY <1>1, <1>2, <1>3, <1>5, <1>6 DEF IInv, Running

\* FsChange
LEMMA FsChangeKeeps ==
  ASSUME IInv, FsChange
  PROVE  IInv'
  <1>1. /\ entries' = entries /\ objs' = objs /\ host' = host /\ leaked' = leaked
        /\ th' = [t \in Threads |-> [th[t] EXCEPT !.stale = th[t].stale \/ th[t].pc \in {"lookup", "found", "lost"}]]
    BY DEF FsChange, table
  <1>2. Unmoved
    <2>1. ASSUME NEW t \in Threads
          PROVE  /\ {"pc", "held", "l", "opened", "nfd"} \subseteq DOMAIN th'[t]
                 /\ th'[t].pc = th[t].pc /\ th'[t].held = th[t].held /\ th'[t].l = th[t].l
                 /\ th'[t].opened = th[t].opened /\ th'[t].nfd = th[t].nfd
      <3>1. {"pc", "held", "l", "opened", "nfd"} \subseteq DOMAIN th[t]
        BY Start DEF Able
      <3>2. PICK b : b = (th[t].stale \/ th[t].pc \in {"lookup", "found", "lost"})
        OBVIOUS
      <3>3. th'[t] = [th[t] EXCEPT !.stale = b]
        BY <1>1, <3>2
      <3> QED BY <3>1, <3>3
    <2>2. DOMAIN th' = Threads
      BY <1>1
    <2> QED BY <2>1, <2>2 DEF Unmoved
  <1> QED BY <1>1, <1>2, Framed

-----------------------------------------------------------------------------
(* The invariant and what follows from it.                                 *)

\* The first descriptors.
LEMMA FirstNodes ==
  /\ \A n \in 0..4 : FirstNode(n) # None
  /\ \A n \in Nat : n \notin 0..4 => FirstNode(n) = None
  <1>1. ASSUME NEW n \in 0..4 PROVE FirstNode(n) # None
    <2>1. n \in 0..1 \/ n = 2 \/ n = 3 \/ n = 4
      OBVIOUS
    <2>2. 2 \notin 0..1 /\ 3 \notin 0..1 /\ 4 \notin 0..1 /\ 3 # 2 /\ 4 # 2 /\ 4 # 3
      OBVIOUS
    <2> QED BY <2>1, <2>2 DEF FirstNode, None
  <1>2. ASSUME NEW n \in Nat, n \notin 0..4 PROVE FirstNode(n) = None
    <2>1. n \notin 0..1 /\ n # 2 /\ n # 3 /\ n # 4
      BY <1>2
    <2> QED BY <2>1 DEF FirstNode
  <1> QED BY <1>1, <1>2

\* It holds at the beginning.
LEMMA InitIInv == Init => IInv
  <1> SUFFICES ASSUME Init PROVE IInv
    OBVIOUS
  <1>0. 1..5 \subseteq Objects /\ 0..4 \subseteq HostFds /\ Objects \subseteq Nat /\ \A o \in Objects : o - 1 \in HostFds /\ o - 1 \in Nat
    <2>1. MaxObjects \in Nat /\ MaxObjects >= 5
      BY Bounds
    <2> QED BY <2>1 DEF Objects, HostFds
  <1>1. ASSUME NEW s \in 0..4
        PROVE  s \in DOMAIN entries /\ {"obj", "base", "inh"} \subseteq DOMAIN entries[s] /\ entries[s].obj = s + 1
    BY DEF Init, NewEntry
  <1>2. DOMAIN entries = 0..4
    BY DEF Init
  <1>3. ASSUME NEW o \in Objects
        PROVE  /\ {"ref", "num", "node", "dirh"} \subseteq DOMAIN objs[o]
               /\ objs[o].ref = (IF o <= 5 THEN 1 ELSE 0) /\ objs[o].num = (IF o <= 5 THEN o - 1 ELSE 0)
               /\ objs[o].node = FirstNode(o - 1)
    BY DEF Init
  <1>4. DOMAIN objs = Objects /\ host = [n \in HostFds |-> FirstNode(n)] /\ th = [t \in Threads |-> Idle] /\ leaked = <<>>
    BY DEF Init
  <1>5. ASSUME NEW t \in Threads PROVE th[t] = Idle /\ Able(th[t]) /\ th[t].pc # "lookup" /\ th[t].held = <<>> /\ th[t].opened = <<>> /\ th[t].nfd = -1
    BY <1>4, IdleAble
  <1>6. Shapes
    <2>1. EntryTable(entries)
      <3>1. IsFiniteSet(0..4)
        <4>1. 0 \in Int /\ 4 \in Int
          OBVIOUS
        <4> QED BY <4>1, FS_Interval
      <3>2. \A s \in 0..4 : s + 1 \in 1..5
        OBVIOUS
      <3> QED BY <1>0, <1>1, <1>2, <3>1, <3>2 DEF EntryTable
    <2>2. ObjectTable(objs)
      <3>1. 0 \in HostFds /\ 0 \in Nat /\ 1 \in Nat
        BY Bounds
      <3> QED BY <1>0, <1>3, <1>4, <3>1 DEF ObjectTable
    <2>3. host = [n \in HostFds |-> host[n]]
      BY <1>4
    <2>4. DOMAIN th = Threads /\ leaked \in Seq(Leased)
      BY <1>4
    <2> QED BY <2>1, <2>2, <2>3, <2>4 DEF Shapes
  <1>7. Running
    BY <1>5 DEF Running
  <1>8. RefsMatch
    <2>1. ASSUME NEW o \in Objects
          PROVE  objs[o].ref = Cardinality(EntriesOf(entries, o)) + Cardinality(LeasesOf(th, o)) + Cardinality(LeakedOf(leaked, o))
      <3>1. LeasesOf(th, o) = {}
        <4>1. ASSUME NEW x \in Leases PROVE ~(x[2] <= Len(th[x[1]].held))
          <5>1. x[1] \in Threads /\ x[2] \in 1..2
            BY DEF Leases
          <5>2. th[x[1]].held = <<>> /\ ~(x[2] <= Len(<<>>))
            BY <1>5, <5>1
          <5> QED BY <5>2
        <4> QED BY <4>1 DEF LeasesOf
      <3>2. LeakedOf(leaked, o) = {}
        <4>1. DOMAIN leaked = {}
          BY <1>4
        <4> QED BY <4>1 DEF LeakedOf
      <3>3. Cardinality({}) = 0
        BY FS_EmptySet
      <3>4. CASE o <= 5
        <4>1. o \in Nat /\ o \in 1..MaxObjects /\ o - 1 \in 0..4 /\ (o - 1) + 1 = o
          <5>1. MaxObjects \in Nat
            BY Bounds
          <5> QED BY <3>4, <5>1 DEF Objects
        <4>2. \A s \in 0..4 : s + 1 = o => s = o - 1
          BY <4>1
        <4>3. EntriesOf(entries, o) = {o - 1}
          BY <1>1, <1>2, <4>1, <4>2 DEF EntriesOf
        <4>4. Cardinality(EntriesOf(entries, o)) = 1
          BY <4>3, FS_Singleton
        <4> QED BY <1>3, <3>1, <3>2, <3>3, <3>4, <4>4
      <3>5. CASE ~(o <= 5)
        <4>1. o \in Nat /\ \A s \in 0..4 : s + 1 # o
          BY <1>0, <3>5
        <4>2. EntriesOf(entries, o) = {}
          BY <1>1, <1>2, <4>1 DEF EntriesOf
        <4> QED BY <1>3, <3>1, <3>2, <3>3, <3>5, <4>2
      <3> QED BY <3>4, <3>5
    <2> QED BY <2>1, Counted
  <1>9. OwnIs(own, objs, th, leaked)
    BY Owns
  <1>10. ASSUME NEW o \in Objects PROVE own[Obj(o)] = IF o <= 5 THEN o - 1 ELSE -1
    <2>1. own[Obj(o)] = IF objs[o].ref > 0 THEN objs[o].num ELSE -1
      BY <1>9 DEF OwnIs
    <2>2. 1 > 0 /\ ~(0 > 0)
      OBVIOUS
    <2> QED BY <1>3, <2>1, <2>2
  <1>11. ASSUME NEW w \in Who PROVE (\E o \in Objects : w = Obj(o)) \/ own[w] = -1
    <2>1. CASE \E t \in Threads, i \in 1..2 : w = Hold(t, i)
      <3>1. PICK t \in Threads, i \in 1..2 : w = Hold(t, i)
        BY <2>1
      <3>2. own[Hold(t, i)] = IF i <= Len(th[t].held) /\ th[t].held[i].fd # objs[th[t].held[i].obj].num
                              THEN th[t].held[i].fd ELSE -1
        BY <1>9 DEF OwnIs
      <3>3. th[t].held = <<>> /\ ~(i <= Len(<<>>))
        BY <1>5
      <3> QED BY <3>1, <3>2, <3>3
    <2>2. CASE \E t \in Threads, i \in Nat : w = Walked(t, i)
      <3>1. PICK t \in Threads, i \in Nat : w = Walked(t, i)
        BY <2>2
      <3>2. own[Walked(t, i)] = IF i \in 1..Len(th[t].opened) THEN th[t].opened[i] ELSE -1
        BY <1>9 DEF OwnIs
      <3>3. th[t].opened = <<>> /\ i \notin 1..Len(<<>>)
        BY <1>5
      <3> QED BY <3>1, <3>2, <3>3
    <2>3. CASE \E t \in Threads : w = New(t)
      <3>1. PICK t \in Threads : w = New(t)
        BY <2>3
      <3>2. own[New(t)] = th[t].nfd
        BY <1>9 DEF OwnIs
      <3> QED BY <1>5, <3>1, <3>2
    <2>4. CASE \E i \in Nat : w = Left(i)
      <3>1. PICK i \in Nat : w = Left(i)
        BY <2>4
      <3>2. own[Left(i)] = IF i \in 1..Len(leaked) /\ leaked[i].fd # objs[leaked[i].obj].num THEN leaked[i].fd ELSE -1
        BY <1>9 DEF OwnIs
      <3>3. i \notin 1..Len(<<>>)
        OBVIOUS
      <3> QED BY <1>4, <3>1, <3>2, <3>3
    <2> QED BY <2>1, <2>2, <2>3, <2>4, Names
  <1>12. own = [w \in Who |-> own[w]]
    BY <1>9 DEF OwnIs
  <1>13. Accounted(own, host)
    <2>1. ASSUME NEW w \in Who PROVE own[w] \in HostFds \cup {-1}
      BY <1>0, <1>10, <1>11
    <2>2. own \in [Who -> HostFds \cup {-1}]
      BY <1>12, <2>1
    <2>3. ASSUME NEW v \in Who, NEW w \in Who, own[v] = own[w], own[v] # -1 PROVE v = w
      <3>1. PICK o \in Objects : v = Obj(o)
        BY <1>11, <2>3
      <3>2. PICK p \in Objects : w = Obj(p)
        BY <1>11, <2>3
      <3>3. o - 1 = p - 1
        BY <1>10, <2>3, <3>1, <3>2
      <3>4. o \in Nat /\ p \in Nat
        BY <1>0
      <3>5. o = p
        BY <3>3, <3>4
      <3> QED BY <3>1, <3>2, <3>5
    <2>4. ASSUME NEW n \in HostFds, n > 2 PROVE host[n] # None <=> \E w \in Who : own[w] = n
      <3>0. n \in Nat /\ host[n] = FirstNode(n) /\ n # -1
        BY <1>4, Bounds
      <3>1. CASE n \in 0..4
        <4>1. n + 1 \in Objects /\ n + 1 <= 5 /\ (n + 1) - 1 = n
          <5>1. n + 1 \in 1..5 /\ n + 1 <= 5 /\ (n + 1) - 1 = n
            BY <3>1
          <5> QED BY <1>0, <5>1
        <4>2. own[Obj(n + 1)] = n /\ Obj(n + 1) \in Who
          BY <1>10, <4>1, Names
        <4> QED BY <3>0, <3>1, <4>2, FirstNodes
      <3>2. CASE n \notin 0..4
        <4>1. ASSUME NEW w \in Who, own[w] = n PROVE FALSE
          <5>1. PICK o \in Objects : w = Obj(o)
            BY <1>11, <3>0, <4>1
          <5>2. o <= 5 /\ n = o - 1 /\ o \in 1..MaxObjects
            BY <1>10, <3>0, <4>1, <5>1 DEF Objects
          <5> QED BY <3>2, <5>2
        <4> QED BY <3>0, <3>2, <4>1, FirstNodes
      <3> QED BY <3>1, <3>2
    <2>5. ASSUME NEW n \in 0..2 PROVE host[n] # None
      <3>1. n \in 0..4 /\ n \in HostFds
        BY Bounds
      <3> QED BY <1>4, <3>1, FirstNodes
    <2>6. ASSUME NEW w \in Who, own[w] \in 0..2 PROVE \E o \in Objects : w = Obj(o)
      BY <1>11, <2>6
    <2> QED BY <2>2, <2>3, <2>4, <2>5, <2>6 DEF Accounted
  <1>14. Behinds
    <2>1. ASSUME NEW o \in Objects, objs[o].ref > 0 PROVE host[objs[o].num] = objs[o].node /\ objs[o].node # None
      <3>1. o <= 5 /\ objs[o].num = o - 1 /\ objs[o].node = FirstNode(o - 1)
        BY <1>3, <2>1
      <3>2. o - 1 \in 0..4 /\ o - 1 \in HostFds
        BY <1>0, <3>1
      <3> QED BY <1>4, <3>1, <3>2, FirstNodes
    <2> QED BY <2>1 DEF Behinds, Live
  <1> QED BY <1>6, <1>7, <1>8, <1>13, <1>14 DEF IInv

-----------------------------------------------------------------------------
(* The invariant.                                                          *)

\* The operations on one descriptor hold its object.
LEMMA FdOperationKeeps ==
  ASSUME IInv, NEW t \in Threads, th[t].pc = "idle", NEW fd, FdOperation(t, fd) \/ fd_readdir(t, fd)
  PROVE  IInv'
  <1>1. \E right, pc : pc \in {"use", "lock"} /\ fd_object_get(t, fd, right, pc)
    BY DEF FdOperation, fd_datasync, fd_pread, fd_pwrite, fd_read, fd_seek, fd_tell, fd_fdstat_set_flags,
           fd_sync, fd_write, fd_advise, fd_allocate, fd_filestat_get, fd_filestat_set_size,
           fd_filestat_set_times, sock_recv, sock_send, sock_shutdown, fd_readdir
  <1> QED BY <1>1, fd_object_getKeeps

\* The calls of the application.
LEMMA CallKeeps ==
  ASSUME IInv, NEW t \in Threads, th[t].pc = "idle", NEW fd, Call(t, fd)
  PROVE  IInv'
  <1>1. CASE FdOperation(t, fd) \/ fd_readdir(t, fd)
    BY <1>1, FdOperationKeeps
  <1>2. CASE fd_close(t, fd)
    BY <1>2, fd_closeKeeps
  <1>3. CASE \E fd2 \in DOMAIN entries : poll_oneoff(t, fd, fd2)
    BY <1>3, poll_oneoffKeeps
  <1>4. CASE \E fd2 \in DOMAIN entries : fd_renumber(t, fd, fd2)
    <2>1. PICK fd2 : fd_renumber(t, fd, fd2)
      BY <1>4
    <2>2. CASE fd = fd2
      <3>1. fd_renumber(t, fd, fd)
        BY <2>1, <2>2, Zenon
      <3> QED BY <3>1, RenumberSameKeeps
    <2>3. CASE fd # fd2
      BY <2>1, <2>3, RenumberKeeps
    <2> QED BY <2>2, <2>3
  <1>5. CASE \E r \in Wants : fd_fdstat_set_rights(t, fd, r)
    BY <1>5, fd_fdstat_set_rightsKeeps
  <1> QED BY <1>1, <1>2, <1>3, <1>4, <1>5 DEF Call

\* Every step keeps the invariant.
LEMMA NextIInv ==
  ASSUME IInv, [Next]_vars
  PROVE  IInv'
  <1>1. CASE UNCHANGED vars
    <2>1. /\ entries' = entries /\ objs' = objs /\ host' = host /\ leaked' = leaked /\ th' = th
      BY <1>1 DEF vars
    <2>2. Unmoved
      BY <2>1, Start DEF Unmoved, Shapes, Able
    <2> QED BY <2>1, <2>2, Framed
  <1>2. CASE FsChange
    BY <1>2, FsChangeKeeps
  <1>3. ASSUME NEW t \in Threads, ReaddirLock(t) \/ Release(t) \/ Resolve(t)
        PROVE  IInv'
    BY <1>3, ReaddirLockKeeps, ReleaseKeeps, ResolveKeeps
  <1>4. ASSUME NEW t \in Threads, Lost(t) \/ SystemCall(t)
        PROVE  IInv'
    <2>1. /\ th[t].pc \in {"found", "lost"} /\ th' = [th EXCEPT ![t] = Done(@)]
          /\ objs' = objs /\ entries' = entries /\ host' = host /\ leaked' = leaked
      BY <1>4 DEF Lost, SystemCall, table, Same
    <2> QED BY <2>1, DoneKeeps
  <1>5. ASSUME NEW t \in Threads, ValidateRefuses(t) \/ Openat(t) \/ fd_table_insert(t)
        PROVE  IInv'
    BY <1>5, ValidateRefusesKeeps, OpenatKeeps, fd_table_insertKeeps
  <1>6. ASSUME NEW t \in Threads, NEW fd \in DOMAIN entries, NEW p \in NewPaths, SecondPath(t, fd, p)
        PROVE  IInv'
    BY <1>6, SecondPathKeeps
  <1>7. ASSUME NEW t \in Threads, Ready(t), NEW fd \in DOMAIN entries, Call(t, fd) \/ CallWithPath(t, fd)
        PROVE  IInv'
    <2>1. th[t].pc = "idle"
      BY <1>7 DEF Ready
    <2> QED BY <1>7, <2>1, CallKeeps, CallWithPathKeeps
  <1> QED BY <1>1, <1>2, <1>3, <1>4, <1>5, <1>6, <1>7 DEF Next

\* The descriptors and the objects of an application are accounted for in every state.
THEOREM Accounting == Spec => []IInv
  <1>1. Init => IInv
    BY InitIInv
  <1>2. IInv /\ [Next]_vars => IInv'
    BY NextIInv
  <1> QED BY <1>1, <1>2, PTL DEF Spec

\* What an operation works on is open, and what it was.
LEMMA IInvHeldIsOpen ==
  ASSUME IInv
  PROVE  HeldIsOpen
  <1>0. /\ Shapes /\ Accounted(own, host) /\ Behinds /\ OwnIs(own, objs, th, leaked)
        /\ \A t \in Threads : Able(th[t])
    BY Start, Owns
  <1>1. ASSUME NEW t \in Threads, NEW i \in DOMAIN th[t].held
        PROVE  host[th[t].held[i].fd] # None
    <2>1. i \in 1..Len(th[t].held) /\ i \in 1..2
      <3>1. th[t].held \in Seq(Leased) /\ Len(th[t].held) <= 2
        BY <1>0 DEF Able
      <3>2. PICK h : h = th[t].held
        OBVIOUS
      <3>3. h \in Seq(Leased) /\ Len(h) <= 2 /\ i \in DOMAIN h
        BY <3>1, <3>2, <1>1
      <3>4. i \in 1..Len(h) /\ Len(h) \in Nat
        BY <3>3
      <3>5. i \in 1..2
        BY <3>3, <3>4
      <3> QED BY <3>2, <3>4, <3>5
    <2>2. th[t].held[i].obj \in Objects /\ objs[th[t].held[i].obj].ref > 0
      BY <2>1, Referenced
    <2>3. CASE th[t].held[i].fd = objs[th[t].held[i].obj].num
      BY <1>0, <2>2, <2>3 DEF Behinds, Live
    <2>4. CASE th[t].held[i].fd # objs[th[t].held[i].obj].num
      <3>1. Hold(t, i) \in Who
        BY <2>1, Names
      <3>2. own[Hold(t, i)] = th[t].held[i].fd
        <4>1. own[Hold(t, i)] = IF i <= Len(th[t].held) /\ th[t].held[i].fd # objs[th[t].held[i].obj].num
                                THEN th[t].held[i].fd ELSE -1
          BY <1>0, <2>1 DEF OwnIs
        <4>2. i <= Len(th[t].held)
          BY <2>1
        <4> QED BY <2>4, <4>1, <4>2
      <3>3. th[t].held[i].fd # -1
        <4>1. th[t].held \in Seq(Leased)
          BY <1>0 DEF Able
        <4>2. th[t].held[i] \in Leased
          BY <2>1, <4>1
        <4>3. th[t].held[i].fd \in HostFds
          BY <4>2 DEF Leased
        <4> QED BY <4>3, Bounds
      <3> QED BY <1>0, <3>1, <3>2, <3>3, OwnedOpen
    <2> QED BY <2>3, <2>4
  <1>2. ASSUME NEW t \in Threads, NEW i \in DOMAIN th[t].opened
        PROVE  host[th[t].opened[i]] = th[t].l.fds[i + 1]
    <2>1. th[t].opened \in Seq(HostFds) /\ (th[t].pc # "lookup" => th[t].opened = <<>>)
      BY <1>0 DEF Able
    <2>2. i \in 1..Len(th[t].opened) /\ th[t].opened # <<>>
      BY <2>1, <1>2
    <2>3. th[t].pc = "lookup"
      BY <2>1, <2>2
    <2> QED BY <2>2, <2>3, WalkOpen
  <1> QED BY <1>0, <1>1, <1>2 DEF HeldIsOpen, Behinds

\* What is open belongs to somebody.
LEMMA IInvNothingLost ==
  ASSUME IInv
  PROVE  NothingLost
  <1>0. /\ Shapes /\ Accounted(own, host) /\ OwnIs(own, objs, th, leaked)
        /\ \A t \in Threads : Able(th[t])
    BY Start, Owns
  <1> SUFFICES ASSUME NEW n \in HostFds, n > 2, host[n] # None
               PROVE  \/ \E o \in Live : objs[o].num = n
                      \/ \E t \in Threads : \/ n \in Range(th[t].opened) \/ th[t].nfd = n
                                            \/ \E i \in DOMAIN th[t].held : th[t].held[i].fd = n
                      \/ \E i \in DOMAIN leaked : leaked[i].fd = n
    BY DEF NothingLost
  <1>1. PICK w \in Who : own[w] = n
    BY <1>0 DEF Accounted
  <1>2. n # -1
    BY Bounds
  <1>3. ASSUME NEW o \in Objects, w = Obj(o)
        PROVE  \E p \in Live : objs[p].num = n
    <2>1. own[Obj(o)] = IF objs[o].ref > 0 THEN objs[o].num ELSE -1
      BY <1>0 DEF OwnIs
    <2> QED BY <1>1, <1>2, <1>3, <2>1 DEF Live
  <1>4. ASSUME NEW t \in Threads, NEW i \in 1..2, w = Hold(t, i)
        PROVE  \E j \in DOMAIN th[t].held : th[t].held[j].fd = n
    <2>1. own[Hold(t, i)] = IF i <= Len(th[t].held) /\ th[t].held[i].fd # objs[th[t].held[i].obj].num
                            THEN th[t].held[i].fd ELSE -1
      BY <1>0 DEF OwnIs
    <2>2. i <= Len(th[t].held) /\ th[t].held[i].fd = n
      BY <1>1, <1>2, <1>4, <2>1
    <2>3. th[t].held \in Seq(Leased)
      BY <1>0 DEF Able
    <2>4. i \in DOMAIN th[t].held
      BY <2>2, <2>3
    <2> QED BY <2>2, <2>4
  <1>5. ASSUME NEW t \in Threads, NEW i \in Nat, w = Walked(t, i)
        PROVE  n \in Range(th[t].opened)
    <2>1. own[Walked(t, i)] = IF i \in 1..Len(th[t].opened) THEN th[t].opened[i] ELSE -1
      BY <1>0 DEF OwnIs
    <2>2. i \in 1..Len(th[t].opened) /\ th[t].opened[i] = n
      BY <1>1, <1>2, <1>5, <2>1
    <2>3. th[t].opened \in Seq(HostFds)
      BY <1>0 DEF Able
    <2>4. i \in DOMAIN th[t].opened
      BY <2>2, <2>3
    <2> QED BY <2>2, <2>4 DEF Range
  <1>6. ASSUME NEW t \in Threads, w = New(t)
        PROVE  th[t].nfd = n
    BY <1>0, <1>1, <1>6 DEF OwnIs
  <1>7. ASSUME NEW i \in Nat, w = Left(i)
        PROVE  \E j \in DOMAIN leaked : leaked[j].fd = n
    <2>1. own[Left(i)] = IF i \in 1..Len(leaked) /\ leaked[i].fd # objs[leaked[i].obj].num
                         THEN leaked[i].fd ELSE -1
      BY <1>0 DEF OwnIs
    <2>2. i \in 1..Len(leaked) /\ leaked[i].fd = n
      BY <1>1, <1>2, <1>7, <2>1
    <2>3. leaked \in Seq(Leased)
      BY <1>0 DEF Shapes
    <2>4. i \in DOMAIN leaked
      BY <2>2, <2>3
    <2> QED BY <2>2, <2>4
  <1> QED BY <1>3, <1>4, <1>5, <1>6, <1>7, Names

\* The reference count of an object is the number of its users, and it is freed when
\* the last one is gone (refcount.h).
THEOREM RefsMatchCorrect == Spec => []RefsMatch
  <1>1. IInv => RefsMatch
    BY Start
  <1> QED BY <1>1, Accounting, PTL

\* No descriptor of the host is closed, and reused, under an operation that works on it.
THEOREM HeldIsOpenCorrect == Spec => []HeldIsOpen
  <1>1. IInv => HeldIsOpen
    BY IInvHeldIsOpen
  <1> QED BY <1>1, Accounting, PTL

\* No operation, however it ends, leaves a descriptor of the host that nobody knows;
\* those of path_link and path_symlink are the ones of the leases they leave behind.
THEOREM NothingLostCorrect == Spec => []NothingLost
  <1>1. IInv => NothingLost
    BY IInvNothingLost
  <1> QED BY <1>1, Accounting, PTL

-----------------------------------------------------------------------------
(* Rights.                                                                 *)

\* An entry s after a step has the rights of an entry before it, or less, or is new.
Passed(s) ==
  \E f \in DOMAIN entries : /\ entries[f].obj = entries'[s].obj
                            /\ entries'[s].base \subseteq entries[f].base
                            /\ entries'[s].inh \subseteq entries[f].inh
Fresh(s) ==
  /\ \A f \in DOMAIN entries : entries[f].obj # entries'[s].obj
  /\ \E t \in Threads :
       /\ th[t].pc = "insert"
       /\ entries'[s].inh \subseteq th[t].may
       /\ entries'[s].base \subseteq TypeRights(host[th[t].nfd], TRUE, TRUE).base
       /\ "FD_WRITE" \in entries'[s].base => th[t].may \cap WRITING # {}

\* What a thread asks for its directory could pass on when it was asked.
Entitled(r) == {"want", "may"} \subseteq DOMAIN r /\ r.want.base \cup r.want.inh \subseteq r.may
AllEntitled == \A t \in Threads : Entitled(th[t])

\* An entry that stays has its rights.
LEMMA StaysPassed ==
  ASSUME NEW s \in DOMAIN entries, entries'[s] = entries[s]
  PROVE  Passed(s)
  BY DEF Passed

\* fd_renumber passes the rights of one descriptor on to the other.
LEMMA RenumberPasses ==
  ASSUME NEW t, NEW from, NEW to, fd_renumber(t, from, to), NEW s \in DOMAIN entries'
  PROVE  Passed(s)
  <1>1. from \in DOMAIN entries /\ to \in DOMAIN entries
    BY DEF fd_renumber, Granted
  <1>2. CASE from = to
    <2>1. entries' = entries
      BY <1>2 DEF fd_renumber
    <2> QED BY <2>1, StaysPassed
  <1>3. CASE from # to
    <2>1. PICK E : E = [entries EXCEPT ![to] = entries[from]]
      OBVIOUS
    <2>2. entries' = Detached(E, from)
      BY <1>3, <2>1 DEF fd_renumber
    <2>3. DOMAIN E = DOMAIN entries /\ s \in DOMAIN E /\ entries'[s] = E[s]
      BY <2>1, <2>2 DEF Detached
    <2>4. CASE s = to
      <3>1. entries'[s] = entries[from]
        BY <1>1, <2>1, <2>3, <2>4
      <3> QED BY <1>1, <3>1 DEF Passed
    <2>5. CASE s # to
      <3>1. entries'[s] = entries[s] /\ s \in DOMAIN entries
        BY <2>1, <2>3, <2>5
      <3> QED BY <3>1, StaysPassed
    <2> QED BY <2>4, <2>5
  <1> QED BY <1>2, <1>3

\* fd_fdstat_set_rights takes away.
LEMMA SetRightsPasses ==
  ASSUME IInv, NEW t, NEW fd, NEW r, fd_fdstat_set_rights(t, fd, r), NEW s \in DOMAIN entries'
  PROVE  Passed(s)
  <1>1. /\ fd \in DOMAIN entries /\ r.base \subseteq entries[fd].base /\ r.inh \subseteq entries[fd].inh
        /\ entries' = [entries EXCEPT ![fd] = [entries[fd] EXCEPT !.base = r.base, !.inh = r.inh]]
    BY DEF fd_fdstat_set_rights, Granted
  <1>2. {"obj", "base", "inh"} \subseteq DOMAIN entries[fd]
    BY <1>1, Start DEF Shapes, EntryTable
  <1>3. s \in DOMAIN entries
    BY <1>1
  <1>4. CASE s = fd
    <2>1. entries'[s] = [entries[fd] EXCEPT !.base = r.base, !.inh = r.inh]
      BY <1>1, <1>4
    <2>2. entries'[s].obj = entries[fd].obj /\ entries'[s].base = r.base /\ entries'[s].inh = r.inh
      BY <1>2, <2>1
    <2> QED BY <1>1, <2>2 DEF Passed
  <1>5. CASE s # fd
    <2>1. entries'[s] = entries[s]
      BY <1>1, <1>3, <1>5
    <2> QED BY <1>3, <2>1, StaysPassed
  <1> QED BY <1>4, <1>5

\* The rights of what is opened are those of its type, and it is written to only if a
\* right to write was asked for.
LEMMA NewRightsWithin ==
  ASSUME NEW node, NEW want, NEW rights, rights = NewRights(node, want)
  PROVE  /\ rights.inh \subseteq want.inh
         /\ rights.base \subseteq TypeRights(node, TRUE, TRUE).base
         /\ "FD_WRITE" \in rights.base => want.base \cap WRITING # {}
  <1>1. PICK rd, wr : rd = Reads(want) /\ wr = Writes(want)
    OBVIOUS
  <1>2. PICK max : max = TypeRights(node, rd, wr)
    OBVIOUS
  <1>3. rights = [base |-> (want.base \cup max.base) \cap max.base, inh |-> want.inh \cap max.inh]
    BY <1>1, <1>2 DEF NewRights
  <1>4. max.base \subseteq TypeRights(node, TRUE, TRUE).base /\ (~wr => "FD_WRITE" \notin max.base)
    BY <1>2 DEF TypeRights
  <1>5. rights.inh \subseteq want.inh /\ rights.base \subseteq max.base
    BY <1>3
  <1> QED BY <1>1, <1>4, <1>5 DEF Writes

\* fd_table_insert gives the object that it made no more than its directory could pass on.
LEMMA InsertPasses ==
  ASSUME IInv, AllEntitled, NEW t \in Threads, fd_table_insert(t), NEW s \in DOMAIN entries'
  PROVE  Passed(s) \/ Fresh(s)
  <1>1. PICK o : o = Min({x \in Objects : objs[x].ref = 0})
    OBVIOUS
  <1>2. PICK rights : rights = NewRights(host[th[t].nfd], th[t].want)
    OBVIOUS
  <1>3. PICK free : free = (0..Grown(0, 1) - 1) \ DOMAIN entries
    OBVIOUS
  <1>4. \/ /\ \E x \in Objects : objs[x].ref = 0
           /\ \E q \in free : Comes(entries, q, NewEntry(o, rights), entries')
        \/ entries' = entries
    BY <1>1, <1>2, <1>3 DEF fd_table_insert, table, Comes
  <1>5. CASE entries' = entries
    BY <1>5, StaysPassed
  <1>6. CASE /\ \E x \in Objects : objs[x].ref = 0
             /\ \E q \in free : Comes(entries, q, NewEntry(o, rights), entries')
    <2>1. PICK q : entries' = [x \in DOMAIN entries \cup {q} |-> IF x = q THEN NewEntry(o, rights) ELSE entries[x]]
      BY <1>6 DEF Comes
    <2>2. CASE s = q
      <3>1. entries'[s] = NewEntry(o, rights)
        BY <2>1, <2>2
      <3>2. entries'[s].obj = o /\ entries'[s].inh = rights.inh /\ entries'[s].base = rights.base
        BY <3>1 DEF NewEntry
      <3>3. o \in Objects /\ objs[o].ref = 0
        <4> DEFINE S == {x \in Objects : objs[x].ref = 0}
        <4>1. S \in SUBSET Nat /\ S # {}
          BY <1>6, Bounds DEF Objects
        <4>2. \E x \in S : \A y \in S : x <= y
          BY <4>1, Least
        <4>3. o = CHOOSE x \in S : \A y \in S : x <= y
          BY <1>1 DEF Min
        <4>4. o \in S
          BY <4>2, <4>3
        <4> QED BY <4>4
      <3>4. \A f \in DOMAIN entries : entries[f].obj # o
        <4>1. \A f \in DOMAIN entries : objs[entries[f].obj].ref > 0
          BY Referenced
        <4> QED BY <3>3, <4>1
      <3>5. /\ rights.inh \subseteq th[t].want.inh
            /\ rights.base \subseteq TypeRights(host[th[t].nfd], TRUE, TRUE).base
            /\ "FD_WRITE" \in rights.base => th[t].want.base \cap WRITING # {}
        BY <1>2, NewRightsWithin
      <3>6. th[t].pc = "insert"
        BY DEF fd_table_insert
      <3>7. th[t].want.base \subseteq th[t].may /\ th[t].want.inh \subseteq th[t].may
        BY DEF AllEntitled, Entitled
      <3> QED BY <3>2, <3>4, <3>5, <3>6, <3>7 DEF Fresh
    <2>3. CASE s # q
      <3>1. s \in DOMAIN entries /\ entries'[s] = entries[s]
        BY <2>1, <2>3
      <3> QED BY <3>1, StaysPassed
    <2> QED BY <2>2, <2>3
  <1> QED BY <1>4, <1>5, <1>6

\* No step gives a descriptor more.
LEMMA RightsPassed ==
  ASSUME IInv, AllEntitled, [Next]_vars, NEW s \in DOMAIN entries'
  PROVE  Passed(s) \/ Fresh(s)
  <1>1. CASE entries' = entries
    BY <1>1, StaysPassed
  <1>2. CASE \E t \in Threads : \E fd : fd_close(t, fd)
    <2>1. PICK fd : entries' = Detached(entries, fd)
      BY <1>2 DEF fd_close
    <2>2. s \in DOMAIN entries /\ entries'[s] = entries[s]
      BY <2>1 DEF Detached
    <2> QED BY <2>2, StaysPassed
  <1>3. CASE \E t \in Threads : \E from, to : fd_renumber(t, from, to)
    BY <1>3, RenumberPasses
  <1>4. CASE \E t \in Threads : \E fd, r : fd_fdstat_set_rights(t, fd, r)
    BY <1>4, SetRightsPasses
  <1>5. CASE \E t \in Threads : fd_table_insert(t)
    BY <1>5, InsertPasses
  <1>6. ASSUME NEW t \in Threads, NEW fd, FdOperation(t, fd) \/ fd_readdir(t, fd)
        PROVE  entries' = entries
    <2>1. \E right, pc : fd_object_get(t, fd, right, pc)
      BY <1>6 DEF FdOperation, fd_datasync, fd_pread, fd_pwrite, fd_read, fd_seek, fd_tell, fd_fdstat_set_flags,
             fd_sync, fd_write, fd_advise, fd_allocate, fd_filestat_get, fd_filestat_set_size,
             fd_filestat_set_times, sock_recv, sock_send, sock_shutdown, fd_readdir
    <2> QED BY <2>1 DEF fd_object_get, table
  <1>7. ASSUME NEW t \in Threads, NEW fd, CallWithPath(t, fd)
        PROVE  entries' = entries
    <2>1. \E r, path, follow, final, base, inh : path_get(t, r, fd, path, follow, final, base, inh)
      <3>1. CASE \E p, follow : PathOperation(t, fd, p, follow)
        BY <3>1 DEF PathOperation, PathCall, path_create_directory, path_readlink, path_filestat_get,
               path_filestat_set_times, path_unlink_file, path_remove_directory, path_symlink, path_link, path_rename
      <3>2. CASE \E p, follow, f, w : path_open(t, fd, p, follow, f, w)
        BY <3>2 DEF path_open
      <3> QED BY <1>7, <3>1, <3>2 DEF CallWithPath
    <2> QED BY <2>1 DEF path_get, table
  <1>8. ASSUME NEW t \in Threads, \/ ReaddirLock(t) \/ Release(t) \/ Resolve(t) \/ Lost(t) \/ SystemCall(t)
                                  \/ ValidateRefuses(t) \/ Openat(t)
        PROVE  entries' = entries
    BY <1>8 DEF ReaddirLock, Release, Resolve, Lost, SystemCall, ValidateRefuses, Openat, table
  <1>9. ASSUME NEW t \in Threads, NEW fd, NEW p, SecondPath(t, fd, p)
        PROVE  entries' = entries
    BY <1>9 DEF SecondPath, path_get, table
  <1>10. ASSUME NEW t \in Threads, NEW fd, NEW fd2, poll_oneoff(t, fd, fd2)
         PROVE  entries' = entries
    BY <1>10 DEF poll_oneoff, table
  <1>11. FsChange \/ UNCHANGED vars => entries' = entries
    BY DEF FsChange, table, vars
  <1>12. ASSUME NEW t \in Threads, NEW fd, Call(t, fd)
         PROVE  Passed(s) \/ Fresh(s)
    BY <1>1, <1>2, <1>3, <1>4, <1>6, <1>10, <1>12 DEF Call
  <1> QED BY <1>1, <1>5, <1>7, <1>8, <1>9, <1>11, <1>12 DEF Next

\* A thread that does nothing asks for nothing.
LEMMA IdleEntitled ==
  ASSUME NEW q, {"want", "may"} \subseteq DOMAIN q, q.want = NoWant, q.may = {}
  PROVE  Entitled(q)
  <1>1. NoWant.base = {} /\ NoWant.inh = {}
    BY DEF NoWant
  <1> QED BY <1>1 DEF Entitled

\* A thread goes on with what it has asked for, or asks for what may be passed on.
LEMMA EntitledHere ==
  ASSUME IInv, AllEntitled, NEW t \in Threads, NEW q, Entitled(q), th' = [th EXCEPT ![t] = q]
  PROVE  AllEntitled'
  <1>1. DOMAIN th = Threads
    BY Start DEF Shapes
  <1>2. ASSUME NEW u \in Threads PROVE Entitled(th'[u])
    BY <1>1 DEF AllEntitled
  <1> QED BY <1>2 DEF AllEntitled, Entitled

\* The calls on descriptors start anew.
LEMMA CallEntitled ==
  ASSUME IInv, AllEntitled, NEW t \in Threads, NEW fd, Call(t, fd)
  PROVE  AllEntitled'
  <1>1. PICK pc, held : \/ th' = [th EXCEPT ![t] = [Idle EXCEPT !.pc = pc, !.held = held]]
                        \/ th' = [th EXCEPT ![t] = [Idle EXCEPT !.pc = pc]]
                        \/ th' = [th EXCEPT ![t] = Idle]
    <2>1. CASE FdOperation(t, fd) \/ fd_readdir(t, fd)
      <3>1. \E right, pc : fd_object_get(t, fd, right, pc)
        BY <2>1 DEF FdOperation, fd_datasync, fd_pread, fd_pwrite, fd_read, fd_seek, fd_tell, fd_fdstat_set_flags,
               fd_sync, fd_write, fd_advise, fd_allocate, fd_filestat_get, fd_filestat_set_size,
               fd_filestat_set_times, sock_recv, sock_send, sock_shutdown, fd_readdir
      <3> QED BY <3>1 DEF fd_object_get, Begin
    <2>2. CASE fd_close(t, fd)
      BY <2>2 DEF fd_close, Begin
    <2>3. CASE \E fd2 \in DOMAIN entries : poll_oneoff(t, fd, fd2)
      BY <2>3 DEF poll_oneoff, Begin
    <2>4. CASE \E fd2 \in DOMAIN entries : fd_renumber(t, fd, fd2)
      BY <2>4 DEF fd_renumber, Begin
    <2>5. CASE \E r \in Wants : fd_fdstat_set_rights(t, fd, r)
      BY <2>5 DEF fd_fdstat_set_rights, Begin
    <2> QED BY <2>1, <2>2, <2>3, <2>4, <2>5 DEF Call
  <1>2. PICK a, b : a = [Idle EXCEPT !.pc = pc, !.held = held] /\ b = [Idle EXCEPT !.pc = pc]
    OBVIOUS
  <1>3. Entitled(a) /\ Entitled(b) /\ Entitled(Idle)
    <2>1. /\ {"want", "may"} \subseteq DOMAIN a /\ a.want = NoWant /\ a.may = {}
          /\ {"want", "may"} \subseteq DOMAIN b /\ b.want = NoWant /\ b.may = {}
          /\ {"want", "may"} \subseteq DOMAIN Idle /\ Idle.want = NoWant /\ Idle.may = {}
      BY <1>2 DEF Idle
    <2> QED BY <2>1, IdleEntitled
  <1> QED BY <1>1, <1>2, <1>3, EntitledHere

\* path_get keeps what was asked for.
LEMMA path_getEntitled ==
  ASSUME IInv, AllEntitled, NEW t \in Threads, NEW r, Entitled(r), NEW fd, NEW path, NEW follow, NEW final,
         NEW base, NEW inh, path_get(t, r, fd, path, follow, final, base, inh)
  PROVE  AllEntitled'
  <1>1. PICK x : x = entries[fd].obj
    OBVIOUS
  <1>2. PICK l : l = StartLookup(objs[x].node, path, follow, final)
    OBVIOUS
  <1>3. PICK q : q = [r EXCEPT !.pc = "lookup", !.held = Append(@, Lease(x)), !.path = path, !.l = l,
                               !.opened = <<>>, !.stale = FALSE]
    OBVIOUS
  <1>4. th' = [th EXCEPT ![t] = q]
    BY <1>1, <1>2, <1>3 DEF path_get
  <1>5. Entitled(q)
    BY <1>3 DEF Entitled
  <1> QED BY <1>4, <1>5, EntitledHere

\* path_open asks for no more than the directory passes on: fd_object_get has tested it.
LEMMA CallWithPathEntitled ==
  ASSUME IInv, AllEntitled, NEW t \in Threads, NEW fd, CallWithPath(t, fd)
  PROVE  AllEntitled'
  <1>1. ASSUME NEW op, NEW p, NEW follow, NEW final, NEW right, PathCall(t, op, fd, p, follow, final, right)
        PROVE  AllEntitled'
    <2>1. PICK r : r = [Idle EXCEPT !.op = op]
      OBVIOUS
    <2>2. {"want", "may"} \subseteq DOMAIN r /\ r.want = NoWant /\ r.may = {}
      BY <2>1 DEF Idle
    <2>3. path_get(t, r, fd, p, follow, final, {right}, {})
      BY <1>1, <2>1 DEF PathCall
    <2> QED BY <2>2, <2>3, IdleEntitled, path_getEntitled
  <1>2. CASE \E p, follow : PathOperation(t, fd, p, follow)
    BY <1>1, <1>2 DEF PathOperation, path_create_directory, path_readlink, path_filestat_get,
         path_filestat_set_times, path_unlink_file, path_remove_directory, path_symlink, path_link, path_rename
  <1>3. ASSUME NEW p, NEW follow, NEW f, NEW w, path_open(t, fd, p, follow, f, w)
        PROVE  AllEntitled'
    <2>1. PICK r : r = Opening(fd, w)
      OBVIOUS
    <2>2. PICK base, inh, final : inh = NeededInheriting(f, w) /\ path_get(t, r, fd, p, follow, final, base, inh)
      BY <1>3, <2>1 DEF path_open
    <2>3. {"want", "may"} \subseteq DOMAIN r /\ r.want = w /\ r.may = entries[fd].inh
      BY <2>1 DEF Idle, Opening
    <2>4. w.base \cup w.inh \subseteq inh
      BY <2>2 DEF NeededInheriting
    <2>5. inh \subseteq entries[fd].inh
      BY <2>2 DEF path_get, Granted
    <2>6. Entitled(r)
      BY <2>3, <2>4, <2>5 DEF Entitled
    <2> QED BY <2>2, <2>6, path_getEntitled
  <1> QED BY <1>2, <1>3 DEF CallWithPath

\* A thread that goes on keeps what it asked for until it is done.
LEMMA GoesOnEntitled ==
  ASSUME IInv, AllEntitled, NEW t \in Threads, NEW fd, NEW p,
         \/ ReaddirLock(t) \/ Release(t) \/ Resolve(t) \/ Lost(t) \/ SystemCall(t)
         \/ ValidateRefuses(t) \/ Openat(t) \/ fd_table_insert(t) \/ SecondPath(t, fd, p)
  PROVE  AllEntitled'
  <1>0. /\ {"want", "may"} \subseteq DOMAIN th[t] /\ Entitled(th[t])
        /\ {"pc", "held", "l", "opened", "nfd"} \subseteq DOMAIN th[t] /\ DOMAIN th = Threads
    BY Start DEF AllEntitled, Entitled, Able, Shapes
  <1>1. Entitled(Idle)
    <2>1. {"want", "may"} \subseteq DOMAIN Idle /\ Idle.want = NoWant /\ Idle.may = {}
      BY DEF Idle
    <2> QED BY <2>1, IdleEntitled
  <1>2. ASSUME NEW q, {"want", "may"} \subseteq DOMAIN q, q.want = th[t].want, q.may = th[t].may
        PROVE  Entitled(q)
    BY <1>0, <1>2 DEF Entitled
  <1>3. PICK d : d = Done(th[t])
    OBVIOUS
  <1>4. {"want", "may", "nfd"} \subseteq DOMAIN d /\ d.want = th[t].want /\ d.may = th[t].may
    BY <1>0, <1>3 DEF Done
  <1>5. CASE Lost(t) \/ SystemCall(t)
    <2>1. th' = [th EXCEPT ![t] = d]
      BY <1>3, <1>5 DEF Lost, SystemCall
    <2> QED BY <1>2, <1>4, <2>1, EntitledHere
  <1>6. CASE ValidateRefuses(t) \/ fd_table_insert(t)
    <2>1. th' = [th EXCEPT ![t] = Idle]
      BY <1>6 DEF ValidateRefuses, fd_table_insert
    <2> QED BY <1>1, <2>1, EntitledHere
  <1>7. CASE Openat(t)
    <2>1. PICK q : q = [d EXCEPT !.nfd = FreeHost(host)]
      OBVIOUS
    <2>2. th' = [th EXCEPT ![t] = q] \/ th' = [th EXCEPT ![t] = d]
      BY <1>3, <1>7, <2>1 DEF Openat
    <2>3. {"want", "may"} \subseteq DOMAIN q /\ q.want = th[t].want /\ q.may = th[t].may
      BY <1>4, <2>1
    <2> QED BY <1>2, <1>4, <2>2, <2>3, EntitledHere
  <1>8. CASE ReaddirLock(t)
    <2>1. PICK pc : th' = [th EXCEPT ![t].pc = pc]
      BY <1>8 DEF ReaddirLock
    <2>2. PICK q : q = [th[t] EXCEPT !.pc = pc]
      OBVIOUS
    <2>3. {"want", "may"} \subseteq DOMAIN q /\ q.want = th[t].want /\ q.may = th[t].may
      BY <1>0, <2>2
    <2>4. th' = [th EXCEPT ![t] = q]
      BY <1>0, <2>1, <2>2
    <2> QED BY <1>2, <2>3, <2>4, EntitledHere
  <1>9. CASE Release(t)
    <2>1. PICK a, b : a = [th[t] EXCEPT !.held = Tail(@)] /\ b = [th[t] EXCEPT !.held = <<>>, !.pc = "insert"]
      OBVIOUS
    <2>2. PICK q : q = AfterPut(th[t]) /\ th' = [th EXCEPT ![t] = q]
      BY <1>9 DEF Release
    <2>3. q = a \/ q = b \/ q = Idle
      BY <2>1, <2>2 DEF AfterPut
    <2>4. /\ {"want", "may"} \subseteq DOMAIN a /\ a.want = th[t].want /\ a.may = th[t].may
          /\ {"want", "may"} \subseteq DOMAIN b /\ b.want = th[t].want /\ b.may = th[t].may
      BY <1>0, <2>1
    <2>5. Entitled(q)
      BY <1>1, <1>2, <2>3, <2>4
    <2> QED BY <2>2, <2>5, EntitledHere
  <1>10. CASE Resolve(t)
    <2>1. PICK l, s, h : Walk(t, l, s, h)
      BY <1>10 DEF Resolve
    <2>2. CASE l.st = "ok"
      <3>1. PICK i, k : i = Len(th[t].held) /\ k = Len(s)
        OBVIOUS
      <3>2. PICK q : q = [th[t] EXCEPT !.l = l, !.opened = <<>>, !.pc = "found",
                                       !.held[i].fd = IF k = 0 THEN @ ELSE s[k]]
        OBVIOUS
      <3>3. th' = [th EXCEPT ![t] = q]
        BY <2>1, <2>2, <3>1, <3>2 DEF Walk
      <3>4. {"want", "may"} \subseteq DOMAIN q /\ q.want = th[t].want /\ q.may = th[t].may
        BY <1>0, <3>2
      <3> QED BY <1>2, <3>3, <3>4, EntitledHere
    <2>3. CASE l.st # "ok"
      <3>1. PICK pc : pc = IF l.st = "run" THEN "lookup" ELSE "lost"
        OBVIOUS
      <3>2. PICK q : q = [th[t] EXCEPT !.l = l, !.opened = s, !.pc = pc]
        OBVIOUS
      <3>3. th' = [th EXCEPT ![t] = q]
        BY <2>1, <2>3, <3>1, <3>2 DEF Walk
      <3>4. {"want", "may"} \subseteq DOMAIN q /\ q.want = th[t].want /\ q.may = th[t].may
        BY <1>0, <3>2
      <3> QED BY <1>2, <3>3, <3>4, EntitledHere
    <2> QED BY <2>2, <2>3
  <1>11. CASE SecondPath(t, fd, p)
    <2>1. PICK r, right : /\ r = th[t]
                          /\ \/ path_get(t, r, fd, p, FALSE, TRUE, {right}, {})
                             \/ th' = [th EXCEPT ![t] = d]
      BY <1>3, <1>11 DEF SecondPath
    <2>2. CASE path_get(t, r, fd, p, FALSE, TRUE, {right}, {})
      BY <1>0, <2>1, <2>2, path_getEntitled
    <2>3. CASE th' = [th EXCEPT ![t] = d]
      BY <1>2, <1>4, <2>3, EntitledHere
    <2> QED BY <2>1, <2>2, <2>3
  <1> QED BY <1>5, <1>6, <1>7, <1>8, <1>9, <1>10, <1>11

\* Every step keeps it.
LEMMA NextEntitled ==
  ASSUME IInv, AllEntitled, [Next]_vars
  PROVE  AllEntitled'
  <1>1. CASE UNCHANGED vars
    BY <1>1 DEF vars, AllEntitled
  <1>2. CASE FsChange
    <2>1. ASSUME NEW t \in Threads PROVE Entitled(th'[t])
      <3>1. PICK b : b = (th[t].stale \/ th[t].pc \in {"lookup", "found", "lost"})
        OBVIOUS
      <3>2. th'[t] = [th[t] EXCEPT !.stale = b]
        BY <1>2, <3>1 DEF FsChange
      <3>3. Entitled(th[t])
        BY DEF AllEntitled
      <3> QED BY <3>2, <3>3 DEF Entitled
    <2> QED BY <2>1 DEF AllEntitled, Entitled
  <1>3. ASSUME NEW t \in Threads, NEW fd \in DOMAIN entries, Call(t, fd) \/ CallWithPath(t, fd)
        PROVE  AllEntitled'
    BY <1>3, CallEntitled, CallWithPathEntitled
  <1>4. ASSUME NEW t \in Threads, \/ ReaddirLock(t) \/ Release(t) \/ Resolve(t) \/ Lost(t) \/ SystemCall(t)
                                  \/ ValidateRefuses(t) \/ Openat(t) \/ fd_table_insert(t)
        PROVE  AllEntitled'
    BY <1>4, GoesOnEntitled
  <1>5. ASSUME NEW t \in Threads, NEW fd \in DOMAIN entries, NEW p \in NewPaths, SecondPath(t, fd, p)
        PROVE  AllEntitled'
    BY <1>5, GoesOnEntitled
  <1> QED BY <1>1, <1>2, <1>3, <1>4, <1>5 DEF Next

\* No call gives a descriptor a right that it lacked, and path_open gives a new one nothing to
\* pass on that its directory could not, and no right to write unless the directory could pass
\* one on, whatever other threads do meanwhile.
THEOREM RightsNeverGrowCorrect == Spec => RightsNeverGrow
  <1>1. Init => AllEntitled
    <2> SUFFICES ASSUME Init, NEW t \in Threads PROVE Entitled(th[t])
      BY DEF AllEntitled
    <2>1. th[t] = Idle
      BY DEF Init
    <2>2. {"want", "may"} \subseteq DOMAIN Idle /\ Idle.want = NoWant /\ Idle.may = {}
      BY DEF Idle
    <2> QED BY <2>1, <2>2, IdleEntitled
  <1>2. IInv /\ AllEntitled /\ [Next]_vars => AllEntitled'
    BY NextEntitled
  <1>3. IInv /\ AllEntitled /\ [Next]_vars =>
          [\A s \in DOMAIN entries' :
             \/ \E f \in DOMAIN entries : /\ entries[f].obj = entries'[s].obj
                                          /\ entries'[s].base \subseteq entries[f].base
                                          /\ entries'[s].inh \subseteq entries[f].inh
             \/ /\ \A f \in DOMAIN entries : entries[f].obj # entries'[s].obj
                /\ \E t \in Threads :
                     /\ th[t].pc = "insert"
                     /\ entries'[s].inh \subseteq th[t].may
                     /\ entries'[s].base \subseteq TypeRights(host[th[t].nfd], TRUE, TRUE).base
                     /\ "FD_WRITE" \in entries'[s].base => th[t].may \cap WRITING # {}]_vars
    BY RightsPassed DEF Passed, Fresh
  <1> QED BY <1>1, <1>2, <1>3, Accounting, PTL DEF Spec, RightsNeverGrow

-----------------------------------------------------------------------------
(* Paths.                                                                  *)

\* A lookup that has stayed under "root".
Under(l) == l.fds \in Seq(Below)

\* An entry that may be used with a path is that of a node under "root".
Rooted(e, O) == e.base \subseteq SOCKET_BASE \/ O[e.obj].node \in Below

Confined ==
  /\ tree \in DOMAIN FileSystems
  /\ \A t \in Threads : Under(th[t].l)
  /\ \A n \in HostFds : n > 2 => host[n] \in Below \cup {None}
  /\ \A s \in DOMAIN entries : Rooted(entries[s], objs)

\* The trees of the file system, seen from "root".
Closed(F) == \A d \in Below : \A x \in DOMAIN F[d].sub : F[d].sub[x] \in Below

\* A name under "root" is that of a node under "root".
LEMMA EntryBelow ==
  ASSUME NEW F, Closed(F), NEW d \in Below, NEW name
  PROVE  Entry(F, d, name) \in Below \cup {None}
  BY DEF Closed, Entry

\* The directory that a lookup has come to.
LEMMA HereBelow ==
  ASSUME NEW l, Under(l), l.fds # <<>>
  PROVE  Here(l) \in Below /\ l.fds[1] \in Below /\ <<l.fds[1]>> \in Seq(Below)
  <1>1. PICK f \in Seq(Below) : f = l.fds
    BY DEF Under
  <1>2. Len(f) \in Nat /\ Len(f) # 0
    BY <1>1, Short
  <1>3. 1 \in 1..Len(f) /\ Len(f) \in 1..Len(f)
    BY <1>2
  <1>4. f[1] \in Below /\ f[Len(f)] \in Below
    BY <1>3
  <1> QED BY <1>1, <1>4 DEF Here

\* One turn of the loop of path_get stays under "root": a component leads down, ".." up
\* the stack and no further, and a symbolic link starts again where it was met.
LEMMA LookupStepUnder ==
  ASSUME NEW l, IsLookup(l), Under(l), NEW F, Closed(F)
  PROVE  Under(LookupStep(l, F))
  <1>0. LookupRecord(l) /\ l.fds \in Seq(Below) /\ l.fds # <<>>
    BY DEF IsLookup, Under
  <1>1. <<l.fds[1]>> \in Seq(Below)
    BY <1>0, HereBelow
  <1>2. ASSUME NEW s, s.fds = l.fds \/ s.fds = <<l.fds[1]>>
        PROVE  Under(s)
    BY <1>0, <1>1, <1>2 DEF Under
  <1> DEFINE p == Cur(l)
             name == Head(p.names)
             rest == Tail(p.names)
             slashes == rest # <<>> \/ p.slash
             at == [l EXCEPT !.paths[Len(l.paths)] = [p EXCEPT !.names = rest]]
  <1>4. LookupRecord(at) /\ at.fds = l.fds
    BY <1>0 DEF LookupRecord
  <1>5. \/ \E e : LookupStep(l, F) = Failed(l, e)
        \/ LookupStep(l, F) = NextPath(at)
        \/ LookupStep(l, F) = Parent(at, F)
        \/ LookupStep(l, F) = Enter(at, F, name, slashes)
        \/ LookupStep(l, F) = Final(at, F, name, slashes)
    BY DEF LookupStep
  <1> HIDE DEF p, name, rest, slashes, at
  <1>6. \A e : Under(Failed(l, e)) /\ Under(Failed(at, e))
    BY <1>0, <1>2, <1>4, FailedFds
  <1>7. Under(NextPath(at))
    BY <1>2, <1>4, NextPathFds
  <1>8. Under(Parent(at, F))
    <2> DEFINE a == [at EXCEPT !.fds = SubSeq(@, 1, Len(@) - 1)]
    <2>1. CASE Len(at.fds) = 1
      BY <2>1, <1>6 DEF Parent
    <2>2. CASE Len(at.fds) # 1
      <3>1. Parent(at, F) = NextPath(a)
        BY <2>2 DEF Parent
      <3>2. LookupRecord(a) /\ a.fds = SubSeq(l.fds, 1, Len(l.fds) - 1)
        BY <1>4 DEF LookupRecord
      <3> HIDE DEF a
      <3>3. NextPath(a).fds = SubSeq(l.fds, 1, Len(l.fds) - 1)
        BY <3>2, NextPathFds
      <3>4. SubSeq(l.fds, 1, Len(l.fds) - 1) \in Seq(Below)
        <4>1. PICK f \in Seq(Below) : f = l.fds
          BY <1>0
        <4>2. Len(f) \in Nat
          OBVIOUS
        <4>3. SubSeq(f, 1, Len(f) - 1) \in Seq(Below)
          BY <4>2
        <4> QED BY <4>1, <4>3
      <3> QED BY <3>1, <3>3, <3>4 DEF Under
    <2> QED BY <2>1, <2>2
  <1>9. Under(Enter(at, F, name, slashes))
    <2> DEFINE n == Entry(F, Here(at), name)
               a == [at EXCEPT !.fds = Append(@, n)]
    <2>1. \/ \E e : Enter(at, F, name, slashes) = Failed(at, e)
          \/ IsDir(F, n) /\ Enter(at, F, name, slashes) = NextPath(a)
          \/ Enter(at, F, name, slashes) = push_symlink(at, F[n].target, slashes)
      BY DEF Enter
    <2>2. LookupRecord(a) /\ a.fds = Append(l.fds, n)
      BY <1>4 DEF LookupRecord
    <2>3. IsDir(F, n) => n \in Below
      <3>1. Under(at) /\ at.fds # <<>>
        BY <1>0, <1>4 DEF Under
      <3>2. Here(at) \in Below
        BY <3>1, HereBelow
      <3>3. n \in Below \cup {None}
        BY <3>2, EntryBelow
      <3> QED BY <3>3 DEF IsDir
    <2> HIDE DEF a, n
    <2>4. NextPath(a).fds = Append(l.fds, n)
      BY <2>2, NextPathFds
    <2>5. IsDir(F, n) => Under(NextPath(a))
      BY <1>0, <2>3, <2>4 DEF Under
    <2>6. Under(push_symlink(at, F[n].target, slashes))
      BY <1>2, <1>4, push_symlinkFds
    <2> QED BY <2>1, <2>5, <2>6, <1>6
  <1>10. Under(Final(at, F, name, slashes))
    <2> DEFINE n == Entry(F, Here(at), name)
               a == [at EXCEPT !.st = "ok", !.file = name, !.slash = slashes, !.paths = <<>>]
    <2>1. \/ Final(at, F, name, slashes) = a
          \/ Final(at, F, name, slashes) = push_symlink(at, F[n].target, slashes)
      BY DEF Final
    <2>2. a.fds = l.fds
      BY <1>4 DEF LookupRecord
    <2> HIDE DEF a, n
    <2>3. Under(a)
      BY <1>2, <2>2
    <2>4. Under(push_symlink(at, F[n].target, slashes))
      BY <1>2, <1>4, push_symlinkFds
    <2> QED BY <2>1, <2>3, <2>4
  <1> QED BY <1>5, <1>6, <1>7, <1>8, <1>9, <1>10

\* The objects keep their nodes, the lookups their directories or stay under "root", and
\* the host opens nothing else.
Kept == \A o \in Objects : objs'[o].node = objs[o].node

LooksOn == \A t \in Threads : th'[t].l = th[t].l \/ Under(th'[t].l)

OpensUnder == \A n \in HostFds : n > 2 => host'[n] \in {host[n], None} \cup Below

\* Then, unless an entry is new, the application is confined as it was.
LEMMA ConfinedStill ==
  ASSUME Confined, tree' \in DOMAIN FileSystems, Kept, LooksOn, OpensUnder,
         IInv, \A s \in DOMAIN entries' : Passed(s)
  PROVE  Confined'
  <1>1. ASSUME NEW t \in Threads PROVE Under(th'[t].l)
    BY DEF LooksOn, Confined
  <1>2. \A n \in HostFds : n > 2 => host'[n] \in Below \cup {None}
    BY DEF OpensUnder, Confined
  <1>3. ASSUME NEW s \in DOMAIN entries' PROVE Rooted(entries'[s], objs')
    <2>1. PICK f \in DOMAIN entries : entries[f].obj = entries'[s].obj /\ entries'[s].base \subseteq entries[f].base
      BY DEF Passed
    <2>2. entries[f].obj \in Objects
      BY Start DEF Shapes, EntryTable
    <2>3. objs'[entries'[s].obj].node = objs[entries[f].obj].node
      BY <2>1, <2>2 DEF Kept
    <2>4. entries[f].base \subseteq SOCKET_BASE \/ objs[entries[f].obj].node \in Below
      BY DEF Confined, Rooted
    <2> QED BY <2>1, <2>3, <2>4 DEF Rooted
  <1> QED BY <1>1, <1>2, <1>3 DEF Confined, Under, Rooted

\* A thread goes on.
LEMMA LooksOnHere ==
  ASSUME IInv, NEW t \in Threads, NEW q, th' = [th EXCEPT ![t] = q], q.l = th[t].l \/ Under(q.l)
  PROVE  LooksOn
  <1>1. DOMAIN th = Threads
    BY Start DEF Shapes
  <1> QED BY <1>1 DEF LooksOn

\* A thread that does nothing looks nothing up.
LEMMA IdleUnder == Idle.l = NoLookup /\ Under(NoLookup) /\ Under(Idle.l)
  <1>1. Idle.l = NoLookup /\ NoLookup.fds = <<"root">>
    BY DEF Idle, NoLookup, StartLookup
  <1>2. "root" \in Below
    BY BelowAssumption
  <1>3. <<"root">> \in Seq(Below)
    BY <1>2
  <1>4. Under(NoLookup)
    BY <1>1, <1>3 DEF Under
  <1> QED BY <1>1, <1>4

\* An object that is acquired is the same.
LEMMA GetKept ==
  ASSUME IInv, NEW x, objs' = [objs EXCEPT ![x].ref = @ + 1]
  PROVE  Kept
  <1>1. /\ DOMAIN objs = Objects
        /\ \A o \in Objects : {"ref", "num", "node", "dirh"} \subseteq DOMAIN objs[o]
    BY Start DEF Shapes, ObjectTable
  <1> QED BY <1>1 DEF Kept

\* P has the nodes of O, and k what is open in h or less.
Noded(O) == DOMAIN O = Objects /\ \A o \in Objects : "node" \in DOMAIN O[o]

NodesKept(O, P) == \A o \in Objects : P[o].node = O[o].node

Shrinks(h, k) == \A n \in HostFds : k[n] \in {h[n], None}

\* A release frees an object and closes a descriptor, and changes nothing else.
LEMMA ReleaseKept ==
  ASSUME NEW O, Noded(O), NEW h, Fds(h), NEW x, NEW P, P = fd_object_release(O, h, x)
  PROVE  Noded(P[1]) /\ NodesKept(O, P[1]) /\ Fds(P[2]) /\ Shrinks(h, P[2])
  <1> DEFINE a == [O EXCEPT ![x].ref = 0, ![x].dirh = FALSE]
             b == [O EXCEPT ![x].ref = @ - 1]
             g == HostClose(h, O[x].num)
  <1>1. (P[1] = a /\ P[2] = g) \/ (P[1] = b /\ P[2] = h)
    BY DEF fd_object_release
  <1>2. Noded(a) /\ NodesKept(O, a)
    BY DEF Noded, NodesKept
  <1>3. Noded(b) /\ NodesKept(O, b)
    BY DEF Noded, NodesKept
  <1>4. Fds(g) /\ Shrinks(h, g)
    <2>1. PICK m : m = O[x].num
      OBVIOUS
    <2>2. g = h \/ g = [h EXCEPT ![m] = None]
      BY <2>1 DEF HostClose
    <2> QED BY <2>2 DEF Fds, Shrinks
  <1>5. Shrinks(h, h)
    BY DEF Shrinks
  <1> HIDE DEF a, b, g
  <1> QED BY <1>1, <1>2, <1>3, <1>4, <1>5

\* The operations on one descriptor.
LEMMA fd_object_getConfined ==
  ASSUME IInv, Confined, NEW t \in Threads, NEW fd, NEW right, NEW pc, fd_object_get(t, fd, right, pc)
  PROVE  Confined'
  <1>1. PICK q : q = [Idle EXCEPT !.pc = pc, !.held = <<Lease(entries[fd].obj)>>]
    OBVIOUS
  <1>2. /\ objs' = [objs EXCEPT ![entries[fd].obj].ref = @ + 1] /\ th' = [th EXCEPT ![t] = q]
        /\ entries' = entries /\ host' = host /\ tree' = tree
    BY <1>1 DEF fd_object_get, Begin, Same, table
  <1>3. q.l = NoLookup
    BY <1>1 DEF Idle
  <1>4. Kept
    BY <1>2, GetKept
  <1>5. LooksOn
    BY <1>2, <1>3, LooksOnHere, IdleUnder
  <1>6. OpensUnder
    BY <1>2 DEF OpensUnder
  <1>7. \A s \in DOMAIN entries' : Passed(s)
    BY <1>2, StaysPassed
  <1>8. tree' \in DOMAIN FileSystems
    BY <1>2 DEF Confined
  <1> QED BY <1>4, <1>5, <1>6, <1>7, <1>8, ConfinedStill

\* What leaves objects and host alone, and no lookup behind that was not there.
LEMMA QuietConfined ==
  ASSUME IInv, Confined, NEW t \in Threads, NEW q, th' = [th EXCEPT ![t] = q], q.l = th[t].l \/ q.l = NoLookup,
         Kept, host' = host, tree' = tree, \A s \in DOMAIN entries' : Passed(s)
  PROVE  Confined'
  <1>1. LooksOn
    BY LooksOnHere, IdleUnder
  <1>2. OpensUnder /\ tree' \in DOMAIN FileSystems
    BY DEF OpensUnder, Confined
  <1> QED BY <1>1, <1>2, ConfinedStill

\* The operations on the table, and those that go on with what they have.
LEMMA TableConfined ==
  ASSUME IInv, Confined, NEW t \in Threads, NEW fd, NEW fd2, NEW r,
         \/ fd_close(t, fd) \/ fd_fdstat_set_rights(t, fd, r) \/ poll_oneoff(t, fd, fd2)
         \/ ReaddirLock(t) \/ Lost(t) \/ SystemCall(t) \/ ValidateRefuses(t)
  PROVE  Confined'
  <1>0. /\ DOMAIN objs = Objects
        /\ \A o \in Objects : {"ref", "num", "node", "dirh"} \subseteq DOMAIN objs[o]
        /\ {"pc", "held", "l", "opened", "nfd"} \subseteq DOMAIN th[t]
    BY Start DEF Shapes, ObjectTable, Able
  <1>1. objs' = objs => Kept
    BY DEF Kept
  <1>2. entries' = entries => \A s \in DOMAIN entries' : Passed(s)
    BY StaysPassed
  <1>3. CASE fd_close(t, fd)
    <2>1. PICK q : q = [Idle EXCEPT !.pc = "use", !.held = <<Lease(entries[fd].obj)>>]
      OBVIOUS
    <2>2. /\ th' = [th EXCEPT ![t] = q] /\ objs' = objs /\ host' = host /\ tree' = tree
          /\ entries' = Detached(entries, fd)
      BY <1>3, <2>1 DEF fd_close, Begin, Same
    <2>3. q.l = NoLookup
      BY <2>1 DEF Idle
    <2>4. \A s \in DOMAIN entries' : s \in DOMAIN entries /\ entries'[s] = entries[s]
      BY <2>2 DEF Detached
    <2>5. \A s \in DOMAIN entries' : Passed(s)
      BY <2>4, StaysPassed
    <2> QED BY <1>1, <2>2, <2>3, <2>5, QuietConfined
  <1>4. CASE fd_fdstat_set_rights(t, fd, r)
    <2>1. th' = [th EXCEPT ![t] = Idle] /\ objs' = objs /\ host' = host /\ tree' = tree
      BY <1>4 DEF fd_fdstat_set_rights, Begin, Same
    <2>2. \A s \in DOMAIN entries' : Passed(s)
      BY <1>4, SetRightsPasses
    <2> QED BY <1>1, <2>1, <2>2, IdleUnder, QuietConfined
  <1>5. CASE poll_oneoff(t, fd, fd2)
    <2>1. PICK held : held = Subscribed(fd) \o Subscribed(fd2)
      OBVIOUS
    <2>2. PICK q : q = [Idle EXCEPT !.pc = "use", !.held = held]
      OBVIOUS
    <2>3. /\ th' = [th EXCEPT ![t] = q] /\ host' = host /\ tree' = tree /\ entries' = entries
          /\ objs' = [o \in Objects |-> [objs[o] EXCEPT !.ref = @ + Cardinality({i \in DOMAIN held : held[i].obj = o})]]
      BY <1>5, <2>1, <2>2 DEF poll_oneoff, Begin, Same, table
    <2>4. q.l = NoLookup
      BY <2>2 DEF Idle
    <2>5. Kept
      BY <1>0, <2>3 DEF Kept
    <2> QED BY <1>2, <2>3, <2>4, <2>5, QuietConfined
  <1>6. CASE ReaddirLock(t)
    <2>1. PICK o : o = th[t].held[1].obj
      OBVIOUS
    <2>2. /\ host' = host /\ tree' = tree /\ entries' = entries
          /\ \/ th' = [th EXCEPT ![t].pc = "read"] /\ objs' = [objs EXCEPT ![o].dirh = TRUE]
             \/ th' = [th EXCEPT ![t].pc = "use"] /\ objs' = objs
      BY <1>6, <2>1 DEF ReaddirLock, Same, table
    <2>3. PICK pc : th' = [th EXCEPT ![t].pc = pc]
      BY <2>2
    <2>4. PICK q : q = [th[t] EXCEPT !.pc = pc]
      OBVIOUS
    <2>5. th' = [th EXCEPT ![t] = q] /\ q.l = th[t].l
      BY <1>0, <2>3, <2>4
    <2>6. Kept
      BY <1>0, <2>2 DEF Kept
    <2> QED BY <1>2, <2>2, <2>5, <2>6, QuietConfined
  <1>7. CASE Lost(t) \/ SystemCall(t)
    <2>1. PICK q : q = Done(th[t])
      OBVIOUS
    <2>2. th' = [th EXCEPT ![t] = q] /\ objs' = objs /\ host' = host /\ tree' = tree /\ entries' = entries
      BY <1>7, <2>1 DEF Lost, SystemCall, Same, table
    <2>3. q.l = NoLookup
      BY <1>0, <2>1 DEF Done
    <2> QED BY <1>1, <1>2, <2>2, <2>3, QuietConfined
  <1>8. CASE ValidateRefuses(t)
    <2>1. th' = [th EXCEPT ![t] = Idle] /\ objs' = objs /\ host' = host /\ tree' = tree /\ entries' = entries
      BY <1>8 DEF ValidateRefuses, table
    <2> QED BY <1>1, <1>2, <2>1, IdleUnder, QuietConfined
  <1> QED BY <1>3, <1>4, <1>5, <1>6, <1>7, <1>8

\* Objects that are released, with their descriptors.
LEMMA ReleaseConfined ==
  ASSUME IInv, Confined, NEW t \in Threads, Release(t)
  PROVE  Confined'
  <1>0. /\ Noded(objs) /\ Fds(host)
        /\ {"pc", "held", "l", "opened", "nfd"} \subseteq DOMAIN th[t]
    BY Start DEF Shapes, ObjectTable, Able, Noded, Fds
  <1>1. PICK q : q = AfterPut(th[t])
    OBVIOUS
  <1>2. PICK lease : lease = Head(th[t].held)
    OBVIOUS
  <1>3. PICK h : h = IF lease.fd # objs[lease.obj].num THEN [host EXCEPT ![lease.fd] = None] ELSE host
    BY Zenon
  <1>4. PICK P : P = fd_object_release(objs, h, lease.obj)
    BY SMTT(30), ZenonT(30)
  <1>5. th' = [th EXCEPT ![t] = q] /\ objs' = P[1] /\ host' = P[2] /\ entries' = entries /\ tree' = tree
    BY <1>1, <1>2, <1>3, <1>4 DEF Release, path_put, Apply, Same, table
  <1>6. Fds(h) /\ Shrinks(host, h)
    <2>1. PICK m : m = lease.fd
      OBVIOUS
    <2>2. h = host \/ h = [host EXCEPT ![m] = None]
      BY <1>3, <2>1
    <2> QED BY <1>0, <2>2 DEF Fds, Shrinks
  <1>7. NodesKept(objs, P[1]) /\ Shrinks(h, P[2])
    BY <1>0, <1>4, <1>6, ReleaseKept
  <1>8. q.l = th[t].l \/ q.l = NoLookup
    BY <1>0, <1>1 DEF AfterPut, Idle
  <1>9. LooksOn
    BY <1>5, <1>8, LooksOnHere, IdleUnder
  <1>10. Kept
    BY <1>5, <1>7 DEF Kept, NodesKept
  <1>11. OpensUnder
    BY <1>5, <1>6, <1>7 DEF OpensUnder, Shrinks
  <1>12. \A s \in DOMAIN entries' : Passed(s)
    BY <1>5, StaysPassed
  <1> QED BY <1>5, <1>9, <1>10, <1>11, <1>12, ConfinedStill DEF Confined

\* fd_renumber passes on a descriptor with its object.
LEMMA RenumberConfined ==
  ASSUME IInv, Confined, NEW t \in Threads, NEW from, NEW to, fd_renumber(t, from, to)
  PROVE  Confined'
  <1>0. Noded(objs) /\ Fds(host)
    BY Start DEF Shapes, ObjectTable, Noded, Fds
  <1>1. tree' = tree
    BY DEF fd_renumber, Same
  <1>2. \A s \in DOMAIN entries' : Passed(s)
    BY RenumberPasses
  <1>3. LooksOn
    <2>1. PICK c : c = [Idle EXCEPT !.pc = "crashed"]
      OBVIOUS
    <2>2. c.l = NoLookup
      BY <2>1 DEF Idle
    <2>3. th' = [th EXCEPT ![t] = c] \/ th' = [th EXCEPT ![t] = Idle]
      BY <2>1 DEF fd_renumber, Begin
    <2> QED BY <2>2, <2>3, LooksOnHere, IdleUnder
  <1>4. CASE from = to
    <2>1. objs' = objs /\ host' = host
      BY <1>4 DEF fd_renumber
    <2>2. Kept /\ OpensUnder
      BY <2>1 DEF Kept, OpensUnder
    <2> QED BY <1>1, <1>2, <1>3, <2>2, ConfinedStill DEF Confined
  <1>5. CASE from # to
    <2>1. PICK o : o = entries[from].obj
      OBVIOUS
    <2>2. PICK y : y = entries[to].obj
      OBVIOUS
    <2>3. PICK O : O = Acquired(objs, o)
      OBVIOUS
    <2>4. PICK P : P = fd_object_release(O, host, y)
      OBVIOUS
    <2>0. PICK Q : Q = fd_object_release(P[1], P[2], o)
      OBVIOUS
    <2>5. objs' = Q[1] /\ host' = Q[2]
      <3>1. Q = Exchanged(objs, host, o, y)
        BY <2>3, <2>4, <2>0 DEF Exchanged
      <3>2. objs' = Exchanged(objs, host, o, y)[1] /\ host' = Exchanged(objs, host, o, y)[2]
        BY <1>5, <2>1, <2>2 DEF fd_renumber, Apply, Exchanged, Acquired
      <3> QED BY <3>1, <3>2
    <2>6. Noded(O) /\ NodesKept(objs, O)
      BY <1>0, <2>3 DEF Acquired, Noded, NodesKept
    <2>7. Noded(P[1]) /\ NodesKept(O, P[1]) /\ Fds(P[2]) /\ Shrinks(host, P[2])
      BY <1>0, <2>4, <2>6, ReleaseKept
    <2>8. NodesKept(P[1], Q[1]) /\ Shrinks(P[2], Q[2])
      BY <2>0, <2>7, ReleaseKept
    <2>9. Kept
      BY <2>5, <2>6, <2>7, <2>8 DEF Kept, NodesKept
    <2>10. OpensUnder
      BY <2>5, <2>7, <2>8 DEF OpensUnder, Shrinks
    <2> QED BY <1>1, <1>2, <1>3, <2>9, <2>10, ConfinedStill DEF Confined
  <1> QED BY <1>4, <1>5

\* A path starts at a directory under "root": no other descriptor has the rights.
LEMMA path_getConfined ==
  ASSUME IInv, Confined, NEW t \in Threads, NEW r, {"pc", "held", "l", "opened", "nfd"} \subseteq DOMAIN r,
         NEW fd, NEW path, NEW follow, NEW final, NEW base, NEW inh, ~(base \subseteq SOCKET_BASE),
         path_get(t, r, fd, path, follow, final, base, inh)
  PROVE  Confined'
  <1>1. PICK x : x = entries[fd].obj
    OBVIOUS
  <1>2. fd \in DOMAIN entries /\ base \subseteq entries[fd].base
    BY DEF path_get, Granted
  <1>3. objs[x].node \in Below
    BY <1>1, <1>2 DEF Confined, Rooted
  <1>4. PICK l : l = StartLookup(objs[x].node, path, follow, final)
    OBVIOUS
  <1>5. PICK q : q = [r EXCEPT !.pc = "lookup", !.held = Append(@, Lease(x)), !.path = path, !.l = l,
                               !.opened = <<>>, !.stale = FALSE]
    OBVIOUS
  <1>6. /\ objs' = [objs EXCEPT ![x].ref = @ + 1] /\ th' = [th EXCEPT ![t] = q]
        /\ entries' = entries /\ host' = host /\ tree' = tree
    BY <1>1, <1>4, <1>5 DEF path_get, Same, table
  <1>7. q.l = l
    BY <1>5
  <1>8. Under(q.l)
    <2>1. l.fds = <<objs[x].node>>
      BY <1>4 DEF StartLookup
    <2> QED BY <1>3, <1>7, <2>1 DEF Under
  <1>9. LooksOn
    BY <1>6, <1>8, LooksOnHere
  <1>10. Kept
    BY <1>6, GetKept
  <1>11. OpensUnder
    BY <1>6 DEF OpensUnder
  <1>12. \A s \in DOMAIN entries' : Passed(s)
    BY <1>6, StaysPassed
  <1> QED BY <1>6, <1>9, <1>10, <1>11, <1>12, ConfinedStill DEF Confined

\* The calls with a path.
LEMMA CallWithPathConfined ==
  ASSUME IInv, Confined, NEW t \in Threads, NEW fd, CallWithPath(t, fd)
  PROVE  Confined'
  <1>1. ASSUME NEW op, NEW p, NEW follow, NEW final, NEW right, right \notin SOCKET_BASE,
               PathCall(t, op, fd, p, follow, final, right)
        PROVE  Confined'
    <2>1. PICK r : r = [Idle EXCEPT !.op = op]
      OBVIOUS
    <2>2. {"pc", "held", "l", "opened", "nfd"} \subseteq DOMAIN r
      BY <2>1 DEF Idle
    <2>3. path_get(t, r, fd, p, follow, final, {right}, {})
      BY <1>1, <2>1 DEF PathCall
    <2>4. ~({right} \subseteq SOCKET_BASE)
      BY <1>1
    <2> QED BY <2>2, <2>3, <2>4, path_getConfined
  <1>2. CASE \E p, follow : PathOperation(t, fd, p, follow)
    <2>1. \E op, p, follow, final, right : /\ PathCall(t, op, fd, p, follow, final, right)
                                           /\ right \in {"PATH_CREATE_DIRECTORY", "PATH_READLINK", "PATH_FILESTAT_GET",
                                                "PATH_FILESTAT_SET_TIMES", "PATH_UNLINK_FILE", "PATH_REMOVE_DIRECTORY",
                                                "PATH_SYMLINK", "PATH_LINK_SOURCE", "PATH_RENAME_SOURCE"}
      BY <1>2 DEF PathOperation, path_create_directory, path_readlink, path_filestat_get,
             path_filestat_set_times, path_unlink_file, path_remove_directory, path_symlink, path_link, path_rename
    <2>2. \A right \in {"PATH_CREATE_DIRECTORY", "PATH_READLINK", "PATH_FILESTAT_GET",
             "PATH_FILESTAT_SET_TIMES", "PATH_UNLINK_FILE", "PATH_REMOVE_DIRECTORY",
             "PATH_SYMLINK", "PATH_LINK_SOURCE", "PATH_RENAME_SOURCE"} : right \notin SOCKET_BASE
      BY DEF SOCKET_BASE, TTY_BASE
    <2> QED BY <1>1, <2>1, <2>2
  <1>3. ASSUME NEW p, NEW follow, NEW f, NEW w, path_open(t, fd, p, follow, f, w)
        PROVE  Confined'
    <2>1. PICK r : r = Opening(fd, w)
      OBVIOUS
    <2>2. {"pc", "held", "l", "opened", "nfd"} \subseteq DOMAIN r
      BY <2>1 DEF Idle, Opening
    <2>3. PICK base, inh, final : "PATH_OPEN" \in base /\ path_get(t, r, fd, p, follow, final, base, inh)
      BY <1>3, <2>1 DEF path_open, NeededBase
    <2>4. "PATH_OPEN" \notin SOCKET_BASE
      BY DEF SOCKET_BASE, TTY_BASE
    <2> QED BY <2>2, <2>3, <2>4, path_getConfined
  <1> QED BY <1>2, <1>3 DEF CallWithPath

\* The second path of path_link and path_rename.
LEMMA SecondPathConfined ==
  ASSUME IInv, Confined, NEW t \in Threads, NEW fd, NEW p, SecondPath(t, fd, p)
  PROVE  Confined'
  <1>0. {"pc", "held", "l", "opened", "nfd"} \subseteq DOMAIN th[t]
    BY Start DEF Able
  <1>1. PICK right \in {"PATH_LINK_TARGET", "PATH_RENAME_TARGET"} :
          \/ path_get(t, th[t], fd, p, FALSE, TRUE, {right}, {})
          \/ th' = [th EXCEPT ![t] = Done(@)] /\ UNCHANGED <<table, objs, host>> /\ Same
    BY DEF SecondPath
  <1>2. ~({right} \subseteq SOCKET_BASE)
    BY DEF SOCKET_BASE, TTY_BASE
  <1>3. CASE path_get(t, th[t], fd, p, FALSE, TRUE, {right}, {})
    <2>1. PICK r : r = th[t]
      OBVIOUS
    <2>2. path_get(t, r, fd, p, FALSE, TRUE, {right}, {}) /\ {"pc", "held", "l", "opened", "nfd"} \subseteq DOMAIN r
      BY <1>0, <1>3, <2>1
    <2> QED BY <1>2, <2>2, path_getConfined
  <1>4. CASE th' = [th EXCEPT ![t] = Done(@)] /\ UNCHANGED <<table, objs, host>> /\ Same
    <2>1. PICK q : q = Done(th[t])
      OBVIOUS
    <2>2. th' = [th EXCEPT ![t] = q] /\ objs' = objs /\ host' = host /\ tree' = tree /\ entries' = entries
      BY <1>4, <2>1 DEF Same, table
    <2>3. q.l = NoLookup
      BY <1>0, <2>1 DEF Done
    <2>4. Kept /\ \A s \in DOMAIN entries' : Passed(s)
      BY <2>2, StaysPassed DEF Kept
    <2> QED BY <2>2, <2>3, <2>4, QuietConfined
  <1> QED BY <1>1, <1>3, <1>4

\* The tree that is found is one of those assumed.
LEMMA TreeClosed ==
  ASSUME Confined
  PROVE  Closed(fs)
  BY BelowAssumption DEF Confined, Closed, fs

\* The host opens a node under "root" where nothing was.
LEMMA HostOpenUnder ==
  ASSUME IInv, NEW node \in Below, NEW h, h = HostOpen(host, node)
  PROVE  \A n \in HostFds : h[n] \in {host[n], None} \cup Below
  <1>1. Fds(host)
    BY Start DEF Shapes, Fds
  <1>2. PICK m : m = FreeHost(host)
    OBVIOUS
  <1>3. h = [host EXCEPT ![m] = node]
    BY <1>2 DEF HostOpen
  <1>4. ASSUME NEW n \in HostFds PROVE h[n] = host[n] \/ h[n] = node
    <2>1. DOMAIN host = HostFds
      BY <1>1 DEF Fds
    <2> QED BY <1>3, <2>1
  <1> QED BY <1>4

\* path_get opens directories under "root" only.
LEMMA ResolveConfined ==
  ASSUME IInv, Confined, NEW t \in Threads, Resolve(t)
  PROVE  Confined'
  <1>0. /\ {"pc", "held", "l", "opened", "nfd"} \subseteq DOMAIN th[t] /\ IsLookup(th[t].l)
        /\ DOMAIN th = Threads
    BY Start DEF Able, Shapes
  <1>1. PICK a : a = th[t].l
    OBVIOUS
  <1>2. IsLookup(a) /\ Under(a) /\ LookupRecord(a) /\ a.fds # <<>>
    BY <1>0, <1>1 DEF Confined, IsLookup
  <1>3. PICK step : step = LookupStep(a, fs)
    OBVIOUS
  <1>4. Under(step) /\ IsLookup(step)
    BY <1>2, <1>3, TreeClosed, LookupStepUnder, LookupStepFds
  <1>5. PICK down \in BOOLEAN : down <=> Len(step.fds) > Len(th[t].l.fds)
    OBVIOUS
  <1>6. PICK full \in BOOLEAN : full <=> down /\ \A n \in HostFds : host[n] # None
    OBVIOUS
  <1>7. PICK l : l = IF full THEN Failed(th[t].l, "ENFILE") ELSE step
    OBVIOUS
  <1>8. PICK s : s = IF down /\ ~full THEN Append(th[t].opened, FreeHost(host)) ELSE SubSeq(th[t].opened, 1, Len(l.fds) - 1)
    OBVIOUS
  <1>9. PICK h : h = IF down /\ ~full THEN HostOpen(host, Here(l)) ELSE CloseAll(host, Range(th[t].opened) \ Range(s))
    OBVIOUS
  <1>10. Walk(t, l, s, h) /\ objs' = objs /\ entries' = entries /\ tree' = tree
    BY <1>1, <1>3, <1>5, <1>6, <1>7, <1>8, <1>9 DEF Resolve, table, Same
  <1>11. Under(l) /\ (~full => l.fds # <<>>)
    <2>1. CASE full
      <3>1. l.fds = <<a.fds[1]>>
        BY <1>1, <1>2, <1>7, <2>1, FailedFds
      <3>2. <<a.fds[1]>> \in Seq(Below)
        BY <1>2, HereBelow
      <3> QED BY <2>1, <3>1, <3>2 DEF Under
    <2>2. CASE ~full
      BY <1>4, <1>7, <2>2 DEF IsLookup
    <2> QED BY <2>1, <2>2
  <1>12. \A n \in HostFds : h[n] \in {host[n], None} \cup Below
    <2>1. CASE down /\ ~full
      <3>1. Here(l) \in Below
        BY <1>11, <2>1, HereBelow
      <3>2. h = HostOpen(host, Here(l))
        BY <1>9, <2>1
      <3> QED BY <3>1, <3>2, HostOpenUnder
    <2>2. CASE ~(down /\ ~full)
      <3>1. h = CloseAll(host, Range(th[t].opened) \ Range(s))
        BY <1>9, <2>2
      <3> QED BY <3>1 DEF CloseAll
    <2> QED BY <2>1, <2>2
  <1>13. OpensUnder
    <2>1. \/ \E ns : host' = CloseAll(h, ns)
          \/ host' = h
      BY <1>10 DEF Walk
    <2>2. \A n \in HostFds : host'[n] \in {h[n], None}
      BY <2>1 DEF CloseAll
    <2> QED BY <1>12, <2>2 DEF OpensUnder
  <1>14. LooksOn
    <2>1. PICK q : th' = [th EXCEPT ![t] = q] /\ q.l = l
      <3>1. CASE l.st = "ok"
        <4>1. PICK i, k : i = Len(th[t].held) /\ k = Len(s)
          OBVIOUS
        <4>2. PICK q : q = [th[t] EXCEPT !.l = l, !.opened = <<>>, !.pc = "found",
                                         !.held[i].fd = IF k = 0 THEN @ ELSE s[k]]
          OBVIOUS
        <4>3. th' = [th EXCEPT ![t] = q]
          BY <1>10, <3>1, <4>1, <4>2 DEF Walk
        <4>4. q.l = l
          BY <1>0, <4>2
        <4> QED BY <4>3, <4>4
      <3>2. CASE l.st # "ok"
        <4>1. PICK pc : pc = IF l.st = "run" THEN "lookup" ELSE "lost"
          OBVIOUS
        <4>2. PICK q : q = [th[t] EXCEPT !.l = l, !.opened = s, !.pc = pc]
          OBVIOUS
        <4>3. th' = [th EXCEPT ![t] = q]
          BY <1>10, <3>2, <4>1, <4>2 DEF Walk
        <4>4. q.l = l
          BY <1>0, <4>2
        <4> QED BY <4>3, <4>4
      <3> QED BY <3>1, <3>2
    <2>2. Under(q.l)
      BY <1>11, <2>1
    <2> QED BY <2>1, <2>2, LooksOnHere
  <1>15. Kept /\ \A x \in DOMAIN entries' : Passed(x)
    BY <1>10, StaysPassed DEF Kept
  <1> QED BY <1>10, <1>13, <1>14, <1>15, ConfinedStill DEF Confined

\* So does path_open with its file.
LEMMA OpenatConfined ==
  ASSUME IInv, Confined, NEW t \in Threads, Openat(t)
  PROVE  Confined'
  <1>0. /\ {"pc", "held", "l", "opened", "nfd"} \subseteq DOMAIN th[t] /\ IsLookup(th[t].l)
    BY Start DEF Able
  <1>1. PICK n : n = Opens(th[t])
    OBVIOUS
  <1>2. /\ objs' = objs /\ entries' = entries /\ tree' = tree
        /\ \/ n # None /\ th' = [th EXCEPT ![t] = [Done(th[t]) EXCEPT !.nfd = FreeHost(host)]] /\ host' = HostOpen(host, n)
           \/ th' = [th EXCEPT ![t] = Done(th[t])] /\ host' = host
    BY <1>1 DEF Openat, table, Same
  <1>3. n # None => n \in Below
    <2>1. PICK l : l = th[t].l
      OBVIOUS
    <2>2. Under(l) /\ l.fds # <<>>
      BY <1>0, <2>1 DEF Confined, IsLookup
    <2>3. Here(l) \in Below
      BY <2>2, HereBelow
    <2>4. Entry(fs, Here(l), l.file) \in Below \cup {None}
      BY <2>3, TreeClosed, EntryBelow
    <2>5. Target(th[t]) \in Below \cup {None}
      BY <2>1, <2>3, <2>4 DEF Target
    <2>6. n \in {"new", None, Target(th[t])}
      BY <1>1 DEF Opens
    <2> QED BY <2>5, <2>6, BelowAssumption
  <1>4. OpensUnder
    <2>1. CASE n # None /\ host' = HostOpen(host, n)
      BY <1>3, <2>1, HostOpenUnder DEF OpensUnder
    <2>2. CASE host' = host
      BY <2>2 DEF OpensUnder
    <2> QED BY <1>2, <2>1, <2>2
  <1>5. LooksOn
    <2>1. PICK q : q = Done(th[t])
      OBVIOUS
    <2>2. q.l = NoLookup /\ {"l", "nfd"} \subseteq DOMAIN q
      BY <1>0, <2>1 DEF Done
    <2>3. PICK m : m = FreeHost(host)
      OBVIOUS
    <2>4. PICK r : r = [q EXCEPT !.nfd = m]
      OBVIOUS
    <2>5. r.l = NoLookup
      BY <2>2, <2>4
    <2>6. th' = [th EXCEPT ![t] = r] \/ th' = [th EXCEPT ![t] = q]
      BY <1>2, <2>1, <2>3, <2>4
    <2> QED BY <2>2, <2>5, <2>6, LooksOnHere, IdleUnder
  <1>6. Kept /\ \A x \in DOMAIN entries' : Passed(x)
    BY <1>2, StaysPassed DEF Kept
  <1> QED BY <1>2, <1>4, <1>5, <1>6, ConfinedStill DEF Confined

\* fd_table_insert adds a descriptor for what path_open has opened.
LEMMA InsertConfined ==
  ASSUME IInv, Confined, NEW t \in Threads, fd_table_insert(t)
  PROVE  Confined'
  <1>0. /\ Shapes /\ ObjectTable(objs) /\ EntryTable(entries) /\ Fds(host) /\ Accounted(own, host) /\ Able(th[t])
        /\ OwnIs(own, objs, th, leaked)
    BY Start, Owns DEF Shapes, Fds
  <1>1. PICK o : o = Min({x \in Objects : objs[x].ref = 0})
    OBVIOUS
  <1>2. PICK n : n = th[t].nfd
    OBVIOUS
  <1>3. PICK node : node = host[n]
    OBVIOUS
  <1>4. PICK rights : rights = NewRights(node, th[t].want)
    OBVIOUS
  <1>5. PICK free : free = (0..Grown(0, 1) - 1) \ DOMAIN entries
    OBVIOUS
  <1>6. th[t].pc = "insert" /\ th' = [th EXCEPT ![t] = Idle] /\ tree' = tree
    BY DEF fd_table_insert, Same
  <1>7. \/ /\ \E x \in Objects : objs[x].ref = 0
           /\ \E s \in free : Comes(entries, s, NewEntry(o, rights), entries')
           /\ objs' = [objs EXCEPT ![o] = NewObject(n, node)] /\ host' = host
        \/ host' = HostClose(host, n) /\ entries' = entries /\ objs' = objs
    BY <1>1, <1>2, <1>3, <1>4, <1>5 DEF fd_table_insert, table, Comes, NewObject
  <1>8. LooksOn
    BY <1>6, IdleUnder, LooksOnHere
  <1>9. node \in Below
    <2>1. n \in HostFds /\ n # -1
      BY <1>0, <1>2, <1>6, Bounds DEF Able
    <2>2. PICK w \in Who : w = New(t) /\ own[w] = n
      BY <1>0, <1>2, Names DEF OwnIs
    <2>3. host[n] # None
      BY <1>0, <2>1, <2>2, OwnedOpen
    <2>4. n \notin 0..2
      BY <1>0, <2>2, Different DEF Accounted
    <2>5. n > 2
      BY <2>1, <2>4, Bounds
    <2> QED BY <1>3, <2>1, <2>3, <2>5 DEF Confined
  <1>10. CASE host' = HostClose(host, n) /\ entries' = entries /\ objs' = objs
    <2>1. host' = host \/ host' = [host EXCEPT ![n] = None]
      BY <1>10 DEF HostClose
    <2>2. OpensUnder
      BY <1>0, <2>1 DEF OpensUnder, Fds
    <2>3. Kept /\ \A x \in DOMAIN entries' : Passed(x)
      BY <1>10, StaysPassed DEF Kept
    <2> QED BY <1>6, <1>8, <2>2, <2>3, ConfinedStill DEF Confined
  <1>11. CASE /\ \E x \in Objects : objs[x].ref = 0
              /\ \E s \in free : Comes(entries, s, NewEntry(o, rights), entries')
              /\ objs' = [objs EXCEPT ![o] = NewObject(n, node)] /\ host' = host
    <2>1. PICK q : Comes(entries, q, NewEntry(o, rights), entries')
      BY <1>11
    <2>2. o \in Objects /\ objs[o].ref = 0
      <3> DEFINE S == {x \in Objects : objs[x].ref = 0}
      <3>1. S \in SUBSET Nat /\ S # {}
        BY <1>11, Bounds DEF Objects
      <3>2. \E x \in S : \A y \in S : x <= y
        BY <3>1, Least
      <3>3. o = CHOOSE x \in S : \A y \in S : x <= y
        BY <1>1 DEF Min
      <3>4. o \in S
        BY <3>2, <3>3
      <3> QED BY <3>4
    <2>3. ASSUME NEW s \in DOMAIN entries' PROVE Rooted(entries'[s], objs')
      <3>1. CASE s = q
        <4>1. entries'[s].obj = o
          BY <2>1, <3>1 DEF Comes, NewEntry
        <4>2. objs'[o].node = node
          <5>1. objs'[o] = NewObject(n, node)
            BY <1>0, <1>11, <2>2 DEF ObjectTable
          <5> QED BY <5>1 DEF NewObject
        <4> QED BY <1>9, <4>1, <4>2 DEF Rooted
      <3>2. CASE s # q
        <4>1. s \in DOMAIN entries /\ entries'[s] = entries[s]
          BY <2>1, <3>2 DEF Comes
        <4>2. entries[s].obj \in Objects /\ objs[entries[s].obj].ref > 0
          BY <4>1, Referenced
        <4>3. entries[s].obj # o
          <5>1. ~(0 > 0)
            OBVIOUS
          <5> QED BY <2>2, <4>2, <5>1
        <4>4. objs'[entries[s].obj] = objs[entries[s].obj]
          BY <1>0, <1>11, <4>2, <4>3 DEF ObjectTable
        <4>5. Rooted(entries[s], objs)
          BY <4>1 DEF Confined
        <4> QED BY <4>1, <4>4, <4>5 DEF Rooted
      <3> QED BY <3>1, <3>2
    <2>4. ASSUME NEW u \in Threads PROVE Under(th'[u].l)
      BY <1>8 DEF LooksOn, Confined
    <2> QED BY <1>6, <1>11, <2>3, <2>4 DEF Confined, Under, Rooted
  <1> QED BY <1>7, <1>10, <1>11

\* Others move what is under "root".
LEMMA FsChangeConfined ==
  ASSUME IInv, Confined, FsChange
  PROVE  Confined'
  <1>1. /\ entries' = entries /\ objs' = objs /\ host' = host /\ tree' \in DOMAIN FileSystems
        /\ th' = [t \in Threads |-> [th[t] EXCEPT !.stale = th[t].stale \/ th[t].pc \in {"lookup", "found", "lost"}]]
    BY DEF FsChange, table
  <1>2. ASSUME NEW t \in Threads PROVE th'[t].l = th[t].l
    <2>1. "l" \in DOMAIN th[t]
      BY Start DEF Able
    <2>2. PICK b : b = (th[t].stale \/ th[t].pc \in {"lookup", "found", "lost"})
      OBVIOUS
    <2>3. th'[t] = [th[t] EXCEPT !.stale = b]
      BY <1>1, <2>2
    <2> QED BY <2>1, <2>3
  <1>3. LooksOn /\ Kept /\ OpensUnder /\ \A s \in DOMAIN entries' : Passed(s)
    BY <1>1, <1>2, StaysPassed DEF LooksOn, Kept, OpensUnder
  <1> QED BY <1>1, <1>3, ConfinedStill

\* At the beginning the application has a terminal, a pipe and two directories.
LEMMA InitConfined == Init => Confined
  <1> SUFFICES ASSUME Init PROVE Confined
    OBVIOUS
  <1>1. tree \in DOMAIN FileSystems /\ th = [t \in Threads |-> Idle] /\ host = [n \in HostFds |-> FirstNode(n)]
    BY DEF Init
  <1>2. \A t \in Threads : Under(th[t].l)
    BY <1>1, IdleUnder
  <1>3. FirstNode(3) = "root" /\ FirstNode(4) = "a"
    <2>1. 3 \notin 0..1 /\ 4 \notin 0..1 /\ 3 # 2 /\ 4 # 2 /\ 4 # 3
      OBVIOUS
    <2> QED BY <2>1 DEF FirstNode
  <1>4. {"root", "a"} \subseteq Below
    BY BelowAssumption
  <1>5. ASSUME NEW n \in HostFds, n > 2 PROVE host[n] \in Below \cup {None}
    <2>1. n \in Nat /\ (n = 3 \/ n = 4 \/ n \notin 0..4)
      BY <1>5, Bounds DEF HostFds
    <2>2. host[n] = FirstNode(n)
      BY <1>1
    <2> QED BY <1>3, <1>4, <2>1, <2>2, FirstNodes
  <1>6. ASSUME NEW s \in DOMAIN entries PROVE Rooted(entries[s], objs)
    <2>1. s \in 0..4 /\ s + 1 \in Objects /\ (s + 1) - 1 = s
      <3>1. s \in 0..4
        BY <1>6 DEF Init
      <3>2. MaxObjects \in Nat /\ MaxObjects >= 5
        BY Bounds
      <3> QED BY <3>1, <3>2 DEF Objects
    <2>2. entries[s].obj = s + 1 /\ entries[s].base = TypeRights(FirstNode(s), s # 2, s < 3).base
      BY <2>1 DEF Init, NewEntry
    <2>3. objs[s + 1].node = FirstNode(s)
      BY <2>1 DEF Init
    <2>4. CASE s \in {3, 4}
      BY <1>3, <1>4, <2>2, <2>3, <2>4 DEF Rooted
    <2>5. CASE s \in 0..1
      <3>1. FirstNode(s) = "tty"
        BY <2>5 DEF FirstNode
      <3>2. TypeRights("tty", s # 2, s < 3).base \subseteq TTY_BASE
        BY DEF TypeRights
      <3> QED BY <2>2, <3>1, <3>2 DEF Rooted, SOCKET_BASE
    <2>6. CASE s = 2
      <3>1. FirstNode(2) = "socket"
        <4>1. 2 \notin 0..1
          OBVIOUS
        <4> QED BY <4>1 DEF FirstNode
      <3>2. TypeRights("socket", s # 2, s < 3).base \subseteq SOCKET_BASE
        BY DEF TypeRights
      <3> QED BY <2>2, <2>6, <3>1, <3>2 DEF Rooted
    <2>7. s \in {3, 4} \/ s \in 0..1 \/ s = 2
      BY <2>1
    <2> QED BY <2>4, <2>5, <2>6, <2>7
  <1> QED BY <1>1, <1>2, <1>5, <1>6 DEF Confined

\* The calls of the application leave it confined.
LEMMA CallConfined ==
  ASSUME IInv, Confined, NEW t \in Threads, NEW fd, Call(t, fd)
  PROVE  Confined'
  <1>1. CASE FdOperation(t, fd) \/ fd_readdir(t, fd)
    <2>1. \E right, pc : fd_object_get(t, fd, right, pc)
      BY <1>1 DEF FdOperation, fd_datasync, fd_pread, fd_pwrite, fd_read, fd_seek, fd_tell, fd_fdstat_set_flags,
             fd_sync, fd_write, fd_advise, fd_allocate, fd_filestat_get, fd_filestat_set_size,
             fd_filestat_set_times, sock_recv, sock_send, sock_shutdown, fd_readdir
    <2> QED BY <2>1, fd_object_getConfined
  <1>2. CASE fd_close(t, fd)
    BY <1>2, TableConfined
  <1>3. CASE \E fd2 \in DOMAIN entries : poll_oneoff(t, fd, fd2)
    BY <1>3, TableConfined
  <1>4. CASE \E fd2 \in DOMAIN entries : fd_renumber(t, fd, fd2)
    BY <1>4, RenumberConfined
  <1>5. CASE \E r \in Wants : fd_fdstat_set_rights(t, fd, r)
    BY <1>5, TableConfined
  <1> QED BY <1>1, <1>2, <1>3, <1>4, <1>5 DEF Call

\* Every step leaves it confined.
LEMMA NextConfined ==
  ASSUME IInv, Confined, [Next]_vars
  PROVE  Confined'
  <1>1. CASE UNCHANGED vars
    <2>1. entries' = entries /\ objs' = objs /\ host' = host /\ th' = th /\ tree' = tree
      BY <1>1 DEF vars
    <2>2. LooksOn /\ Kept /\ OpensUnder /\ \A s \in DOMAIN entries' : Passed(s)
      BY <2>1, StaysPassed DEF LooksOn, Kept, OpensUnder
    <2>3. tree' \in DOMAIN FileSystems
      BY <2>1 DEF Confined
    <2> QED BY <2>2, <2>3, ConfinedStill
  <1>2. CASE FsChange
    BY <1>2, FsChangeConfined
  <1>3. ASSUME NEW t \in Threads, ReaddirLock(t) \/ Lost(t) \/ SystemCall(t) \/ ValidateRefuses(t)
        PROVE  Confined'
    BY <1>3, TableConfined
  <1>4. ASSUME NEW t \in Threads, Release(t) \/ Resolve(t) \/ Openat(t) \/ fd_table_insert(t)
        PROVE  Confined'
    BY <1>4, ReleaseConfined, ResolveConfined, OpenatConfined, InsertConfined
  <1>5. ASSUME NEW t \in Threads, NEW fd \in DOMAIN entries, NEW p \in NewPaths, SecondPath(t, fd, p)
        PROVE  Confined'
    BY <1>5, SecondPathConfined
  <1>6. ASSUME NEW t \in Threads, NEW fd \in DOMAIN entries, Call(t, fd) \/ CallWithPath(t, fd)
        PROVE  Confined'
    BY <1>6, CallConfined, CallWithPathConfined
  <1> QED BY <1>1, <1>2, <1>3, <1>4, <1>5, <1>6 DEF Next

\* path_get never leaves the directory that the host gave the application, whatever links and
\* ".." a path meets, whatever other threads do and however others move what is in it.
THEOREM PathConfinedCorrect == Spec => []PathConfined
  <1>1. Init => Confined
    BY InitConfined
  <1>2. IInv /\ Confined /\ [Next]_vars => Confined'
    BY NextConfined
  <1>3. Confined => PathConfined
    <2>1. ASSUME Confined, NEW t \in Threads, NEW i \in DOMAIN th[t].l.fds
          PROVE  th[t].l.fds[i] \in Below
      <3>1. th[t].l.fds \in Seq(Below)
        BY <2>1 DEF Confined, Under
      <3> QED BY <3>1
    <2> QED BY <2>1 DEF PathConfined
  <1> QED BY <1>1, <1>2, <1>3, Accounting, PTL DEF Spec
=============================================================================
